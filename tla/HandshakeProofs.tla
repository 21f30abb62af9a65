-------------------------- MODULE HandshakeProofs --------------------------
(***************************************************************************)
(* Proofs about Handshake, for every set of configurations, versions and   *)
(* identities and any number of disturbances.                              *)
(*                                                                         *)
(* What makes the properties inductive is KindInv: whatever the network    *)
(* does, the fourth field that a side reads is garbage or the tag of a     *)
(* side that has sent its own, and therefore has seen and accepted the     *)
(* other's hello.  CheckedInv adds what a side has checked by the time it  *)
(* reaches a step.                                                         *)
(***************************************************************************)
EXTENDS Handshake, SequenceTheorems, TLAPS

(* How many fields s has received and sent when it comes to step k.        *)
ReceivedBy(s, k) ==
    IF s = "client" THEN IF k <= 4 THEN 0 ELSE IF k <= 7 THEN k - 4 ELSE k - 5
    ELSE IF k <= 1 THEN 0 ELSE IF k <= 4 THEN k - 1 ELSE IF k <= 7 THEN 3 ELSE 4
SentBy(s, k) ==
    IF s = "client" THEN IF k <= 1 THEN 0 ELSE IF k <= 4 THEN k - 1
                         ELSE IF k <= 7 THEN 3 ELSE 4
    ELSE IF k <= 4 THEN 0 ELSE IF k <= 8 THEN k - 4 - (k \div 8) ELSE 4

(* Everything that can be in flight.                                       *)
Kind(k) == FieldValues(Fields[k])
Psk == {c[s].psk : c \in Configs, s \in Side}
Field ==
    Versions \cup Ids \cup PublicKeys \cup {GarbledTag}
      \cup [psk : Psk, label : Side,
            transcript : [version : Versions, ids : [Side -> Ids],
                          keys : [Side -> PublicKeys]]]
SeqInv == wire \in [Side -> Seq(Field)] /\ heard \in [Side -> Seq(Field)]

(* The k-th field towards s, read or in flight, is of the k-th kind.       *)
KindInv ==
    \A s \in Side :
        /\ \A k \in 1..4 : k <= Len(heard[s]) => heard[s][k] \in Kind(k)
        /\ \A k \in 1..4 : (Len(heard[s]) < k /\ k <= Len(heard[s]) + Len(wire[s]))
                              => wire[s][k - Len(heard[s])] \in Kind(k)

(* The fields that have been read, and sent, at a step; a side that raised *)
(* may have read one more.  Behind an altered length fields get lost.      *)
CountInv ==
    \A s \in Side :
        /\ Len(heard[s]) >= ReceivedBy(s, step[s])
        /\ status[s] # "failed" => Len(heard[s]) = ReceivedBy(s, step[s])
        /\ framing[Peer(s)] = "kept" =>
              Len(heard[Peer(s)]) + Len(wire[Peer(s)]) >= SentBy(s, step[s])

CheckedInv ==
    \A s \in Side :
        /\ ReceivedBy(s, step[s]) >= 3 => HelloAccepted(s, heard[s])
        /\ ReceivedBy(s, step[s]) = 4 => TagAccepted(s, heard[s])
        /\ Done(s) => step[s] = 9 /\ channel[s] = SessionChannel(s)

IInv == TypeOK /\ SeqInv /\ KindInv /\ CountInv /\ CheckedInv
-----------------------------------------------------------------------------
LEMMA PeerFacts ==
    \A s \in Side : /\ Peer(s) \in Side /\ Peer(s) # s /\ Peer(Peer(s)) = s
                    /\ \A r \in Side : r = s \/ r = Peer(s)
BY DEF Side, Peer

(* What the two scripts say at each step.                                  *)
LEMMA SendCounts ==
    ASSUME NEW s \in Side, NEW n \in 1..4, AtSend(s, n)
    PROVE  /\ step[s] \in 1..8
           /\ SentBy(s, step[s]) = n - 1 /\ SentBy(s, step[s] + 1) = n
           /\ ReceivedBy(s, step[s] + 1) = ReceivedBy(s, step[s])
           /\ n = 4 => ReceivedBy(s, step[s]) >= 3
BY DEF AtSend, Script, ClientScript, ServerScript, Send, Receive, SentBy, ReceivedBy, Side

LEMMA ReceiveCounts ==
    ASSUME NEW s \in Side, NEW n \in 1..4, AtReceive(s, n)
    PROVE  /\ step[s] \in 1..8
           /\ ReceivedBy(s, step[s]) = n - 1 /\ ReceivedBy(s, step[s] + 1) = n
           /\ SentBy(s, step[s] + 1) = SentBy(s, step[s])
BY DEF AtReceive, Script, ClientScript, ServerScript, Send, Receive, SentBy, ReceivedBy, Side

(* A side whose tag is on its way has accepted the other's hello; the      *)
(* server has verified the client's tag as well.                           *)
LEMMA TagSentCounts ==
    ASSUME NEW s \in Side, step[s] \in 0..9, TagSent(s)
    PROVE  /\ ReceivedBy(s, step[s]) >= 3
           /\ s = "server" => step[s] = 9
BY DEF TagSent, Script, ClientScript, ServerScript, Send, Receive, ReceivedBy, Side

LEMMA CountTypes ==
    \A s \in Side : \A k \in 0..9 : ReceivedBy(s, k) \in 0..4 /\ SentBy(s, k) \in 0..4
BY DEF ReceivedBy, SentBy, Side

LEMMA FieldFacts ==
    /\ Kind(1) = Versions /\ Kind(2) = Ids /\ Kind(3) = PublicKeys
    /\ Kind(4) = TagsInUse \cup {GarbledTag}
BY DEF Kind, FieldValues, Fields

LEMMA LengthFacts ==
    ASSUME TypeOK, SeqInv, NEW s \in Side
    PROVE  /\ Len(heard[s]) \in Nat /\ Len(wire[s]) \in Nat
           /\ Len(heard[s]) + Len(wire[s]) <= 4
           /\ step[s] \in 0..9
BY LenProperties DEF TypeOK, SeqInv

LEMMA TagSentHeard ==
    ASSUME TypeOK, SeqInv, CountInv, NEW s \in Side, TagSent(s)
    PROVE  Len(heard[s]) >= 3
<1>1. step[s] \in 0..9 /\ Len(heard[s]) \in Nat
  BY LengthFacts
<1>2. ReceivedBy(s, step[s]) \in 0..4 /\ ReceivedBy(s, step[s]) >= 3
  BY <1>1, CountTypes, TagSentCounts
<1>3. Len(heard[s]) >= ReceivedBy(s, step[s])
  BY DEF CountInv
<1> QED BY <1>1, <1>2, <1>3

(* The tag of a side that has read a hello is a possible field.            *)
LEMMA OwnTagIsField ==
    ASSUME TypeOK, SeqInv, KindInv, NEW s \in Side, Len(heard[s]) >= 3
    PROVE  FinishedTag(s, s) \in Field
<1>1. Len(heard[s]) \in Nat
  BY LengthFacts
<1>2. heard[s][2] \in Ids /\ heard[s][3] \in PublicKeys
  <2>1. \A k \in 1..4 : k <= Len(heard[s]) => heard[s][k] \in Kind(k)
    BY DEF KindInv
  <2>2. heard[s][2] \in Kind(2) /\ heard[s][3] \in Kind(3)
    BY <1>1, <2>1
  <2> QED BY <2>2, FieldFacts
<1>3. config \in Configs /\ config[s].version \in Versions /\ config[s].id \in Ids
  BY ConfigsAssumption DEF TypeOK
<1>4. config[s].psk \in Psk
  BY <1>3 DEF Psk
<1>5. s \in PublicKeys
  BY DEF PublicKeys
<1>6. [r \in Side |-> IF r = s THEN config[s].id ELSE heard[s][2]] \in [Side -> Ids]
  BY <1>2, <1>3
<1>7. [r \in Side |-> IF r = s THEN s ELSE heard[s][3]] \in [Side -> PublicKeys]
  BY <1>2, <1>5
<1>8. Transcript(s) \in [version : Versions, ids : [Side -> Ids],
                         keys : [Side -> PublicKeys]]
  BY <1>3, <1>6, <1>7 DEF Transcript
<1> QED BY <1>4, <1>8 DEF FinishedTag, Field

LEMMA KindsAreFields ==
    ASSUME TypeOK, SeqInv, KindInv, CountInv, NEW k \in 1..4
    PROVE  Kind(k) \subseteq Field
<1>1. TagsInUse \subseteq Field
  <2> SUFFICES ASSUME NEW r \in Side, TagSent(r) PROVE FinishedTag(r, r) \in Field
    BY DEF TagsInUse
  <2>1. step[r] \in 0..9 /\ Len(heard[r]) \in Nat
    BY LengthFacts
  <2>2. Len(heard[r]) >= 3
    BY TagSentHeard
  <2> QED BY <2>2, OwnTagIsField
<1>2. Versions \subseteq Field /\ Ids \subseteq Field /\ PublicKeys \subseteq Field
      /\ GarbledTag \in Field
  BY DEF Field
<1>3. k = 1 \/ k = 2 \/ k = 3 \/ k = 4
  OBVIOUS
<1> QED BY <1>1, <1>2, <1>3, FieldFacts

(* What could be the k-th field still can: nothing that has been read      *)
(* changes, and no tag is taken back.                                      *)
LEMMA KindsGrow ==
    ASSUME IInv, config' = config, step' \in [Side -> 0..9],
           \A r \in Side : step'[r] >= step[r],
           \A r \in Side : \A k \in 1..4 :
               k <= Len(heard[r]) => heard'[r][k] = heard[r][k],
           NEW k \in 1..4
    PROVE  Kind(k) \subseteq Kind(k)'
<1>1. TagsInUse \subseteq TagsInUse'
  <2> SUFFICES ASSUME NEW r \in Side, TagSent(r)
               PROVE  TagSent(r)' /\ FinishedTag(r, r)' = FinishedTag(r, r)
    BY DEF TagsInUse
  <2>1. step[r] \in 0..9 /\ Len(heard[r]) \in Nat /\ step'[r] \in 0..9 /\ step'[r] >= step[r]
    BY LengthFacts DEF IInv
  <2>2. Len(heard[r]) >= 3
    BY TagSentHeard DEF IInv
  <2>3. heard'[r][2] = heard[r][2] /\ heard'[r][3] = heard[r][3]
    BY <2>1, <2>2
  <2>4. TagSent(r)'
    BY <2>1 DEF TagSent
  <2> QED BY <2>3, <2>4 DEF FinishedTag, Transcript
<1>2. k = 1 \/ k = 2 \/ k = 3 \/ k = 4
  OBVIOUS
<1>3. /\ Kind(1)' = Versions /\ Kind(2)' = Ids /\ Kind(3)' = PublicKeys
      /\ Kind(4)' = TagsInUse' \cup {GarbledTag}
  BY FieldFacts DEF Kind, FieldValues, Fields
<1> QED BY <1>1, <1>2, <1>3, FieldFacts

-----------------------------------------------------------------------------
LEMMA InitIInv == Init => IInv
<1> SUFFICES ASSUME Init PROVE IInv
  OBVIOUS
<1>1. /\ step = [s \in Side |-> 0] /\ status = [s \in Side |-> "running"]
      /\ \A s \in Side : wire[s] = << >> /\ heard[s] = << >>
  BY DEF Init
<1>8. ASSUME NEW s \in Side PROVE Len(wire[s]) = 0 /\ Len(heard[s]) = 0
  BY <1>1
<1>2. TypeOK
  <2>1. DOMAIN channel = Side /\ DOMAIN wire = Side /\ DOMAIN heard = Side
    BY DEF Init
  <2>2. disturbances \in 0..MaxDisturbances
    BY DisturbancesAssumption DEF Init
  <2> QED BY <1>8, <1>1, <2>1, <2>2 DEF Init, TypeOK
<1>3. SeqInv
  BY EmptySeq DEF Init, SeqInv
<1>4. KindInv
  <2> SUFFICES ASSUME NEW s \in Side, NEW k \in 1..4
               PROVE  ~(k <= Len(heard[s])) /\ ~(k <= Len(heard[s]) + Len(wire[s]))
    BY DEF KindInv
  <2>1. Len(wire[s]) = 0 /\ Len(heard[s]) = 0
    BY <1>8
  <2> QED BY <2>1
<1>5. \A s \in Side : ReceivedBy(s, step[s]) = 0 /\ SentBy(s, step[s]) = 0
  BY <1>1 DEF ReceivedBy, SentBy
<1>6. CountInv
  <2> SUFFICES ASSUME NEW s \in Side
               PROVE  /\ Len(heard[s]) = ReceivedBy(s, step[s])
                      /\ Len(heard[s]) >= ReceivedBy(s, step[s])
                      /\ Len(heard[Peer(s)]) + Len(wire[Peer(s)]) >= SentBy(s, step[s])
    BY DEF CountInv
  <2>1. /\ Len(heard[s]) = 0 /\ Len(heard[Peer(s)]) = 0 /\ Len(wire[Peer(s)]) = 0
        /\ ReceivedBy(s, step[s]) = 0 /\ SentBy(s, step[s]) = 0
    BY <1>5, <1>8, PeerFacts
  <2> QED BY <2>1
<1>7. CheckedInv
  BY <1>1, <1>5 DEF CheckedInv, Done
<1> QED BY <1>2, <1>3, <1>4, <1>6, <1>7 DEF IInv

(* A step that neither reads nor writes: it starts a side, ends it with a   *)
(* channel or an error, or is none.                                         *)
LEMMA QuietKeeps ==
    ASSUME IInv, UNCHANGED <<config, wire, heard>>,
           step' \in [Side -> 0..9],
           \A r \in Side : step'[r] = step[r] \/ (step[r] = 0 /\ step'[r] = 1),
           status' \in [Side -> {"running", "done", "failed"}],
           \A r \in Side : status[r] = "failed" => status'[r] = "failed",
           \A r \in Side : status'[r] = "done" =>
               step'[r] = 9 /\ channel'[r] = SessionChannel(r),
           DOMAIN channel' = Side, disturbances' \in 0..MaxDisturbances,
           framing' \in [Side -> {"kept", "lost", "drained"}],
           \A r \in Side : framing'[r] = "kept" => framing[r] = "kept"
    PROVE  IInv'
<1>1. TypeOK' /\ SeqInv'
  BY DEF IInv, TypeOK, SeqInv
<1>2. \A r \in Side : /\ ReceivedBy(r, step'[r]) = ReceivedBy(r, step[r])
                      /\ SentBy(r, step'[r]) = SentBy(r, step[r])
                      /\ step[r] \in 0..9
  BY DEF ReceivedBy, SentBy, IInv, TypeOK
<1>3. \A k \in 1..4 : Kind(k) \subseteq Kind(k)'
  <2>1. \A r \in Side : step'[r] >= step[r]
    BY <1>2
  <2> QED BY <2>1, KindsGrow
<1>4. KindInv'
  BY <1>3 DEF IInv, KindInv
<1>5. CountInv'
  BY <1>2, PeerFacts DEF IInv, CountInv
<1>6. CheckedInv'
  <2>1. \A r \in Side : SessionChannel(r)' = SessionChannel(r)
    BY DEF SessionChannel, UnswappedChannel, SessionPart, SharedSecret, Transcript
  <2>2. \A r \in Side : /\ HelloAccepted(r, heard[r])' = HelloAccepted(r, heard[r])
                        /\ TagAccepted(r, heard[r])' = TagAccepted(r, heard[r])
    BY DEF HelloAccepted, TagAccepted, FinishedTag, Transcript
  <2> QED BY <1>2, <2>1, <2>2 DEF IInv, CheckedInv, Done
<1> QED BY <1>1, <1>4, <1>5, <1>6 DEF IInv

(* A field of the right kind is put behind what is on its way to p.         *)
LEMMA AppendKeepsKinds ==
    ASSUME NEW p \in Side, NEW v \in Field, NEW n \in 1..4,
           IInv, UNCHANGED <<config, heard>>,
           Len(heard[p]) + Len(wire[p]) + 1 = n, v \in Kind(n)',
           wire' = [wire EXCEPT ![p] = Append(@, v)],
           step' \in [Side -> 0..9], \A r \in Side : step'[r] >= step[r]
    PROVE  /\ SeqInv' /\ KindInv'
           /\ \A r \in Side : /\ Len(heard'[r]) + Len(wire'[r]) <= 4
                             /\ Len(heard'[r]) + Len(wire'[r])
                                   >= Len(heard[r]) + Len(wire[r])
           /\ Len(heard'[p]) + Len(wire'[p]) = n
<1>0. n \in 1..4
  OBVIOUS
<1>1. /\ TypeOK /\ SeqInv /\ KindInv
      /\ wire \in [Side -> Seq(Field)] /\ heard \in [Side -> Seq(Field)]
  BY DEF IInv, SeqInv
<1>2. \A r \in Side : /\ Len(heard[r]) \in Nat /\ Len(wire[r]) \in Nat
                      /\ Len(heard[r]) + Len(wire[r]) <= 4
  BY <1>1, LengthFacts
<1>3. /\ Append(wire[p], v) \in Seq(Field)
      /\ Len(Append(wire[p], v)) = Len(wire[p]) + 1
      /\ \A i \in 1..Len(wire[p]) : Append(wire[p], v)[i] = wire[p][i]
      /\ Append(wire[p], v)[Len(wire[p]) + 1] = v
  BY <1>1, AppendProperties
<1>4. /\ wire' \in [Side -> Seq(Field)] /\ wire'[p] = Append(wire[p], v)
      /\ \A r \in Side : r # p => wire'[r] = wire[r]
  BY <1>1, <1>3
<1>5. \A k \in 1..4 : Kind(k) \subseteq Kind(k)'
  BY KindsGrow
<1>6. KindInv'
  <2> SUFFICES ASSUME NEW r \in Side
               PROVE  /\ \A k \in 1..4 : k <= Len(heard[r]) => heard[r][k] \in Kind(k)'
                      /\ \A k \in 1..4 :
                            (Len(heard[r]) < k /\ k <= Len(heard[r]) + Len(wire'[r]))
                               => wire'[r][k - Len(heard[r])] \in Kind(k)'
    BY DEF KindInv
  <2>1. \A k \in 1..4 : k <= Len(heard[r]) => heard[r][k] \in Kind(k)'
    BY <1>1, <1>5 DEF KindInv
  <2>2. ASSUME NEW k \in 1..4, Len(heard[r]) < k, k <= Len(heard[r]) + Len(wire'[r])
        PROVE  wire'[r][k - Len(heard[r])] \in Kind(k)'
    <3>1. (k <= Len(heard[r]) + Len(wire[r])) => wire[r][k - Len(heard[r])] \in Kind(k)'
      BY <1>1, <1>5, <2>2 DEF KindInv
    <3> DEFINE a == Len(heard[p])  b == Len(wire[p])
    <3>5. a \in Nat /\ b \in Nat /\ Len(wire'[p]) = b + 1 /\ a + b + 1 = n
      BY <1>2, <1>3, <1>4
    <3>2. CASE r # p
      BY <1>4, <2>2, <3>1, <3>2
    <3>3. CASE r = p /\ k <= Len(heard[r]) + Len(wire[r])
      <4>1. k - a \in 1..b
        <5>1. a < k /\ k <= a + b
          BY <2>2, <3>3
        <5> HIDE DEF a, b
        <5> QED BY <3>5, <5>1
      <4> QED BY <1>3, <1>4, <3>1, <3>3, <4>1
    <3>4. CASE r = p /\ ~(k <= Len(heard[r]) + Len(wire[r]))
      <4>1. k = n /\ k - a = b + 1
        <5>1. k <= a + (b + 1) /\ ~(k <= a + b)
          BY <2>2, <3>4, <3>5
        <5>2. k \in 1..4
          BY <2>2
        <5> HIDE DEF a, b
        <5> QED BY <1>0, <3>5, <5>1, <5>2
      <4>2. wire'[p][k - Len(heard[p])] = v
        BY <1>3, <1>4, <4>1
      <4> QED BY <3>4, <4>1, <4>2
    <3> QED BY <3>2, <3>3, <3>4
  <2> QED BY <2>1, <2>2
<1>7. ASSUME NEW r \in Side
      PROVE  /\ Len(heard'[r]) + Len(wire'[r]) <= 4
             /\ Len(heard'[r]) + Len(wire'[r]) >= Len(heard[r]) + Len(wire[r])
             /\ r = p => Len(heard'[r]) + Len(wire'[r]) = n
  <2> DEFINE a == Len(heard[r])  b == Len(wire[r])
  <2>1. a \in Nat /\ b \in Nat /\ a + b <= 4 /\ Len(heard'[r]) = a
    BY <1>2
  <2>2. CASE r # p
    BY <1>4, <2>1, <2>2
  <2>3. CASE r = p
    <3>1. /\ Len(wire'[r]) = b + 1 /\ a + b + 1 = n /\ Len(heard'[r]) = a
          /\ a \in Nat /\ b \in Nat
      BY <1>3, <1>4, <2>1, <2>3
    <3> HIDE DEF a, b
    <3>2. a + (b + 1) = n /\ n <= 4 /\ n >= a + b
      BY <1>0, <3>1
    <3>3. Len(heard'[r]) + Len(wire'[r]) = n /\ n <= 4 /\ n >= a + b
      BY <3>1, <3>2
    <3> QED BY <3>3 DEF a, b
  <2> QED BY <2>2, <2>3
<1> QED BY <1>1, <1>4, <1>6, <1>7 DEF SeqInv

(* What a side has checked stays checked while it reads nothing.            *)
LEMMA CheckedStays ==
    ASSUME config' = config, NEW r \in Side, heard'[r] = heard[r]
    PROVE  /\ HelloAccepted(r, heard[r])' = HelloAccepted(r, heard[r])
           /\ TagAccepted(r, heard[r])' = TagAccepted(r, heard[r])
           /\ SessionChannel(r)' = SessionChannel(r)
           /\ FinishedTag(r, r)' = FinishedTag(r, r)
<1>1. Transcript(r)' = Transcript(r)
  BY DEF Transcript
<1>2. \A l \in Side : FinishedTag(r, l)' = FinishedTag(r, l)
  BY <1>1 DEF FinishedTag
<1>3. SessionChannel(r)' = SessionChannel(r)
  BY <1>1 DEF SessionChannel, UnswappedChannel, SessionPart, SharedSecret
<1> QED BY <1>2, <1>3, PeerFacts DEF HelloAccepted, TagAccepted

(* What has been sent to a side stays sent.                                 *)
LEMMA MoreArrives ==
    ASSUME TypeOK, SeqInv, SeqInv', CountInv, NEW r \in Side,
           framing'[Peer(r)] = "kept", framing[Peer(r)] = "kept",
           Len(heard'[Peer(r)]) + Len(wire'[Peer(r)])
              >= Len(heard[Peer(r)]) + Len(wire[Peer(r)])
    PROVE  Len(heard'[Peer(r)]) + Len(wire'[Peer(r)]) >= SentBy(r, step[r])
<1> DEFINE p == Peer(r)  a == Len(heard[p]) + Len(wire[p])
           b == Len(heard'[p]) + Len(wire'[p])  c == SentBy(r, step[r])
<1>1. p \in Side
  BY PeerFacts
<1>2. a \in Int
  BY <1>1, LengthFacts
<1>3. Len(heard'[p]) \in Nat /\ Len(wire'[p]) \in Nat
  BY <1>1, LenProperties DEF SeqInv
<1>4. b \in Int
  BY <1>3
<1>5. c \in Int
  <2>1. step[r] \in 0..9
    BY LengthFacts
  <2>2. c \in 0..4
    BY <2>1, CountTypes
  <2> QED BY <2>2
<1>6. b >= a /\ a >= c
  BY <1>1 DEF CountInv
<1> HIDE DEF a, b, c
<1>7. b >= c
  BY <1>2, <1>4, <1>5, <1>6
<1> QED BY <1>7 DEF b, c

(* The network brings a field of the right kind.                            *)
LEMMA ForeignKeeps ==
    ASSUME IInv, NEW s \in Side, ForeignField(s)
    PROVE  IInv'
<1>1. /\ UNCHANGED <<config, status, step, framing, heard, channel>>
      /\ Len(heard[s]) + Len(wire[s]) < 4
      /\ disturbances < MaxDisturbances /\ disturbances' = disturbances + 1
  BY DEF ForeignField
<1>2. /\ TypeOK /\ SeqInv /\ KindInv /\ CountInv /\ CheckedInv
      /\ step \in [Side -> 0..9] /\ disturbances \in 0..MaxDisturbances
      /\ \A r \in Side : Len(heard[r]) \in Nat /\ Len(wire[r]) \in Nat
  BY LengthFacts DEF IInv, TypeOK
<1>3. PICK n \in 1..4 : Len(heard[s]) + Len(wire[s]) + 1 = n
  <2> DEFINE a == Len(heard[s])  b == Len(wire[s])
  <2>1. a \in Nat /\ b \in Nat /\ a + b < 4
    BY <1>1, <1>2
  <2> HIDE DEF a, b
  <2>2. a + b + 1 \in 1..4
    BY <2>1
  <2> QED BY <2>2 DEF a, b
<1>4. PICK v \in Kind(n) : wire' = [wire EXCEPT ![s] = Append(@, v)]
  BY <1>3 DEF ForeignField, Kind
<1>5. v \in Field
  BY <1>2, <1>4, KindsAreFields
<1>6. \A r \in Side : step'[r] >= step[r]
  BY <1>1, <1>2
<1>7. v \in Kind(n)'
  <2>1. \A r \in Side : \A j \in 1..4 :
            j <= Len(heard[r]) => heard'[r][j] = heard[r][j]
    BY <1>1
  <2> QED BY <1>1, <1>2, <1>4, <1>6, <2>1, KindsGrow
<1>8. /\ SeqInv' /\ KindInv'
      /\ \A r \in Side : /\ Len(heard'[r]) + Len(wire'[r]) <= 4
                        /\ Len(heard'[r]) + Len(wire'[r])
                              >= Len(heard[r]) + Len(wire[r])
  BY <1>1, <1>2, <1>3, <1>4, <1>5, <1>6, <1>7, AppendKeepsKinds
<1>9. TypeOK'
  <2>1. disturbances' \in 0..MaxDisturbances
    BY <1>1, <1>2, DisturbancesAssumption
  <2> QED BY <1>1, <1>2, <1>4, <1>8, <2>1 DEF TypeOK
<1>10. CountInv'
  <2>1. ASSUME NEW r \in Side, framing[Peer(r)] = "kept"
        PROVE  Len(heard'[Peer(r)]) + Len(wire'[Peer(r)]) >= SentBy(r, step[r])
    BY <1>1, <1>2, <1>8, <2>1, MoreArrives, PeerFacts
  <2> QED BY <1>1, <1>2, <2>1 DEF CountInv
<1>11. CheckedInv'
  BY <1>1, <1>2, CheckedStays DEF CheckedInv, Done
<1> QED BY <1>8, <1>9, <1>10, <1>11 DEF IInv

(* What a side sends is of the kind that its peer reads next.               *)
LEMMA SentKinds ==
    ASSUME IInv, NEW s \in Side, NEW n \in 1..4, status[s] = "running",
           AtSend(s, n), UNCHANGED <<config, heard>>,
           n = 4 => step'[s] = step[s] + 1
    PROVE  /\ FieldValue(s, Fields[n]) \in Field
           /\ FieldValue(s, Fields[n]) \in Kind(n)'
<1> DEFINE v == FieldValue(s, Fields[n])
<1>1. /\ TypeOK /\ SeqInv /\ KindInv /\ CountInv
      /\ config[s].version \in Versions /\ config[s].id \in Ids /\ s \in PublicKeys
  BY ConfigsAssumption DEF IInv, TypeOK, PublicKeys
<1>2. /\ Kind(1)' = Versions /\ Kind(2)' = Ids /\ Kind(3)' = PublicKeys
      /\ Kind(4)' = TagsInUse' \cup {GarbledTag}
  BY DEF Kind, FieldValues, Fields
<1>3. CASE n = 1
  BY <1>1, <1>2, <1>3 DEF FieldValue, Fields, Field
<1>4. CASE n = 2
  BY <1>1, <1>2, <1>4 DEF FieldValue, Fields, Field
<1>5. CASE n = 3
  BY <1>1, <1>2, <1>5 DEF FieldValue, Fields, Field
<1>6. CASE n = 4
  <2>1. v = FinishedTag(s, s)
    BY <1>6 DEF FieldValue, Fields
  <2>2. Len(heard[s]) >= 3
    <3>1. ReceivedBy(s, step[s]) >= 3 /\ step[s] \in 1..8
      BY <1>6, SendCounts
    <3>2. Len(heard[s]) = ReceivedBy(s, step[s])
      BY <1>1 DEF CountInv
    <3> QED BY <3>1, <3>2
  <2>3. v \in Field
    BY <1>1, <2>1, <2>2, OwnTagIsField
  <2>4. TagSent(s)'
    BY <1>6 DEF AtSend, TagSent
  <2>5. FinishedTag(s, s)' = FinishedTag(s, s)
    BY CheckedStays
  <2>6. FinishedTag(s, s)' \in TagsInUse'
    BY <2>4 DEF TagsInUse
  <2> QED BY <1>2, <1>6, <2>1, <2>3, <2>5, <2>6
<1> QED BY <1>3, <1>4, <1>5, <1>6

(* A side sends a field, unless the network has brought another first.      *)
LEMMA SendKeeps ==
    ASSUME IInv, NEW s \in Side, NEW n \in 1..4, SendField(s, n)
    PROVE  IInv'
<1> DEFINE p == Peer(s)  v == FieldValue(s, Fields[n])
<1>1. /\ status[s] = "running" /\ AtSend(s, n)
      /\ UNCHANGED <<config, heard, channel, disturbances>>
      /\ \/ /\ framing[p] = "kept" /\ framing' = framing
            /\ wire' = IF Replaced(p, n) THEN wire ELSE [wire EXCEPT ![p] = Append(@, v)]
         \/ /\ framing[p] # "kept" /\ framing' = [framing EXCEPT ![p] = "lost"]
            /\ wire' = wire
      /\ \/ n = 3 /\ step' = step /\ status' = [status EXCEPT ![s] = "failed"]
         \/ step' = [step EXCEPT ![s] = @ + 1] /\ status' = status
  BY DEF SendField, Fail
<1>2. /\ TypeOK /\ SeqInv /\ KindInv /\ CountInv /\ CheckedInv
      /\ step \in [Side -> 0..9]
      /\ status \in [Side -> {"running", "done", "failed"}]
      /\ framing \in [Side -> {"kept", "lost", "drained"}]
      /\ p \in Side /\ p # s
  BY PeerFacts DEF IInv, TypeOK
<1>3. /\ step[s] \in 1..8
      /\ SentBy(s, step[s]) = n - 1 /\ SentBy(s, step[s] + 1) = n
      /\ ReceivedBy(s, step[s] + 1) = ReceivedBy(s, step[s])
  BY <1>1, SendCounts
<1>4. /\ step' \in [Side -> 0..9] /\ status' \in [Side -> {"running", "done", "failed"}]
      /\ \A r \in Side : step'[r] >= step[r]
      /\ \A r \in Side : r # s => step'[r] = step[r] /\ status'[r] = status[r]
  BY <1>1, <1>2, <1>3
<1>5. /\ SeqInv' /\ KindInv'
      /\ \A r \in Side : /\ Len(heard'[r]) + Len(wire'[r]) <= 4
                         /\ Len(heard'[r]) + Len(wire'[r])
                               >= Len(heard[r]) + Len(wire[r])
      /\ framing[p] = "kept" => Len(heard'[p]) + Len(wire'[p]) >= n
      /\ DOMAIN wire' = Side
  <2>1. CASE framing[p] = "kept" => Replaced(p, n)
    <3>1. wire' = wire /\ (framing[p] = "kept" => Len(heard[p]) + Len(wire[p]) >= n)
      BY <1>1, <2>1 DEF Replaced
    <3>2. \A k \in 1..4 : Kind(k) \subseteq Kind(k)'
      BY <1>1, <1>4, KindsGrow
    <3>3. KindInv'
      BY <1>1, <1>2, <3>1, <3>2 DEF KindInv
    <3>4. \A r \in Side : /\ Len(heard'[r]) \in Nat /\ Len(wire'[r]) \in Nat
                          /\ Len(heard'[r]) + Len(wire'[r]) <= 4
                          /\ Len(heard'[r]) = Len(heard[r])
                          /\ Len(wire'[r]) = Len(wire[r])
      BY <1>1, <1>2, <3>1, LengthFacts
    <3> QED BY <1>1, <1>2, <3>1, <3>3, <3>4 DEF SeqInv, TypeOK
  <2>2. CASE framing[p] = "kept" /\ ~Replaced(p, n)
    <3>1. wire' = [wire EXCEPT ![p] = Append(@, v)]
      BY <1>1, <2>2
    <3>2. Len(heard[p]) + Len(wire[p]) + 1 = n
      <4> DEFINE a == Len(heard[p])  b == Len(wire[p])
      <4>0. n \in 1..4
        OBVIOUS
      <4>1. a \in Nat /\ b \in Nat
        BY <1>2, LengthFacts
      <4>2. a + b >= n - 1 /\ ~(a + b >= n)
        BY <1>2, <1>3, <2>2 DEF CountInv, Replaced
      <4> HIDE DEF a, b
      <4>3. a + b + 1 = n
        BY <4>0, <4>1, <4>2
      <4> QED BY <4>3 DEF a, b
    <3>3. v \in Field /\ v \in Kind(n)'
      BY <1>1, <1>2, SentKinds
    <3>4. PICK w \in Field : w = v
      BY <3>3
    <3>5. PICK q \in Side : q = p
      BY <1>2
    <3> HIDE DEF p, v
    <3>6. /\ wire' = [wire EXCEPT ![q] = Append(@, w)] /\ w \in Kind(n)'
          /\ Len(heard[q]) + Len(wire[q]) + 1 = n
      BY <3>1, <3>2, <3>3, <3>4, <3>5
    <3>7. /\ SeqInv' /\ KindInv'
          /\ \A r \in Side : /\ Len(heard'[r]) + Len(wire'[r]) <= 4
                             /\ Len(heard'[r]) + Len(wire'[r])
                                   >= Len(heard[r]) + Len(wire[r])
          /\ Len(heard'[q]) + Len(wire'[q]) = n
      BY <1>1, <1>4, <3>6, AppendKeepsKinds
    <3>8. DOMAIN wire' = Side
      BY <3>7 DEF SeqInv
    <3>9. n >= n
      OBVIOUS
    <3> QED BY <3>5, <3>7, <3>8, <3>9
  <2> QED BY <2>1, <2>2
<1>9. /\ framing' \in [Side -> {"kept", "lost", "drained"}]
      /\ \A r \in Side : framing'[r] = "kept" => framing[r] = "kept"
  BY <1>1, <1>2
<1>6. TypeOK'
  BY <1>1, <1>2, <1>4, <1>5, <1>9 DEF TypeOK
<1>7. CountInv'
  <2> SUFFICES ASSUME NEW r \in Side
               PROVE  /\ Len(heard'[r]) >= ReceivedBy(r, step'[r])
                      /\ status'[r] # "failed" => Len(heard'[r]) = ReceivedBy(r, step'[r])
                      /\ framing'[Peer(r)] = "kept" =>
                            Len(heard'[Peer(r)]) + Len(wire'[Peer(r)]) >= SentBy(r, step'[r])
    BY DEF CountInv
  <2>1. framing'[Peer(r)] = "kept" =>
           Len(heard'[Peer(r)]) + Len(wire'[Peer(r)]) >= SentBy(r, step[r])
    BY <1>2, <1>5, <1>9, MoreArrives, PeerFacts
  <2>2. CASE r # s
    BY <1>1, <1>2, <1>4, <2>1, <2>2 DEF CountInv
  <2>3. CASE r = s /\ step' = step
    BY <1>1, <1>2, <2>1, <2>3 DEF CountInv
  <2>4. CASE r = s /\ step' = [step EXCEPT ![s] = @ + 1] /\ status' = status
    <3>1. step'[r] = step[s] + 1
      BY <1>2, <2>4
    <3> QED BY <1>1, <1>2, <1>3, <1>5, <1>9, <2>4, <3>1 DEF CountInv
  <2> QED BY <1>1, <2>2, <2>3, <2>4
<1>8. CheckedInv'
  <2> SUFFICES ASSUME NEW r \in Side
               PROVE  /\ ReceivedBy(r, step'[r]) >= 3 => HelloAccepted(r, heard[r])'
                      /\ ReceivedBy(r, step'[r]) = 4 => TagAccepted(r, heard[r])'
                      /\ Done(r)' => step'[r] = 9 /\ channel'[r] = SessionChannel(r)'
    BY DEF CheckedInv
  <2>1. ReceivedBy(r, step'[r]) = ReceivedBy(r, step[r])
    BY <1>1, <1>2, <1>3, <1>4
  <2>2. Done(r)' => r # s /\ Done(r)
    BY <1>1, <1>2, <1>4 DEF Done
  <2> QED BY <1>1, <1>2, <1>4, <2>1, <2>2, CheckedStays DEF CheckedInv
<1> QED BY <1>5, <1>6, <1>7, <1>8 DEF IInv

(* A side reads the next field that is in flight towards it.                *)
LEMMA ReadMoves ==
    ASSUME SeqInv, NEW s \in Side, wire[s] # << >>,
           heard' = [heard EXCEPT ![s] = Append(@, Head(wire[s]))],
           wire' = [wire EXCEPT ![s] = Tail(@)]
    PROVE  /\ SeqInv'
           /\ \A r \in Side : r # s => heard'[r] = heard[r] /\ wire'[r] = wire[r]
           /\ Len(heard'[s]) = Len(heard[s]) + 1 /\ Len(wire'[s]) = Len(wire[s]) - 1
           /\ Len(heard[s]) \in Nat /\ Len(wire[s]) \in Nat \ {0}
           /\ \A i \in 1..Len(heard[s]) : heard'[s][i] = heard[s][i]
           /\ heard'[s][Len(heard[s]) + 1] = wire[s][1]
           /\ \A i \in 1..(Len(wire[s]) - 1) : wire'[s][i] = wire[s][i + 1]
<1>1. wire[s] \in Seq(Field) /\ heard[s] \in Seq(Field)
  BY DEF SeqInv
<1>2. /\ Head(wire[s]) \in Field /\ Head(wire[s]) = wire[s][1]
      /\ Tail(wire[s]) \in Seq(Field) /\ Len(Tail(wire[s])) = Len(wire[s]) - 1
      /\ \A i \in 1..Len(Tail(wire[s])) : Tail(wire[s])[i] = wire[s][i + 1]
  BY <1>1, HeadTailProperties
<1>3. /\ Append(heard[s], Head(wire[s])) \in Seq(Field)
      /\ Len(Append(heard[s], Head(wire[s]))) = Len(heard[s]) + 1
      /\ \A i \in 1..Len(heard[s]) :
            Append(heard[s], Head(wire[s]))[i] = heard[s][i]
      /\ Append(heard[s], Head(wire[s]))[Len(heard[s]) + 1] = Head(wire[s])
  BY <1>1, <1>2, AppendProperties
<1>4. /\ heard'[s] = Append(heard[s], Head(wire[s])) /\ wire'[s] = Tail(wire[s])
      /\ \A r \in Side : r # s => heard'[r] = heard[r] /\ wire'[r] = wire[r]
  BY DEF SeqInv
<1>5. Len(heard[s]) \in Nat /\ Len(wire[s]) \in Nat \ {0}
  BY <1>1, LenProperties, EmptySeq
<1>6. SeqInv'
  BY <1>1, <1>2, <1>3 DEF SeqInv
<1> QED BY <1>2, <1>3, <1>4, <1>5, <1>6

LEMMA ReadKeepsKinds ==
    ASSUME IInv, config' = config, NEW s \in Side, wire[s] # << >>,
           heard' = [heard EXCEPT ![s] = Append(@, Head(wire[s]))],
           wire' = [wire EXCEPT ![s] = Tail(@)],
           step' \in [Side -> 0..9], \A r \in Side : step'[r] >= step[r]
    PROVE  /\ SeqInv' /\ KindInv'
           /\ \A r \in Side : Len(heard'[r]) + Len(wire'[r]) = Len(heard[r]) + Len(wire[r])
<1>1. TypeOK /\ SeqInv /\ KindInv
  BY DEF IInv
<1>2. /\ SeqInv'
      /\ \A r \in Side : r # s => heard'[r] = heard[r] /\ wire'[r] = wire[r]
      /\ Len(heard'[s]) = Len(heard[s]) + 1 /\ Len(wire'[s]) = Len(wire[s]) - 1
      /\ Len(heard[s]) \in Nat /\ Len(wire[s]) \in Nat \ {0}
      /\ \A i \in 1..Len(heard[s]) : heard'[s][i] = heard[s][i]
      /\ heard'[s][Len(heard[s]) + 1] = wire[s][1]
      /\ \A i \in 1..(Len(wire[s]) - 1) : wire'[s][i] = wire[s][i + 1]
  BY <1>1, ReadMoves
<1>3. \A r \in Side : \A k \in 1..4 : k <= Len(heard[r]) => heard'[r][k] = heard[r][k]
  BY <1>2
<1>4. \A k \in 1..4 : Kind(k) \subseteq Kind(k)'
  BY <1>3, KindsGrow
<1>5. KindInv'
  <2> SUFFICES ASSUME NEW r \in Side, NEW k \in 1..4
               PROVE  /\ k <= Len(heard'[r]) => heard'[r][k] \in Kind(k)'
                      /\ (Len(heard'[r]) < k /\ k <= Len(heard'[r]) + Len(wire'[r]))
                            => wire'[r][k - Len(heard'[r])] \in Kind(k)'
    BY DEF KindInv
  <2>1. /\ k <= Len(heard[r]) => heard[r][k] \in Kind(k)'
        /\ (Len(heard[r]) < k /\ k <= Len(heard[r]) + Len(wire[r]))
              => wire[r][k - Len(heard[r])] \in Kind(k)'
    BY <1>1, <1>4 DEF KindInv
  <2>2. CASE r # s
    BY <1>2, <2>1, <2>2
  <2>3. CASE r = s
    <3> DEFINE a == Len(heard[s])  b == Len(wire[s])
    <3>1. a \in Nat /\ b \in Nat /\ b > 0 /\ k \in 1..4
      BY <1>2
    <3>2. ASSUME k <= a + 1 PROVE heard'[s][k] \in Kind(k)'
      <4>1. CASE k <= a
        <5>1. heard'[s][k] = heard[s][k]
          BY <1>3, <4>1
        <5> QED BY <2>1, <2>3, <4>1, <5>1
      <4>2. CASE ~(k <= a)
        <5>1. k = a + 1 /\ a < k /\ k <= a + b /\ k - a = 1
          <6>1. k <= a + 1
            BY <3>2
          <6> HIDE DEF a, b
          <6> QED BY <3>1, <4>2, <6>1
        <5>2. heard'[s][k] = wire[s][k - a]
          BY <1>2, <5>1
        <5> QED BY <2>1, <2>3, <5>1, <5>2
      <4> QED BY <4>1, <4>2
    <3>3. ASSUME a + 1 < k, k <= (a + 1) + (b - 1)
          PROVE  wire'[s][k - (a + 1)] \in Kind(k)'
      <4>1. a < k /\ k <= a + b /\ k - (a + 1) \in 1..(b - 1) /\ (k - (a + 1)) + 1 = k - a
        <5>1. a + 1 < k /\ k <= (a + 1) + (b - 1)
          BY <3>3
        <5> HIDE DEF a, b
        <5> QED BY <3>1, <5>1
      <4>2. wire'[s][k - (a + 1)] = wire[s][k - a]
        BY <1>2, <4>1
      <4> QED BY <2>1, <2>3, <4>1, <4>2
    <3> QED BY <1>2, <2>3, <3>2, <3>3
  <2> QED BY <2>2, <2>3
<1>6. ASSUME NEW r \in Side
      PROVE  Len(heard'[r]) + Len(wire'[r]) = Len(heard[r]) + Len(wire[r])
  <2>1. CASE r # s
    BY <1>2, <2>1
  <2>2. CASE r = s
    <3> DEFINE a == Len(heard[s])  b == Len(wire[s])
    <3>1. /\ Len(heard'[s]) = a + 1 /\ Len(wire'[s]) = b - 1 /\ a \in Nat /\ b \in Nat
      BY <1>2
    <3>2. a + 1 + (b - 1) = a + b
      <4> HIDE DEF a, b
      <4> QED BY <3>1
    <3> QED BY <2>2, <3>1, <3>2
  <2> QED BY <2>1, <2>2
<1> QED BY <1>2, <1>5, <1>6

(* The checks that follow a field are about what the reader has read so far *)
(* and the field itself, and stay true.                                     *)
LEMMA ReadIsChecked ==
    ASSUME IInv, NEW s \in Side, NEW n \in 1..4, Len(heard[s]) = n - 1,
           config' = config, Len(heard'[s]) = n,
           \A i \in 1..4 : i <= n - 1 => heard'[s][i] = heard[s][i],
           ReceivedBy(s, step[s]) = n - 1
    PROVE  /\ n = 4 => HelloAccepted(s, heard[s]) /\ HelloAccepted(s, heard[s])'
           /\ (n = 3 /\ ChecksPass(s, heard'[s])) => HelloAccepted(s, heard[s])'
           /\ (n = 4 /\ ChecksPass(s, heard'[s])) => TagAccepted(s, heard[s])'
<1>1. ASSUME n = 4
      PROVE  /\ HelloAccepted(s, heard[s]) /\ HelloAccepted(s, heard[s])'
             /\ ChecksPass(s, heard'[s]) => TagAccepted(s, heard[s])'
  <2>1. heard'[s][1] = heard[s][1] /\ heard'[s][2] = heard[s][2] /\ heard'[s][3] = heard[s][3]
    BY <1>1
  <2>2. HelloAccepted(s, heard[s])
    BY <1>1 DEF IInv, CheckedInv
  <2>3. HelloAccepted(s, heard[s])'
    BY <1>1, <2>1, <2>2 DEF HelloAccepted, TranscriptBuilds
  <2>4. Transcript(s)' = Transcript(s)
    BY <2>1 DEF Transcript
  <2>5. FinishedTag(s, Peer(s))' = FinishedTag(s, Peer(s))
    BY <2>4 DEF FinishedTag
  <2> QED BY <1>1, <2>2, <2>3, <2>5 DEF ChecksPass, TagAccepted
<1>2. ASSUME n = 3, ChecksPass(s, heard'[s]) PROVE HelloAccepted(s, heard[s])'
  BY <1>2 DEF ChecksPass, HelloAccepted, TranscriptBuilds
<1> QED BY <1>1, <1>2

(* A side reads a field and checks what it has read.                        *)
LEMMA ReceiveKeeps ==
    ASSUME IInv, NEW s \in Side, NEW n \in 1..4, ReceiveField(s, n)
    PROVE  IInv'
<1>1. /\ status[s] = "running" /\ AtReceive(s, n) /\ wire[s] # << >>
      /\ UNCHANGED <<config, channel, framing, disturbances>>
      /\ heard' = [heard EXCEPT ![s] = Append(@, Head(wire[s]))]
      /\ wire' = [wire EXCEPT ![s] = Tail(@)]
      /\ \/ step' = step /\ status' = [status EXCEPT ![s] = "failed"]
         \/ /\ step' = [step EXCEPT ![s] = @ + 1] /\ status' = status
            /\ ChecksPass(s, heard'[s])
  BY DEF ReceiveField, Take, Fail
<1>2. /\ TypeOK /\ SeqInv /\ KindInv /\ CountInv /\ CheckedInv
      /\ step \in [Side -> 0..9]
      /\ status \in [Side -> {"running", "done", "failed"}]
  BY DEF IInv, TypeOK
<1>3. /\ step[s] \in 1..8
      /\ ReceivedBy(s, step[s]) = n - 1 /\ ReceivedBy(s, step[s] + 1) = n
      /\ SentBy(s, step[s] + 1) = SentBy(s, step[s])
  BY <1>1, ReceiveCounts
<1>4. /\ step' \in [Side -> 0..9] /\ status' \in [Side -> {"running", "done", "failed"}]
      /\ \A r \in Side : step'[r] >= step[r]
      /\ \A r \in Side : r # s => step'[r] = step[r] /\ status'[r] = status[r]
  <2>1. CASE step' = step /\ status' = [status EXCEPT ![s] = "failed"]
    BY <1>2, <2>1
  <2>2. CASE step' = [step EXCEPT ![s] = @ + 1] /\ status' = status
    BY <1>2, <1>3, <2>2
  <2> QED BY <1>1, <2>1, <2>2
<1>5. /\ SeqInv' /\ KindInv'
      /\ \A r \in Side : Len(heard'[r]) + Len(wire'[r]) = Len(heard[r]) + Len(wire[r])
  BY <1>1, <1>4, ReadKeepsKinds
<1>6. /\ \A r \in Side : r # s => heard'[r] = heard[r]
      /\ Len(heard'[s]) = Len(heard[s]) + 1
      /\ \A i \in 1..Len(heard[s]) : heard'[s][i] = heard[s][i]
  BY <1>1, <1>2, ReadMoves
<1>7. Len(heard[s]) = n - 1 /\ Len(heard'[s]) = n
  <2>1. Len(heard[s]) = n - 1
    BY <1>1, <1>2, <1>3 DEF CountInv
  <2> QED BY <1>6, <2>1
<1>8. TypeOK'
  <2>1. \A r \in Side : Len(heard'[r]) + Len(wire'[r]) <= 4
    BY <1>2, <1>5, LengthFacts
  <2> QED BY <1>1, <1>2, <1>4, <1>5, <2>1 DEF TypeOK, SeqInv
<1>9. CountInv'
  <2> SUFFICES ASSUME NEW r \in Side
               PROVE  /\ Len(heard'[r]) >= ReceivedBy(r, step'[r])
                      /\ status'[r] # "failed" => Len(heard'[r]) = ReceivedBy(r, step'[r])
                      /\ framing'[Peer(r)] = "kept" =>
                            Len(heard'[Peer(r)]) + Len(wire'[Peer(r)]) >= SentBy(r, step'[r])
    BY DEF CountInv
  <2>1. framing'[Peer(r)] = "kept" =>
           Len(heard'[Peer(r)]) + Len(wire'[Peer(r)]) >= SentBy(r, step[r])
    BY <1>1, <1>2, <1>5, PeerFacts DEF CountInv
  <2>2. CASE r # s
    BY <1>2, <1>4, <1>6, <2>1, <2>2 DEF CountInv
  <2>3. CASE r = s /\ step' = step /\ status' = [status EXCEPT ![s] = "failed"]
    <3>1. status'[r] = "failed" /\ step'[r] = step[r]
      BY <1>2, <2>3
    <3>2. n >= n - 1
      OBVIOUS
    <3> QED BY <1>3, <1>7, <2>1, <2>3, <3>1, <3>2
  <2>4. CASE r = s /\ step' = [step EXCEPT ![s] = @ + 1]
    <3>1. step'[r] = step[s] + 1
      BY <1>2, <2>4
    <3>2. n >= n
      OBVIOUS
    <3> QED BY <1>3, <1>7, <2>1, <2>4, <3>1, <3>2
  <2> QED BY <1>1, <2>2, <2>3, <2>4
<1>10. CheckedInv'
  <2> SUFFICES ASSUME NEW r \in Side
               PROVE  /\ ReceivedBy(r, step'[r]) >= 3 => HelloAccepted(r, heard[r])'
                      /\ ReceivedBy(r, step'[r]) = 4 => TagAccepted(r, heard[r])'
                      /\ Done(r)' => step'[r] = 9 /\ channel'[r] = SessionChannel(r)'
    BY DEF CheckedInv
  <2>1. CASE r # s
    BY <1>1, <1>2, <1>4, <1>6, <2>1, CheckedStays DEF CheckedInv, Done
  <2>2. CASE r = s
    <3>1. ~Done(r)'
      BY <1>1, <1>2, <2>2 DEF Done
    <3>2. \A i \in 1..4 : i <= n - 1 => heard'[s][i] = heard[s][i]
      BY <1>6, <1>7
    <3>3. /\ n = 4 => HelloAccepted(s, heard[s])'
          /\ (n = 3 /\ ChecksPass(s, heard'[s])) => HelloAccepted(s, heard[s])'
          /\ (n = 4 /\ ChecksPass(s, heard'[s])) => TagAccepted(s, heard[s])'
      BY <1>1, <1>3, <1>7, <3>2, ReadIsChecked
    <3>4. CASE step' = step
      <4>1. ReceivedBy(r, step'[r]) = n - 1
        BY <1>3, <2>2, <3>4
      <4>2. (n - 1 >= 3 => n = 4) /\ n - 1 # 4
        OBVIOUS
      <4> QED BY <2>2, <3>1, <3>3, <4>1, <4>2
    <3>5. CASE step' = [step EXCEPT ![s] = @ + 1] /\ ChecksPass(s, heard'[s])
      <4>1. ReceivedBy(r, step'[r]) = n
        BY <1>2, <1>3, <2>2, <3>5
      <4>2. n >= 3 => n = 3 \/ n = 4
        OBVIOUS
      <4> QED BY <2>2, <3>1, <3>3, <3>5, <4>1, <4>2
    <3> QED BY <1>1, <3>4, <3>5
  <2> QED BY <2>1, <2>2
<1> QED BY <1>5, <1>8, <1>9, <1>10 DEF IInv

(* The network changes a field in flight to another of its kind.            *)
LEMMA AlterKeeps ==
    ASSUME IInv, NEW s \in Side, AlterField(s)
    PROVE  IInv'
<1>1. /\ UNCHANGED <<config, status, step, framing, heard, channel>>
      /\ disturbances < MaxDisturbances /\ disturbances' = disturbances + 1
  BY DEF AlterField
<1>2. /\ TypeOK /\ SeqInv /\ KindInv /\ CountInv /\ CheckedInv
      /\ step \in [Side -> 0..9] /\ disturbances \in 0..MaxDisturbances
      /\ wire \in [Side -> Seq(Field)] /\ wire[s] \in Seq(Field)
      /\ \A r \in Side : /\ Len(heard[r]) \in Nat /\ Len(wire[r]) \in Nat
                         /\ Len(heard[r]) + Len(wire[r]) <= 4
  BY LengthFacts DEF IInv, TypeOK, SeqInv
<1>3. PICK i \in 1..Len(wire[s]) : \E v \in Kind(Len(heard[s]) + i) :
                                      wire' = [wire EXCEPT ![s][i] = v]
  BY DEF AlterField, Kind
<1>4. PICK n \in 1..4 : Len(heard[s]) + i = n
  <2> DEFINE a == Len(heard[s])  b == Len(wire[s])
  <2>1. a \in Nat /\ b \in Nat /\ a + b <= 4 /\ i \in 1..b
    BY <1>2
  <2> HIDE DEF a, b
  <2>2. a + i \in 1..4
    BY <2>1
  <2> QED BY <2>2 DEF a, b
<1>5. PICK v \in Kind(n) : wire' = [wire EXCEPT ![s][i] = v]
  BY <1>3, <1>4
<1>6. v \in Field
  BY <1>2, <1>5, KindsAreFields
<1>7. \A k \in 1..4 : Kind(k) \subseteq Kind(k)'
  <2>1. \A r \in Side : step'[r] >= step[r]
    <3>1. step' = step /\ \A r \in Side : step[r] \in 0..9
      BY <1>1, <1>2
    <3> QED BY <3>1
  <2>2. \A r \in Side : \A j \in 1..4 :
            j <= Len(heard[r]) => heard'[r][j] = heard[r][j]
    BY <1>1
  <2> QED BY <1>1, <1>2, <2>1, <2>2, KindsGrow
<1>8. /\ [wire[s] EXCEPT ![i] = v] \in Seq(Field)
      /\ Len([wire[s] EXCEPT ![i] = v]) = Len(wire[s])
      /\ \A j \in 1..Len(wire[s]) :
            [wire[s] EXCEPT ![i] = v][j] = IF j = i THEN v ELSE wire[s][j]
  BY <1>2, <1>6, ExceptSeq
<1>9. /\ wire' \in [Side -> Seq(Field)] /\ wire'[s] = [wire[s] EXCEPT ![i] = v]
      /\ \A r \in Side : r # s => wire'[r] = wire[r]
  BY <1>2, <1>5, <1>8
<1>10. \A r \in Side : Len(wire'[r]) = Len(wire[r]) /\ heard'[r] = heard[r]
  BY <1>1, <1>8, <1>9
<1>11. SeqInv'
  BY <1>1, <1>2, <1>9 DEF SeqInv
<1>12. KindInv'
  <2> SUFFICES ASSUME NEW r \in Side, NEW k \in 1..4
               PROVE  /\ k <= Len(heard[r]) => heard[r][k] \in Kind(k)'
                      /\ (Len(heard[r]) < k /\ k <= Len(heard[r]) + Len(wire[r]))
                            => wire'[r][k - Len(heard[r])] \in Kind(k)'
    BY <1>10 DEF KindInv
  <2>1. /\ k <= Len(heard[r]) => heard[r][k] \in Kind(k)'
        /\ (Len(heard[r]) < k /\ k <= Len(heard[r]) + Len(wire[r]))
              => wire[r][k - Len(heard[r])] \in Kind(k)'
    BY <1>2, <1>7 DEF KindInv
  <2>2. CASE r # s
    BY <1>9, <2>1, <2>2
  <2>3. ASSUME r = s, Len(heard[r]) < k, k <= Len(heard[r]) + Len(wire[r])
        PROVE  wire'[r][k - Len(heard[r])] \in Kind(k)'
    <3> DEFINE a == Len(heard[s])  b == Len(wire[s])
    <3>1. /\ a \in Nat /\ b \in Nat /\ a < k /\ k <= a + b /\ k \in 1..4
          /\ i \in 1..b /\ a + i = n /\ n \in 1..4
      BY <1>2, <1>4, <2>3
    <3>2. k - a \in 1..b /\ (k - a = i => k = n)
      <4> HIDE DEF a, b
      <4> QED BY <3>1
    <3>3. CASE k - a = i
      <4>1. wire'[s][k - a] = v
        BY <1>8, <1>9, <3>2, <3>3
      <4>2. v \in Kind(n)'
        BY <1>5, <1>7
      <4> QED BY <2>3, <3>2, <3>3, <4>1, <4>2
    <3>4. CASE k - a # i
      <4>1. wire'[s][k - a] = wire[s][k - a]
        BY <1>8, <1>9, <3>2, <3>4
      <4> QED BY <2>1, <2>3, <4>1
    <3> QED BY <3>3, <3>4
  <2> QED BY <2>1, <2>2, <2>3
<1>13. TypeOK'
  <2>1. disturbances' \in 0..MaxDisturbances
    BY <1>1, <1>2, DisturbancesAssumption
  <2> QED BY <1>1, <1>2, <1>9, <1>10, <2>1 DEF TypeOK
<1>14. CountInv'
  BY <1>1, <1>2, <1>10, PeerFacts DEF CountInv
<1>15. CheckedInv'
  BY <1>1, <1>2, CheckedStays DEF CheckedInv, Done
<1> QED BY <1>11, <1>12, <1>13, <1>14, <1>15 DEF IInv

(* A side takes some bytes behind an altered length for its next field.      *)
LEMMA TakeKeeps ==
    ASSUME IInv, NEW s \in Side, NEW n \in 1..4, NEW v \in Kind(n),
           status[s] = "running", AtReceive(s, n), wire[s] = << >>, framing[s] # "kept",
           Take(s, v), UNCHANGED <<wire, disturbances>>,
           framing' \in [Side -> {"kept", "lost", "drained"}], framing'[s] # "kept",
           \A r \in Side : r # s => framing'[r] = framing[r]
    PROVE  IInv'
<1>1. /\ UNCHANGED <<config, channel>>
      /\ heard' = [heard EXCEPT ![s] = Append(@, v)]
      /\ \/ step' = step /\ status' = [status EXCEPT ![s] = "failed"]
         \/ /\ step' = [step EXCEPT ![s] = @ + 1] /\ status' = status
            /\ ChecksPass(s, heard'[s])
  BY DEF Take, Fail
<1>2. /\ TypeOK /\ SeqInv /\ KindInv /\ CountInv /\ CheckedInv
      /\ step \in [Side -> 0..9]
      /\ status \in [Side -> {"running", "done", "failed"}]
  BY DEF IInv, TypeOK
<1>3. /\ step[s] \in 1..8
      /\ ReceivedBy(s, step[s]) = n - 1 /\ ReceivedBy(s, step[s] + 1) = n
      /\ SentBy(s, step[s] + 1) = SentBy(s, step[s])
  BY ReceiveCounts
<1>4. /\ step' \in [Side -> 0..9] /\ status' \in [Side -> {"running", "done", "failed"}]
      /\ \A r \in Side : step'[r] >= step[r]
      /\ \A r \in Side : r # s => step'[r] = step[r] /\ status'[r] = status[r]
  <2>1. CASE step' = step /\ status' = [status EXCEPT ![s] = "failed"]
    BY <1>2, <2>1
  <2>2. CASE step' = [step EXCEPT ![s] = @ + 1] /\ status' = status
    BY <1>2, <1>3, <2>2
  <2> QED BY <1>1, <2>1, <2>2
<1>5. Len(heard[s]) = n - 1
  BY <1>2, <1>3 DEF CountInv
<1>6. /\ v \in Field /\ heard[s] \in Seq(Field) /\ heard \in [Side -> Seq(Field)]
      /\ Len(wire[s]) = 0
  BY <1>2, KindsAreFields DEF SeqInv
<1>7. /\ heard' \in [Side -> Seq(Field)] /\ Len(heard'[s]) = n
      /\ \A i \in 1..4 : i <= n - 1 => heard'[s][i] = heard[s][i]
      /\ heard'[s][n] = v
      /\ \A r \in Side : r # s => heard'[r] = heard[r]
  <2>1. /\ Append(heard[s], v) \in Seq(Field) /\ Len(Append(heard[s], v)) = Len(heard[s]) + 1
        /\ \A i \in 1..Len(heard[s]) : Append(heard[s], v)[i] = heard[s][i]
        /\ Append(heard[s], v)[Len(heard[s]) + 1] = v
    BY <1>6, AppendProperties
  <2>2. heard'[s] = Append(heard[s], v) /\ \A r \in Side : r # s => heard'[r] = heard[r]
    BY <1>1, <1>6
  <2>3. (n - 1) + 1 = n /\ \A i \in 1..4 : i <= n - 1 => i \in 1..(n - 1)
    OBVIOUS
  <2>4. heard' \in [Side -> Seq(Field)]
    BY <1>1, <1>6, <2>1
  <2> QED BY <1>5, <2>1, <2>2, <2>3, <2>4
<1>8. \A k \in 1..4 : Kind(k) \subseteq Kind(k)'
  <2>1. \A r \in Side : \A k \in 1..4 : k <= Len(heard[r]) => heard'[r][k] = heard[r][k]
    BY <1>5, <1>7
  <2> QED BY <1>1, <1>4, <2>1, KindsGrow
<1>9. KindInv'
  <2> SUFFICES ASSUME NEW r \in Side, NEW k \in 1..4
               PROVE  /\ k <= Len(heard'[r]) => heard'[r][k] \in Kind(k)'
                      /\ (Len(heard'[r]) < k /\ k <= Len(heard'[r]) + Len(wire[r]))
                            => wire[r][k - Len(heard'[r])] \in Kind(k)'
    BY DEF KindInv
  <2>1. /\ k <= Len(heard[r]) => heard[r][k] \in Kind(k)'
        /\ (Len(heard[r]) < k /\ k <= Len(heard[r]) + Len(wire[r]))
              => wire[r][k - Len(heard[r])] \in Kind(k)'
    BY <1>2, <1>8 DEF KindInv
  <2>2. CASE r # s
    BY <1>7, <2>1, <2>2
  <2>3. CASE r = s
    <3>1. ~(Len(heard'[r]) < k /\ k <= Len(heard'[r]) + Len(wire[r]))
      BY <1>6, <1>7, <2>3
    <3>2. ASSUME k <= n PROVE heard'[s][k] \in Kind(k)'
      <4>1. k = n \/ k <= n - 1
        BY <3>2
      <4>2. k <= n - 1 => heard'[s][k] = heard[s][k] /\ k <= Len(heard[s])
        BY <1>5, <1>7
      <4> QED BY <1>7, <1>8, <2>1, <2>3, <4>1, <4>2
    <3> QED BY <1>7, <2>3, <3>1, <3>2
  <2> QED BY <2>2, <2>3
<1>10. TypeOK' /\ SeqInv'
  <2>1. ASSUME NEW r \in Side PROVE Len(heard'[r]) + Len(wire'[r]) <= 4
    <3>1. CASE r = s
      BY <1>6, <1>7, <3>1
    <3>2. CASE r # s
      BY <1>2, <1>7, <3>2, LengthFacts
    <3> QED BY <3>1, <3>2
  <2> QED BY <1>1, <1>2, <1>4, <1>7, <2>1 DEF TypeOK, SeqInv
<1>11. CountInv'
  <2> SUFFICES ASSUME NEW r \in Side
               PROVE  /\ Len(heard'[r]) >= ReceivedBy(r, step'[r])
                      /\ status'[r] # "failed" => Len(heard'[r]) = ReceivedBy(r, step'[r])
                      /\ framing'[Peer(r)] = "kept" =>
                            Len(heard'[Peer(r)]) + Len(wire'[Peer(r)]) >= SentBy(r, step'[r])
    BY DEF CountInv
  <2>1. framing'[Peer(r)] = "kept" =>
           Len(heard'[Peer(r)]) + Len(wire'[Peer(r)]) >= SentBy(r, step[r])
    BY <1>1, <1>2, <1>7, PeerFacts DEF CountInv
  <2>2. CASE r # s
    BY <1>2, <1>4, <1>7, <2>1, <2>2 DEF CountInv
  <2>3. CASE r = s /\ step' = step /\ status' = [status EXCEPT ![s] = "failed"]
    <3>1. status'[r] = "failed" /\ step'[r] = step[r]
      BY <1>2, <2>3
    <3>2. n >= n - 1
      OBVIOUS
    <3> QED BY <1>3, <1>7, <2>1, <2>3, <3>1, <3>2
  <2>4. CASE r = s /\ step' = [step EXCEPT ![s] = @ + 1]
    <3>1. step'[r] = step[s] + 1
      BY <1>2, <2>4
    <3>2. n >= n
      OBVIOUS
    <3> QED BY <1>3, <1>7, <2>1, <2>4, <3>1, <3>2
  <2> QED BY <1>1, <2>2, <2>3, <2>4
<1>12. CheckedInv'
  <2> SUFFICES ASSUME NEW r \in Side
               PROVE  /\ ReceivedBy(r, step'[r]) >= 3 => HelloAccepted(r, heard[r])'
                      /\ ReceivedBy(r, step'[r]) = 4 => TagAccepted(r, heard[r])'
                      /\ Done(r)' => step'[r] = 9 /\ channel'[r] = SessionChannel(r)'
    BY DEF CheckedInv
  <2>1. CASE r # s
    BY <1>1, <1>2, <1>4, <1>7, <2>1, CheckedStays DEF CheckedInv, Done
  <2>2. CASE r = s
    <3>1. ~Done(r)'
      BY <1>1, <1>2, <2>2 DEF Done
    <3>3. /\ n = 4 => HelloAccepted(s, heard[s])'
          /\ (n = 3 /\ ChecksPass(s, heard'[s])) => HelloAccepted(s, heard[s])'
          /\ (n = 4 /\ ChecksPass(s, heard'[s])) => TagAccepted(s, heard[s])'
      BY <1>1, <1>3, <1>5, <1>7, ReadIsChecked
    <3>4. CASE step' = step
      <4>1. ReceivedBy(r, step'[r]) = n - 1
        BY <1>3, <2>2, <3>4
      <4>2. (n - 1 >= 3 => n = 4) /\ n - 1 # 4
        OBVIOUS
      <4> QED BY <2>2, <3>1, <3>3, <4>1, <4>2
    <3>5. CASE step' = [step EXCEPT ![s] = @ + 1] /\ ChecksPass(s, heard'[s])
      <4>1. ReceivedBy(r, step'[r]) = n
        BY <1>2, <1>3, <2>2, <3>5
      <4>2. n >= 3 => n = 3 \/ n = 4
        OBVIOUS
      <4> QED BY <2>2, <3>1, <3>3, <3>5, <4>1, <4>2
    <3> QED BY <1>1, <3>4, <3>5
  <2> QED BY <2>1, <2>2
<1> QED BY <1>9, <1>10, <1>11, <1>12 DEF IInv

(* The network alters a length: nothing in flight is told apart any more.    *)
LEMMA LengthKeeps ==
    ASSUME IInv, NEW s \in Side, AlterLength(s)
    PROVE  IInv'
<1>1. /\ UNCHANGED <<config, status, step, heard, channel>>
      /\ disturbances < MaxDisturbances /\ disturbances' = disturbances + 1
      /\ framing' = [framing EXCEPT ![s] = "lost"]
  BY DEF AlterLength
<1>2. /\ TypeOK /\ SeqInv /\ KindInv /\ CountInv /\ CheckedInv
      /\ step \in [Side -> 0..9] /\ disturbances \in 0..MaxDisturbances
      /\ framing \in [Side -> {"kept", "lost", "drained"}]
      /\ wire \in [Side -> Seq(Field)] /\ wire[s] \in Seq(Field)
      /\ \A r \in Side : /\ Len(heard[r]) \in Nat /\ Len(wire[r]) \in Nat
                         /\ Len(heard[r]) + Len(wire[r]) <= 4
  BY LengthFacts DEF IInv, TypeOK, SeqInv
<1>3. /\ wire' \in [Side -> Seq(Field)] /\ wire'[s] = << >>
      /\ \A r \in Side : r # s => wire'[r] = wire[r]
  BY <1>2 DEF AlterLength
<1>4. Len(wire'[s]) = 0
  BY <1>3
<1>5. \A k \in 1..4 : Kind(k) \subseteq Kind(k)'
  <2>1. \A r \in Side : step'[r] >= step[r]
    <3>1. step' = step /\ \A r \in Side : step[r] \in 0..9
      BY <1>1, <1>2
    <3> QED BY <3>1
  <2>2. \A r \in Side : \A j \in 1..4 :
            j <= Len(heard[r]) => heard'[r][j] = heard[r][j]
    BY <1>1
  <2> QED BY <1>1, <1>2, <2>1, <2>2, KindsGrow
<1>6. KindInv'
  <2> SUFFICES ASSUME NEW r \in Side, NEW k \in 1..4
               PROVE  /\ k <= Len(heard[r]) => heard[r][k] \in Kind(k)'
                      /\ (Len(heard[r]) < k /\ k <= Len(heard[r]) + Len(wire'[r]))
                            => wire'[r][k - Len(heard[r])] \in Kind(k)'
    BY <1>1 DEF KindInv
  <2>1. /\ k <= Len(heard[r]) => heard[r][k] \in Kind(k)'
        /\ (Len(heard[r]) < k /\ k <= Len(heard[r]) + Len(wire[r]))
              => wire[r][k - Len(heard[r])] \in Kind(k)'
    BY <1>2, <1>5 DEF KindInv
  <2>2. CASE r # s
    BY <1>3, <2>1, <2>2
  <2>3. CASE r = s
    <3> DEFINE a == Len(heard[r])  c == Len(wire'[r])
    <3>1. a \in Nat /\ c = 0
      BY <1>2, <1>4, <2>3
    <3>2. ~(a < k /\ k <= a + c)
      <4> HIDE DEF a, c
      <4> QED BY <3>1
    <3> QED BY <2>1, <3>2
  <2> QED BY <2>1, <2>2, <2>3
<1>7. TypeOK' /\ SeqInv'
  <2>1. ASSUME NEW r \in Side PROVE Len(heard[r]) + Len(wire'[r]) <= 4
    <3>1. CASE r = s
      <4> DEFINE a == Len(heard[r])  b == Len(wire[r])  c == Len(wire'[r])
      <4>1. a \in Nat /\ b \in Nat /\ a + b <= 4 /\ c = 0
        BY <1>2, <1>4, <3>1
      <4>2. a + c <= 4
        <5> HIDE DEF a, b, c
        <5> QED BY <4>1
      <4> QED BY <4>2
    <3>2. CASE r # s
      BY <1>2, <1>3, <3>2
    <3> QED BY <3>1, <3>2
  <2>2. disturbances' \in 0..MaxDisturbances
    BY <1>1, <1>2, DisturbancesAssumption
  <2> QED BY <1>1, <1>2, <1>3, <2>1, <2>2 DEF TypeOK, SeqInv
<1>8. CountInv'
  <2>1. \A r \in Side : framing'[r] = "kept" => r # s /\ framing[r] = "kept"
    BY <1>1, <1>2
  <2> QED BY <1>1, <1>2, <1>3, <2>1, PeerFacts DEF CountInv
<1>9. CheckedInv'
  BY <1>1, <1>2, CheckedStays DEF CheckedInv, Done
<1> QED BY <1>6, <1>7, <1>8, <1>9 DEF IInv

(* Starting, ending with a channel or an error, and doing nothing.          *)
LEMMA OthersKeep ==
    ASSUME IInv, NEW s \in Side,
           \/ Start(s) \/ DeriveSessionKeys(s) \/ ConnectionError(s) \/ GiveUp(s)
    PROVE  IInv'
<1>1. /\ TypeOK /\ CheckedInv
      /\ step \in [Side -> 0..9] /\ status \in [Side -> {"running", "done", "failed"}]
      /\ framing \in [Side -> {"kept", "lost", "drained"}]
      /\ DOMAIN channel = Side /\ disturbances \in 0..MaxDisturbances
      /\ \A r \in Side : Done(r) => step[r] = 9 /\ channel[r] = SessionChannel(r)
  BY DEF IInv, TypeOK, CheckedInv
<1>2. ASSUME Fail(s), UNCHANGED <<wire, framing, heard>>, disturbances' \in 0..MaxDisturbances
      PROVE  IInv'
  <2>2. /\ UNCHANGED <<config, wire, framing, heard, step, channel>>
        /\ status' = [status EXCEPT ![s] = "failed"]
    BY <1>2 DEF Fail
  <2>1. \A r \in Side : /\ status[r] = "failed" => status'[r] = "failed"
                        /\ status'[r] = "done" => Done(r)
    BY <1>1, <2>2 DEF Done
  <2> QED BY <1>1, <1>2, <2>1, <2>2, QuietKeeps
<1>3. CASE Start(s)
  <2>1. CASE ArgumentsValid(s)
    <3>1. /\ UNCHANGED <<config, wire, framing, heard, status, channel, disturbances>>
          /\ step[s] = 0 /\ step' = [step EXCEPT ![s] = 1]
      BY <1>3, <2>1 DEF Start
    <3>2. status[s] = "running"
      BY <1>3 DEF Start
    <3>3. \A r \in Side : /\ step'[r] = step[r] \/ (step[r] = 0 /\ step'[r] = 1)
                          /\ Done(r) => step'[r] = step[r]
      BY <1>1, <3>1, <3>2 DEF Done
    <3>4. step' \in [Side -> 0..9]
      BY <1>1, <3>1
    <3> QED BY <1>1, <3>1, <3>3, <3>4, QuietKeeps DEF Done
  <2>2. CASE ~ArgumentsValid(s)
    <3>1. Fail(s) /\ UNCHANGED <<wire, framing, heard>> /\ disturbances' \in 0..MaxDisturbances
      BY <1>1, <1>3, <2>2 DEF Start
    <3> QED BY <1>2, <3>1
  <2> QED BY <2>1, <2>2
<1>4. CASE DeriveSessionKeys(s)
  <2>1. CASE SharedSecret(s) = AllZero
    <3>1. Fail(s) /\ UNCHANGED <<wire, framing, heard>> /\ disturbances' \in 0..MaxDisturbances
      BY <1>1, <1>4, <2>1 DEF DeriveSessionKeys
    <3> QED BY <1>2, <3>1
  <2>2. CASE SharedSecret(s) # AllZero
    <3>1. /\ UNCHANGED <<config, wire, framing, heard, step, disturbances>> /\ step[s] = 9
          /\ status[s] = "running"
          /\ channel' = [channel EXCEPT ![s] = SessionChannel(s)]
          /\ status' = [status EXCEPT ![s] = "done"]
      BY <1>4, <2>2 DEF DeriveSessionKeys
    <3>2. \A r \in Side : /\ status[r] = "failed" => status'[r] = "failed"
                          /\ status'[r] = "done" => step[r] = 9 /\ channel'[r] = SessionChannel(r)
      BY <1>1, <3>1 DEF Done
    <3>3. status' \in [Side -> {"running", "done", "failed"}] /\ DOMAIN channel' = Side
      BY <1>1, <3>1
    <3> QED BY <1>1, <3>1, <3>2, <3>3, QuietKeeps
  <2> QED BY <2>1, <2>2
<1>5. CASE ConnectionError(s)
  <2>1. Fail(s) /\ UNCHANGED <<wire, framing, heard>> /\ disturbances' \in 0..MaxDisturbances
    BY <1>1, <1>5 DEF ConnectionError
  <2> QED BY <1>2, <2>1
<1>6. CASE GiveUp(s)
  <2>1. /\ Fail(s) /\ UNCHANGED <<wire, framing, heard>>
        /\ disturbances < MaxDisturbances /\ disturbances' = disturbances + 1
    BY <1>6 DEF GiveUp
  <2>2. disturbances' \in 0..MaxDisturbances
    BY <1>1, <2>1, DisturbancesAssumption
  <2> QED BY <1>2, <2>1, <2>2
<1> QED BY <1>3, <1>4, <1>5, <1>6

(* Behind an altered length: an error, some field, or waiting for more.     *)
LEMMA MisreadKeeps ==
    ASSUME IInv, NEW s \in Side, NEW n \in 1..4, Misread(s, n)
    PROVE  IInv'
<1>1. /\ status[s] = "running" /\ AtReceive(s, n) /\ wire[s] = << >>
      /\ framing[s] = "lost" /\ UNCHANGED <<wire, disturbances>>
  BY DEF Misread
<1>2. /\ TypeOK /\ CheckedInv
      /\ step \in [Side -> 0..9] /\ status \in [Side -> {"running", "done", "failed"}]
      /\ framing \in [Side -> {"kept", "lost", "drained"}]
      /\ DOMAIN channel = Side /\ disturbances \in 0..MaxDisturbances
      /\ \A r \in Side : Done(r) => step[r] = 9 /\ channel[r] = SessionChannel(r)
  BY DEF IInv, TypeOK, CheckedInv
<1>3. CASE Fail(s) /\ UNCHANGED <<framing, heard>>
  <2>1. /\ UNCHANGED <<config, step, channel>>
        /\ status' = [status EXCEPT ![s] = "failed"]
    BY <1>3 DEF Fail
  <2>2. \A r \in Side : /\ status[r] = "failed" => status'[r] = "failed"
                        /\ status'[r] = "done" => Done(r)
    BY <1>2, <2>1 DEF Done
  <2> QED BY <1>1, <1>2, <1>3, <2>1, <2>2, QuietKeeps
<1>4. CASE /\ \E v \in FieldValues(Fields[n]) : Take(s, v)
           /\ \E rest \in {"lost", "drained"} : framing' = [framing EXCEPT ![s] = rest]
  <2>1. PICK v \in Kind(n) : Take(s, v)
    BY <1>4 DEF Kind
  <2>2. /\ framing' \in [Side -> {"kept", "lost", "drained"}] /\ framing'[s] # "kept"
        /\ \A r \in Side : r # s => framing'[r] = framing[r]
    BY <1>2, <1>4
  <2>3. framing[s] # "kept"
    BY <1>1
  <2> QED BY <1>1, <2>1, <2>2, <2>3, TakeKeeps
<1>5. CASE /\ framing' = [framing EXCEPT ![s] = "drained"]
           /\ UNCHANGED <<config, status, step, heard, channel>>
  <2>1. /\ framing' \in [Side -> {"kept", "lost", "drained"}]
        /\ \A r \in Side : framing'[r] = "kept" => framing[r] = "kept"
    BY <1>2, <1>5
  <2> QED BY <1>1, <1>2, <1>5, <2>1, QuietKeeps DEF Done
<1> QED BY <1>3, <1>4, <1>5 DEF Misread

LEMMA NextIInv == IInv /\ [Next]_vars => IInv'
<1> SUFFICES ASSUME IInv, [Next]_vars PROVE IInv'
  OBVIOUS
<1>1. CASE UNCHANGED vars
  <2>1. /\ TypeOK /\ CheckedInv /\ UNCHANGED <<config, status, step, wire, framing,
                                              heard, channel, disturbances>>
    BY <1>1 DEF IInv, vars
  <2> QED BY <2>1, QuietKeeps DEF TypeOK, CheckedInv, Done
<1>2. CASE Next
  <2>1. PICK s \in Side : \/ HandshakeStep(s) \/ GiveUp(s)
                          \/ AlterField(s) \/ AlterLength(s) \/ ForeignField(s)
    BY <1>2 DEF Next
  <2>2. ASSUME NEW n \in 1..4, SendField(s, n) \/ ReceiveField(s, n) \/ Misread(s, n)
        PROVE  IInv'
    BY <2>2, SendKeeps, ReceiveKeeps, MisreadKeeps
  <2> QED BY <2>1, <2>2, AlterKeeps, LengthKeeps, ForeignKeeps, OthersKeep DEF HandshakeStep
<1> QED BY <1>1, <1>2

LEMMA IInvAlways == Spec => []IInv
BY InitIInv, NextIInv, PTL DEF Spec

(* Type correctness: in particular no side is ever sent a fifth field.      *)
THEOREM TypesHold == Spec => []TypeOK
BY IInvAlways, PTL DEF IInv

-----------------------------------------------------------------------------
(* Why a side can trust its peer: the tag it accepted carries the peer's    *)
(* label, so it can only be the one its peer computed from its own PSK and  *)
(* transcript, after accepting the side's hello.                            *)
LEMMA AcceptedTag ==
    ASSUME IInv, NEW s \in Side, Done(s)
    PROVE  /\ Len(heard[s]) = 4 /\ HelloAccepted(s, heard[s])
           /\ TagSent(Peer(s)) /\ step[Peer(s)] \in 0..9
           /\ Len(heard[Peer(s)]) >= 3 /\ HelloAccepted(Peer(s), heard[Peer(s)])
           /\ config[s].psk = config[Peer(s)].psk
           /\ Transcript(s) = Transcript(Peer(s))
<1>1. /\ TypeOK /\ SeqInv /\ KindInv /\ CountInv /\ CheckedInv
      /\ Peer(s) \in Side
  BY PeerFacts DEF IInv
<1>2. step[s] = 9 /\ ReceivedBy(s, step[s]) = 4
  BY <1>1 DEF CheckedInv, ReceivedBy
<1>3. Len(heard[s]) = 4 /\ HelloAccepted(s, heard[s]) /\ TagAccepted(s, heard[s])
  <2>1. 4 >= 3
    OBVIOUS
  <2> QED BY <1>1, <1>2, <2>1 DEF CountInv, CheckedInv, Done
<1>4. heard[s][4] = FinishedTag(s, Peer(s)) /\ heard[s][4] \in TagsInUse \cup {GarbledTag}
  <2>1. 4 \in 1..4 /\ 4 <= Len(heard[s])
    BY <1>3
  <2>2. heard[s][4] \in Kind(4)
    BY <1>1, <2>1 DEF KindInv
  <2> QED BY <1>3, <2>2, FieldFacts DEF TagAccepted
<1>5. FinishedTag(s, Peer(s)) # GarbledTag
  <2>1. FinishedTag(s, Peer(s)).label = Peer(s) /\ GarbledTag.label = "garbled"
    BY DEF FinishedTag, GarbledTag
  <2> QED BY <2>1 DEF Peer
<1>6. PICK r \in Side : TagSent(r) /\ FinishedTag(s, Peer(s)) = FinishedTag(r, r)
  BY <1>4, <1>5 DEF TagsInUse
<1>7. /\ FinishedTag(s, Peer(s)).label = Peer(s) /\ FinishedTag(r, r).label = r
      /\ FinishedTag(s, Peer(s)).psk = config[s].psk /\ FinishedTag(r, r).psk = config[r].psk
      /\ FinishedTag(s, Peer(s)).transcript = Transcript(s)
      /\ FinishedTag(r, r).transcript = Transcript(r)
  BY DEF FinishedTag
<1>8. r = Peer(s)
  BY <1>6, <1>7
<1>9. TagSent(Peer(s)) /\ config[s].psk = config[Peer(s)].psk /\ Transcript(s) = Transcript(Peer(s))
  BY <1>6, <1>7, <1>8
<1>10. step[Peer(s)] \in 0..9
  BY <1>1, LengthFacts
<1>11. ReceivedBy(Peer(s), step[Peer(s)]) >= 3
  BY <1>1, <1>9, <1>10, TagSentCounts
<1>12. Len(heard[Peer(s)]) >= 3
  BY <1>1, <1>9, TagSentHeard
<1> QED BY <1>1, <1>3, <1>9, <1>10, <1>11, <1>12 DEF CheckedInv

(* What two equal transcripts say.                                          *)
LEMMA EqualTranscripts ==
    ASSUME NEW s \in Side, Transcript(s) = Transcript(Peer(s))
    PROVE  /\ config[s].version = config[Peer(s)].version
           /\ heard[s][2] = config[Peer(s)].id /\ heard[s][3] = Peer(s)
           /\ heard[Peer(s)][2] = config[s].id /\ heard[Peer(s)][3] = s
<1>1. Peer(s) \in Side /\ Peer(s) # s
  BY PeerFacts
<1>2. \A r \in Side :
        /\ Transcript(r).version = config[r].version
        /\ \A q \in Side :
              /\ Transcript(r).ids[q] = IF q = r THEN config[r].id ELSE heard[r][2]
              /\ Transcript(r).keys[q] = IF q = r THEN r ELSE heard[r][3]
  BY DEF Transcript
<1> QED BY <1>1, <1>2

(* TLC's Authentication for every instance: whatever the network does, a    *)
(* side that returns a channel has the peer it was started for, with the    *)
(* same PSK, version and transcript (socket_handshake.py, handshake.py).    *)
THEOREM AuthenticationHolds == Spec => []Authentication
<1>1. IInv => Authentication
  <2> SUFFICES ASSUME IInv, NEW s \in Side, Done(s)
               PROVE  /\ config[s].psk = config[Peer(s)].psk
                      /\ config[s].version = config[Peer(s)].version
                      /\ config[s].expected = config[Peer(s)].id
                      /\ config[Peer(s)].expected = config[s].id
                      /\ Len(heard[Peer(s)]) >= 3 /\ Transcript(Peer(s)) = Transcript(s)
    BY DEF Authentication
  <2> QED BY AcceptedTag, EqualTranscripts DEF HelloAccepted
<1> QED BY <1>1, IInvAlways, PTL

(* When the client returns a channel, the server has verified its tag       *)
(* (server_handshake, lines 217-232), at every instance.                    *)
THEOREM ServerIsFirst == Spec => []ServerVerifiedFirst
<1>1. IInv => ServerVerifiedFirst
  <2> SUFFICES ASSUME IInv, Done("client")
               PROVE  step["server"] = 9 /\ Len(heard["server"]) = 4
    BY DEF ServerVerifiedFirst
  <2>1. "client" \in Side /\ "server" \in Side /\ Peer("client") = "server"
    BY DEF Side, Peer
  <2>2. TagSent("server") /\ step["server"] \in 0..9
    BY <2>1, AcceptedTag
  <2>3. step["server"] = 9 /\ ReceivedBy("server", step["server"]) = 4
    BY <2>1, <2>2, TagSentCounts DEF ReceivedBy
  <2>4. /\ Len(heard["server"]) >= 4 /\ Len(heard["server"]) \in Nat
        /\ Len(wire["server"]) \in Nat /\ Len(heard["server"]) + Len(wire["server"]) <= 4
    BY <2>1, <2>3, LengthFacts DEF IInv, CountInv
  <2> DEFINE a == Len(heard["server"])  b == Len(wire["server"])
  <2>5. a = 4
    <3>1. a >= 4 /\ a \in Nat /\ b \in Nat /\ a + b <= 4
      BY <2>4
    <3> HIDE DEF a, b
    <3> QED BY <3>1
  <2> QED BY <2>3, <2>5
<1> QED BY <1>1, IInvAlways, PTL

(* Two sides that both return hold mirror images of one session             *)
(* (derive_session_keys), at every instance: what Channel starts from.      *)
THEOREM ChannelsAlwaysMatch == Spec => []ChannelsMatch
<1>1. IInv => ChannelsMatch
  <2> SUFFICES ASSUME IInv, \A s \in Side : Done(s) PROVE ChannelsMatch
    BY DEF ChannelsMatch
  <2>1. /\ "client" \in Side /\ "server" \in Side
        /\ Peer("client") = "server" /\ Peer("server") = "client"
    BY DEF Side, Peer
  <2>2. /\ config["client"].psk = config["server"].psk
        /\ Transcript("client") = Transcript("server")
        /\ config["client"].expected = heard["client"][2]
        /\ config["server"].expected = heard["server"][2]
    BY <2>1, AcceptedTag DEF HelloAccepted
  <2>3. /\ heard["client"][3] = "server" /\ heard["server"][3] = "client"
        /\ heard["client"][2] = config["server"].id /\ heard["server"][2] = config["client"].id
    BY <2>1, <2>2, EqualTranscripts
  <2>4. SharedSecret("client") = SharedSecret("server")
    BY <2>3 DEF SharedSecret
  <2>5. \A part \in {"client_to_server_key", "server_to_client_key",
                      "client_nonce_base", "server_nonce_base"} :
            SessionPart("client", part) = SessionPart("server", part)
    BY <2>2, <2>4 DEF SessionPart
  <2>6. SessionPart("client", "client_to_server_key") # SessionPart("server", "server_to_client_key")
    <3>1. /\ SessionPart("client", "client_to_server_key").part = "client_to_server_key"
          /\ SessionPart("server", "server_to_client_key").part = "server_to_client_key"
      BY DEF SessionPart
    <3> QED BY <3>1
  <2>7. channel["client"] = SessionChannel("client") /\ channel["server"] = SessionChannel("server")
    BY <2>1 DEF IInv, CheckedInv
  <2> DEFINE c == channel["client"]  d == channel["server"]
  <2>8. /\ c.send_key = SessionPart("client", "client_to_server_key")
        /\ c.receive_key = SessionPart("client", "server_to_client_key")
        /\ c.send_nonce_base = SessionPart("client", "client_nonce_base")
        /\ c.receive_nonce_base = SessionPart("client", "server_nonce_base")
        /\ c.sender_id = config["client"].id /\ c.expected_peer_id = config["client"].expected
    BY <2>7 DEF SessionChannel, UnswappedChannel
  <2>9. /\ d.send_key = SessionPart("server", "server_to_client_key")
        /\ d.receive_key = SessionPart("server", "client_to_server_key")
        /\ d.send_nonce_base = SessionPart("server", "server_nonce_base")
        /\ d.receive_nonce_base = SessionPart("server", "client_nonce_base")
        /\ d.sender_id = config["server"].id /\ d.expected_peer_id = config["server"].expected
    BY <2>7 DEF SessionChannel
  <2>10. c.send_key = d.receive_key /\ d.send_key = c.receive_key
    BY <2>5, <2>8, <2>9
  <2>11. c.send_nonce_base = d.receive_nonce_base /\ d.send_nonce_base = c.receive_nonce_base
    BY <2>5, <2>8, <2>9
  <2>12. c.send_key # d.send_key
    BY <2>6, <2>8, <2>9
  <2>13. c.expected_peer_id = d.sender_id /\ d.expected_peer_id = c.sender_id
    BY <2>2, <2>3, <2>8, <2>9
  <2> HIDE DEF c, d
  <2>14. /\ c.send_key = d.receive_key /\ d.send_key = c.receive_key
         /\ c.send_nonce_base = d.receive_nonce_base /\ d.send_nonce_base = c.receive_nonce_base
         /\ c.send_key # d.send_key
         /\ c.expected_peer_id = d.sender_id /\ d.expected_peer_id = c.sender_id
    BY <2>10, <2>11, <2>12, <2>13
  <2> QED BY <2>14 DEF ChannelsMatch, c, d
<1> QED BY <1>1, IInvAlways, PTL
=============================================================================
