----------------------------- MODULE ChatProofs -----------------------------
(***************************************************************************)
(* Proofs about Chat, for every set of texts and any number of lines and   *)
(* faults.                                                                 *)
(*                                                                         *)
(* The two loops hand one token to each other: the user whose turn it is   *)
(* has it (pc = "input"), or the message in flight has it.  OneToken says  *)
(* that there is never more than one, which is what makes the three        *)
(* properties inductive: it is why no message is ever unread when a        *)
(* program that was told to quit closes its socket.                        *)
(***************************************************************************)
EXTENDS Chat, SequenceTheorems, TLAPS

Message == [type : {CHAT, CLOSE}, text : Texts \cup {""}]

(* There is at most one token, and there is one while both programs run.   *)
HasTurn(s) == pc[s] = "input"
Flies(s) == wire[s] # << >>
OneToken ==
    \A s \in Side :
        /\ Len(wire[s]) <= 1
        /\ HasTurn(s) => ~HasTurn(Peer(s)) /\ ~Flies(s) /\ ~Flies(Peer(s))
        /\ Flies(s) => ~Flies(Peer(s))
TokenKept ==
    (\A s \in Side : Running(s)) => \E s \in Side : HasTurn(s) \/ Flies(s)

(* What s has typed is what its peer was shown, and the line in flight.    *)
InFlight(s) == Flies(s) /\ Head(wire[s]).type = CHAT
WireInv ==
    \A s \in Side :
        /\ InFlight(s) =>
               /\ Len(typed[Peer(s)]) = Len(printed[s]) + 1
               /\ typed[Peer(s)][Len(printed[s]) + 1] = Head(wire[s]).text
        /\ ~InFlight(s) => Len(typed[Peer(s)]) = Len(printed[s])
        /\ (Flies(s) /\ ~InFlight(s)) => Closed(Peer(s))

(* As long as nothing has gone wrong, a program that has left has told the *)
(* other, which has left too or has the CLOSE before it.                   *)
CleanInv ==
    faults = 0 =>
        /\ ~lost
        /\ \A s \in Side :
               /\ pc[s] # "error"
               /\ pc[s] = "ended" =>
                      /\ ~Flies(s)
                      /\ \/ pc[Peer(s)] = "ended"
                         \/ Flies(Peer(s)) /\ ~InFlight(Peer(s))

IInv == TypeOK /\ OneToken /\ TokenKept /\ WireInv /\ CleanInv
-----------------------------------------------------------------------------
LEMMA PeerFacts ==
    \A s \in Side : /\ Peer(s) \in Side /\ Peer(s) # s /\ Peer(Peer(s)) = s
                    /\ \A r \in Side : r = s \/ r = Peer(s)
BY DEF Side, Peer

(* Taking the only message off a wire leaves it empty.                      *)
LEMMA TakeOnly ==
    ASSUME NEW w \in Seq(Message), Len(w) <= 1, w # << >>
    PROVE  Head(w) \in Message /\ Tail(w) = << >>
<1>1. Len(w) = 1
  <2>1. Len(w) \in Nat \ {0}
    BY EmptySeq
  <2> QED BY <2>1
<1>2. Tail(w) \in Seq(Message) /\ Len(Tail(w)) = 0
  BY <1>1, HeadTailProperties
<1>3. Tail(w) = << >>
  BY <1>2, EmptySeq
<1> QED BY <1>3, HeadTailProperties

(* A message put on an empty wire is the only one there.                    *)
LEMMA PutOnly ==
    ASSUME NEW m \in Message
    PROVE  LET w == Append(<< >>, m) IN
           w \in Seq(Message) /\ Len(w) = 1 /\ w # << >> /\ Head(w) = m
OBVIOUS

LEMMA InitIInv == Init => IInv
<1> SUFFICES ASSUME Init PROVE IInv
  OBVIOUS
<1>1. TypeOK
  <2>1. /\ wire \in [Side -> Seq(Message)]
        /\ typed \in [Side -> Seq(Texts)] /\ printed \in [Side -> Seq(Texts)]
    BY EmptySeq DEF Init
  <2>2. \A s \in Side : Len(typed[s]) <= MaxLines
    BY ChatAssumption DEF Init
  <2>3. pc \in [Side -> {"input", "receive", "ended", "error"}]
    BY DEF Init
  <2>4. lost \in BOOLEAN
    BY DEF Init
  <2>5. faults \in 0..MaxFaults
    BY ChatAssumption DEF Init
  <2> QED BY <2>1, <2>2, <2>3, <2>4, <2>5 DEF TypeOK, Message
<1>2. OneToken /\ TokenKept
  BY DEF Init, OneToken, TokenKept, HasTurn, Flies, Side, Peer
<1>3. WireInv /\ CleanInv
  BY DEF Init, WireInv, CleanInv, InFlight, Flies, Side, Peer
<1> QED BY <1>1, <1>2, <1>3 DEF IInv

(* The user whose turn it is puts m on the empty wire to the peer, and the  *)
(* turn goes with it.                                                       *)
LEMMA PutFacts ==
    ASSUME IInv, NEW s \in Side, pc[s] = "input", NEW m \in Message,
           Put(s, m.type, m.text)
    PROVE  /\ wire' \in [Side -> Seq(Message)]
           /\ wire[s] = << >> /\ wire[Peer(s)] = << >>
           /\ wire'[s] = << >>
           /\ wire'[Peer(s)] # << >> /\ Len(wire'[Peer(s)]) = 1
           /\ Head(wire'[Peer(s)]) = m
           /\ pc[Peer(s)] # "input"
<1> DEFINE p == Peer(s)
<1>1. p \in Side /\ p # s
  BY PeerFacts
<1>2. wire[s] = << >> /\ wire[p] = << >> /\ pc[p] # "input"
  BY DEF IInv, OneToken, HasTurn, Flies
<1>3. wire \in [Side -> Seq(Message)]
  BY DEF IInv, TypeOK, Message
<1>4. m = [type |-> m.type, text |-> m.text]
  BY DEF Message
<1>5. wire' = [wire EXCEPT ![p] = Append(wire[p], m)]
  BY <1>4 DEF Put
<1>6. wire'[p] = Append(<< >>, m) /\ wire'[s] = << >>
  BY <1>1, <1>2, <1>3, <1>5
<1>7. wire' \in [Side -> Seq(Message)]
  BY <1>3, <1>5, <1>2, PutOnly
<1> QED BY <1>2, <1>6, <1>7, PutOnly

LEMMA TypeTextKeeps ==
    ASSUME IInv, NEW s \in Side, NEW text \in Texts, TypeText(s, text)
    PROVE  IInv'
<1> DEFINE p == Peer(s)  m == [type |-> CHAT, text |-> text]
<1>1. p \in Side /\ p # s /\ Peer(p) = s /\ \A r \in Side : r = s \/ r = p
  BY PeerFacts
<1>2. m \in Message /\ m.type = CHAT /\ m.text = text
  BY DEF Message
<1>3. /\ wire' \in [Side -> Seq(Message)]
      /\ wire[s] = << >> /\ wire[p] = << >> /\ wire'[s] = << >>
      /\ wire'[p] # << >> /\ Len(wire'[p]) = 1 /\ Head(wire'[p]) = m
      /\ pc[p] # "input"
  <2>1. pc[s] = "input" /\ Put(s, m.type, m.text)
    BY <1>2 DEF TypeText
  <2> QED BY <1>2, <2>1, PutFacts
<1> HIDE DEF m
<1>4. /\ pc' = [pc EXCEPT ![s] = "receive"]
      /\ typed' = [typed EXCEPT ![s] = Append(@, text)]
      /\ lost' = (lost \/ Closed(p)) /\ UNCHANGED <<printed, faults>>
      /\ pc[s] = "input" /\ Len(typed[s]) < MaxLines
  BY DEF TypeText
<1>5. /\ pc \in [Side -> {"input", "receive", "ended", "error"}]
      /\ lost \in BOOLEAN /\ faults \in 0..MaxFaults
      /\ typed \in [Side -> Seq(Texts)] /\ printed \in [Side -> Seq(Texts)]
      /\ \A r \in Side : Len(typed[r]) <= MaxLines
  BY DEF IInv, TypeOK
<1>6. pc'[s] = "receive" /\ pc'[p] = pc[p]
  BY <1>1, <1>4, <1>5
<1>7. /\ typed' \in [Side -> Seq(Texts)] /\ typed'[p] = typed[p]
      /\ typed'[s] = Append(typed[s], text)
  BY <1>1, <1>4, <1>5
<1>8. /\ Len(typed'[s]) = Len(typed[s]) + 1
      /\ typed'[s][Len(typed[s]) + 1] = text
  BY <1>5, <1>7, AppendProperties
<1>9. TypeOK'
  <2>1. pc' \in [Side -> {"input", "receive", "ended", "error"}]
    BY <1>4, <1>5
  <2>2. \A r \in Side : Len(typed'[r]) <= MaxLines
    <3>1. Len(typed[s]) \in Nat /\ MaxLines \in Nat
      BY <1>5, LenProperties, ChatAssumption
    <3> QED BY <3>1, <1>1, <1>4, <1>5, <1>7, <1>8
  <2>3. lost' \in BOOLEAN
    BY <1>4, <1>5 DEF Closed
  <2> QED BY <2>1, <2>2, <2>3, <1>3, <1>4, <1>5, <1>7 DEF TypeOK, Message
<1>10. OneToken'
  <2>1. Len(wire'[s]) = 0
    BY <1>3
  <2>2. pc'[s] # "input" /\ pc'[p] # "input"
    BY <1>3, <1>6
  <2> SUFFICES ASSUME NEW r \in Side
               PROVE  /\ Len(wire'[r]) <= 1 /\ pc'[r] # "input"
                      /\ wire'[r] = << >> \/ wire'[Peer(r)] = << >>
    BY DEF OneToken, HasTurn, Flies
  <2>3. CASE r = s
    BY <2>1, <2>2, <2>3
  <2>4. CASE r = p
    BY <2>2, <2>4, <1>1, <1>3
  <2> QED BY <2>3, <2>4, <1>1
<1>11. TokenKept'
  BY <1>1, <1>3 DEF TokenKept, Flies
<1>12. WireInv'
  <2>1. Len(typed[s]) = Len(printed[p]) /\ Len(typed[p]) = Len(printed[s])
    BY <1>1, <1>3 DEF IInv, WireInv, InFlight, Flies
  <2> QED BY <2>1, <1>1, <1>2, <1>3, <1>4, <1>7, <1>8
          DEF WireInv, InFlight, Flies
<1>13. CleanInv'
  <2> SUFFICES ASSUME faults = 0 PROVE ~lost' /\ \A r \in Side : pc'[r] \notin {"error", "ended"}
    BY <1>4 DEF CleanInv
  <2>1. pc[p] \notin {"error", "ended"}
    BY <1>1, <1>3, <1>4 DEF IInv, CleanInv, Flies
  <2>2. ~Closed(p)
    BY <2>1, <1>1, <1>5 DEF Closed, Running
  <2>3. ~lost
    BY DEF IInv, CleanInv
  <2> QED BY <2>1, <2>2, <2>3, <1>1, <1>4, <1>6
<1> QED BY <1>9, <1>10, <1>11, <1>12, <1>13 DEF IInv

(* /quit: s leaves, and the peer has the CLOSE to read.                     *)
LEMMA TypeQuitKeeps ==
    ASSUME IInv, NEW s \in Side, TypeQuit(s)
    PROVE  IInv'
<1> DEFINE p == Peer(s)  m == [type |-> CLOSE, text |-> ""]
<1>1. p \in Side /\ p # s /\ Peer(p) = s /\ \A r \in Side : r = s \/ r = p
  BY PeerFacts
<1>2. m \in Message /\ m.type = CLOSE /\ m.text = "" /\ CLOSE # CHAT
  BY DEF Message, CLOSE, CHAT
<1>3. /\ wire' \in [Side -> Seq(Message)]
      /\ wire[s] = << >> /\ wire[p] = << >> /\ wire'[s] = << >>
      /\ wire'[p] # << >> /\ Len(wire'[p]) = 1 /\ Head(wire'[p]) = m
      /\ pc[p] # "input"
  <2>1. pc[s] = "input" /\ Put(s, m.type, m.text)
    BY <1>2 DEF TypeQuit
  <2> QED BY <1>2, <2>1, PutFacts
<1> HIDE DEF m
<1>4. /\ pc' = [pc EXCEPT ![s] = "ended"]
      /\ lost' = lost
      /\ UNCHANGED <<typed, printed, faults>> /\ pc[s] = "input"
  <2>1. lost \in BOOLEAN
    BY DEF IInv, TypeOK
  <2> QED BY <2>1, <1>3 DEF TypeQuit, Leave
<1>5. TypeOK
  BY DEF IInv
<1>6. pc'[s] = "ended" /\ pc'[p] = pc[p]
  BY <1>1, <1>4, <1>5 DEF TypeOK
<1>7. TypeOK'
  <2>1. pc' \in [Side -> {"input", "receive", "ended", "error"}]
    BY <1>4, <1>5 DEF TypeOK
  <2> QED BY <2>1, <1>3, <1>4, <1>5 DEF TypeOK, Message
<1>8. OneToken'
  <2>1. Len(wire'[s]) = 0
    BY <1>3
  <2>2. pc'[s] # "input" /\ pc'[p] # "input"
    BY <1>3, <1>6
  <2> SUFFICES ASSUME NEW r \in Side
               PROVE  /\ Len(wire'[r]) <= 1 /\ pc'[r] # "input"
                      /\ wire'[r] = << >> \/ wire'[Peer(r)] = << >>
    BY DEF OneToken, HasTurn, Flies
  <2>3. CASE r = s
    BY <2>1, <2>2, <2>3
  <2>4. CASE r = p
    BY <2>2, <2>4, <1>1, <1>3
  <2> QED BY <2>3, <2>4, <1>1
<1>9. TokenKept'
  BY <1>6 DEF TokenKept, Running
<1>10. WireInv'
  <2>1. Len(typed[s]) = Len(printed[p]) /\ Len(typed[p]) = Len(printed[s])
    BY <1>1, <1>3 DEF IInv, WireInv, InFlight, Flies
  <2>2. ~InFlight(p)' /\ ~InFlight(s)' /\ ~Flies(s)' /\ Closed(s)'
    BY <1>2, <1>3, <1>6 DEF InFlight, Flies, Closed, Running
  <2> QED BY <2>1, <2>2, <1>1, <1>4 DEF WireInv
<1>11. CleanInv'
  <2> SUFFICES ASSUME faults = 0
               PROVE  /\ ~lost'
                      /\ \A r \in Side :
                           /\ pc'[r] # "error"
                           /\ pc'[r] = "ended" =>
                                ~Flies(r)' /\ Flies(Peer(r))' /\ ~InFlight(Peer(r))'
    BY <1>4 DEF CleanInv
  <2>1. pc[p] \notin {"error", "ended"} /\ ~lost
    BY <1>1, <1>3, <1>4 DEF IInv, CleanInv, Flies
  <2>2. ~Flies(s)' /\ Flies(p)' /\ ~InFlight(p)'
    BY <1>2, <1>3 DEF Flies, InFlight
  <2> QED BY <2>1, <2>2, <1>1, <1>4, <1>6
<1> QED BY <1>7, <1>8, <1>9, <1>10, <1>11 DEF IInv

(* A program that leaves with an error, after something has gone wrong,     *)
(* disturbs nothing: its turn and its messages are lost with it.            *)
LEMMA ErrorKeeps ==
    ASSUME IInv, NEW s \in Side, Running(s), Leave(s, "error"),
           faults' \in 0..MaxFaults, faults' # 0,
           UNCHANGED <<wire, typed, printed>>
    PROVE  IInv'
<1> DEFINE p == Peer(s)
<1>1. p \in Side /\ p # s /\ Peer(p) = s /\ \A r \in Side : r = s \/ r = p
  BY PeerFacts
<1>2. TypeOK /\ OneToken /\ WireInv
  BY DEF IInv
<1>3. pc' = [pc EXCEPT ![s] = "error"]
  BY DEF Leave
<1>4. pc'[s] = "error" /\ pc'[p] = pc[p]
  BY <1>1, <1>2, <1>3 DEF TypeOK
<1>5. TypeOK'
  <2>1. pc' \in [Side -> {"input", "receive", "ended", "error"}]
    BY <1>2, <1>3 DEF TypeOK
  <2>2. lost' \in BOOLEAN
    <3>1. lost \in BOOLEAN
      BY <1>2 DEF TypeOK
    <3> QED BY <3>1 DEF Leave
  <2> QED BY <2>1, <2>2, <1>2 DEF TypeOK
<1>6. OneToken'
  <2>1. \A r \in Side : HasTurn(r)' => HasTurn(r)
    BY <1>1, <1>4 DEF HasTurn
  <2>2. \A r \in Side : Flies(r)' = Flies(r) /\ wire'[r] = wire[r]
    BY DEF Flies
  <2> QED BY <2>1, <2>2, <1>2, PeerFacts DEF OneToken
<1>7. TokenKept'
  BY <1>4 DEF TokenKept, Running
<1>8. WireInv'
  <2>1. \A r \in Side : Closed(r) => Closed(r)'
    BY <1>1, <1>4 DEF Closed, Running
  <2>2. \A r \in Side : Flies(r)' = Flies(r) /\ InFlight(r)' = InFlight(r)
    BY DEF Flies, InFlight
  <2> QED BY <2>1, <2>2, <1>2, PeerFacts DEF WireInv
<1>9. CleanInv'
  BY DEF CleanInv
<1> QED BY <1>5, <1>6, <1>7, <1>8, <1>9 DEF IInv

(* The message taken off the wire to s was the only one in flight, and it   *)
(* was nobody's turn to type.                                               *)
LEMMA ReceiveFacts ==
    ASSUME IInv, NEW s \in Side, ReceiveText(s)
    PROVE  /\ wire' \in [Side -> Seq(Message)] /\ wire'[s] = << >>
           /\ wire'[Peer(s)] = << >> /\ wire[Peer(s)] = << >>
           /\ Flies(s) /\ Head(wire[s]) \in Message
           /\ pc[s] = "receive" /\ pc[Peer(s)] # "input" /\ ~lost
<1> DEFINE p == Peer(s)
<1>1. p \in Side /\ p # s /\ Peer(p) = s
  BY PeerFacts
<1>2. /\ pc[s] = "receive" /\ ~lost /\ wire[s] # << >>
      /\ wire' = [wire EXCEPT ![s] = Tail(@)]
  BY DEF ReceiveText
<1>3. wire \in [Side -> Seq(Message)] /\ Len(wire[s]) <= 1
  BY DEF IInv, TypeOK, OneToken, Message
<1>4. Head(wire[s]) \in Message /\ Tail(wire[s]) = << >>
  BY <1>2, <1>3, TakeOnly
<1>5. wire[p] = << >> /\ pc[p] # "input"
  BY <1>1, <1>2 DEF IInv, OneToken, HasTurn, Flies
<1>6. wire'[s] = << >> /\ wire'[p] = wire[p]
  BY <1>1, <1>2, <1>3, <1>4
<1>7. wire' \in [Side -> Seq(Message)]
  BY <1>2, <1>3, <1>4, EmptySeq
<1> QED BY <1>2, <1>4, <1>5, <1>6, <1>7 DEF Flies

(* A CLOSE is read: s leaves after a peer that has left.                    *)
LEMMA ReceiveCloseKeeps ==
    ASSUME IInv, NEW s \in Side, ReceiveText(s), Head(wire[s]).type = CLOSE
    PROVE  IInv'
<1> DEFINE p == Peer(s)
<1>1. p \in Side /\ p # s /\ Peer(p) = s /\ \A r \in Side : r = s \/ r = p
  BY PeerFacts
<1>2. CLOSE # CHAT
  BY DEF CLOSE, CHAT
<1>3. /\ wire' \in [Side -> Seq(Message)] /\ wire'[s] = << >>
      /\ wire'[p] = << >> /\ wire[p] = << >>
      /\ Flies(s) /\ pc[s] = "receive" /\ ~lost
  BY ReceiveFacts
<1>4. /\ pc' = [pc EXCEPT ![s] = "ended"] /\ ~lost'
      /\ UNCHANGED <<typed, printed, faults>>
  BY <1>2, <1>3 DEF ReceiveText, Leave
<1>5. TypeOK /\ WireInv /\ CleanInv
  BY DEF IInv
<1>6. pc'[s] = "ended" /\ pc'[p] = pc[p]
  BY <1>1, <1>4, <1>5 DEF TypeOK
<1>7. Closed(p) /\ pc[p] \in {"ended", "error"} /\ ~InFlight(s)
  BY <1>1, <1>2, <1>3, <1>5 DEF WireInv, InFlight, TypeOK, Closed, Running
<1>8. TypeOK'
  <2>1. pc' \in [Side -> {"input", "receive", "ended", "error"}]
    BY <1>4, <1>5 DEF TypeOK
  <2>2. lost' = (lost \/ wire'[s] # << >>)
    BY <1>2 DEF ReceiveText, Leave
  <2> QED BY <2>1, <2>2, <1>3, <1>4, <1>5 DEF TypeOK, Message
<1>9. \A r \in Side : wire'[r] = << >> /\ ~Flies(r)' /\ pc'[r] # "input"
  BY <1>1, <1>3, <1>6, <1>7 DEF Flies
<1>10. OneToken'
  <2>1. \A r \in Side : Len(wire'[r]) <= 1
    BY <1>9
  <2> QED BY <2>1, <1>9 DEF OneToken, HasTurn
<1>11. TokenKept'
  BY <1>6 DEF TokenKept, Running
<1>12. WireInv'
  <2>1. Len(typed[p]) = Len(printed[s]) /\ Len(typed[s]) = Len(printed[p])
    BY <1>1, <1>3, <1>5, <1>7 DEF WireInv, InFlight, Flies
  <2>2. \A r \in Side : ~InFlight(r)'
    BY <1>9 DEF InFlight
  <2> QED BY <2>1, <2>2, <1>1, <1>4, <1>9 DEF WireInv
<1>13. CleanInv'
  <2> SUFFICES ASSUME faults = 0 PROVE \A r \in Side : pc'[r] = "ended"
    BY <1>1, <1>4, <1>9 DEF CleanInv
  <2>1. pc[p] = "ended"
    BY <1>1, <1>5, <1>7 DEF CleanInv
  <2> QED BY <2>1, <1>1, <1>6
<1> QED BY <1>8, <1>10, <1>11, <1>12, <1>13 DEF IInv

(* A line is read and shown: now s has the turn.                            *)
LEMMA ReceiveChatKeeps ==
    ASSUME IInv, NEW s \in Side, ReceiveText(s), Head(wire[s]).type = CHAT
    PROVE  /\ IInv'
           /\ Len(printed[s]) < Len(typed[Peer(s)])
           /\ printed' = [printed EXCEPT
                  ![s] = Append(@, typed[Peer(s)][Len(printed[s]) + 1])]
<1> DEFINE p == Peer(s)  text == Head(wire[s]).text
<1>1. p \in Side /\ p # s /\ Peer(p) = s /\ \A r \in Side : r = s \/ r = p
  BY PeerFacts
<1>2. CLOSE # CHAT
  BY DEF CLOSE, CHAT
<1>3. /\ wire' \in [Side -> Seq(Message)] /\ wire'[s] = << >>
      /\ wire'[p] = << >> /\ wire[p] = << >>
      /\ Flies(s) /\ pc[s] = "receive" /\ pc[p] # "input" /\ ~lost
  BY ReceiveFacts
<1>4. /\ pc' = [pc EXCEPT ![s] = "input"]
      /\ printed' = [printed EXCEPT ![s] = Append(@, text)]
      /\ UNCHANGED <<lost, typed, faults>>
  BY <1>2 DEF ReceiveText, AfterPrinting
<1>5. TypeOK /\ WireInv /\ CleanInv
  BY DEF IInv
<1>6. pc'[s] = "input" /\ pc'[p] = pc[p]
  BY <1>1, <1>4, <1>5 DEF TypeOK
<1>7. /\ typed \in [Side -> Seq(Texts)] /\ printed \in [Side -> Seq(Texts)]
      /\ Len(typed[p]) \in Nat /\ Len(printed[s]) \in Nat
  BY <1>1, <1>5, LenProperties DEF TypeOK
<1>8. InFlight(s) /\ ~InFlight(p)
  BY <1>3 DEF InFlight, Flies
<1>9. /\ Len(typed[p]) = Len(printed[s]) + 1
      /\ typed[p][Len(printed[s]) + 1] = text
      /\ Len(typed[s]) = Len(printed[p])
  BY <1>1, <1>5, <1>8 DEF WireInv
<1>10. text \in Texts
  BY <1>7, <1>9, <1>1
<1>11. /\ printed' \in [Side -> Seq(Texts)] /\ printed'[p] = printed[p]
       /\ Len(printed'[s]) = Len(printed[s]) + 1
  <2>1. /\ Append(printed[s], text) \in Seq(Texts)
        /\ Len(Append(printed[s], text)) = Len(printed[s]) + 1
    BY <1>7, <1>10, AppendProperties
  <2> HIDE DEF text
  <2> QED BY <2>1, <1>1, <1>4, <1>7
<1>12. TypeOK'
  <2>1. pc' \in [Side -> {"input", "receive", "ended", "error"}]
    BY <1>4, <1>5 DEF TypeOK
  <2> QED BY <2>1, <1>3, <1>4, <1>5, <1>11 DEF TypeOK, Message
<1>13. \A r \in Side : wire'[r] = << >> /\ ~Flies(r)' /\ ~InFlight(r)'
  BY <1>1, <1>3 DEF Flies, InFlight
<1>14. OneToken'
  <2>1. \A r \in Side : Len(wire'[r]) <= 1
    BY <1>13
  <2>2. \A r \in Side : HasTurn(r)' => ~HasTurn(Peer(r))'
    BY <1>1, <1>3, <1>6 DEF HasTurn
  <2> QED BY <2>1, <2>2, <1>13, PeerFacts DEF OneToken
<1>15. TokenKept'
  BY <1>6 DEF TokenKept, HasTurn
<1>16. WireInv'
  BY <1>1, <1>4, <1>9, <1>11, <1>13 DEF WireInv
<1>17. CleanInv'
  <2> SUFFICES ASSUME faults = 0
               PROVE  ~lost' /\ \A r \in Side : pc'[r] \notin {"error", "ended"}
    BY <1>4 DEF CleanInv
  <2>1. pc[p] \notin {"error", "ended"}
    BY <1>1, <1>3, <1>5, <1>8 DEF CleanInv
  <2> QED BY <2>1, <1>1, <1>3, <1>4, <1>6
<1>18. IInv'
  BY <1>12, <1>14, <1>15, <1>16, <1>17 DEF IInv
<1> QED BY <1>4, <1>7, <1>9, <1>18

LEMMA NextIInv == IInv /\ [Next]_vars => IInv'
<1> SUFFICES ASSUME IInv, [Next]_vars PROVE IInv'
  OBVIOUS
<1>1. CASE UNCHANGED vars
  <2>1. TypeOK' /\ OneToken'
    BY <1>1 DEF vars, IInv, TypeOK, OneToken, HasTurn, Flies
  <2>2. TokenKept' /\ WireInv' /\ CleanInv'
    BY <1>1 DEF vars, IInv, TokenKept, WireInv, CleanInv,
                HasTurn, Flies, InFlight, Running, Closed
  <2> QED BY <2>1, <2>2 DEF IInv
<1>2. ASSUME NEW s \in Side, TypeQuit(s) PROVE IInv'
  BY <1>2, TypeQuitKeeps
<1>3. ASSUME NEW s \in Side, NEW text \in Texts, TypeText(s, text) PROVE IInv'
  BY <1>3, TypeTextKeeps
<1>4. faults \in Nat /\ MaxFaults \in Nat
  <2>1. faults \in 0..MaxFaults
    BY DEF IInv, TypeOK
  <2> QED BY <2>1, ChatAssumption
<1>5. ASSUME NEW s \in Side, NEW text \in Texts, TypeUnsendable(s, text) PROVE IInv'
  <2>1. faults' \in 0..MaxFaults /\ faults' # 0
    BY <1>4, <1>5 DEF TypeUnsendable
  <2> QED BY <2>1, <1>5, ErrorKeeps DEF TypeUnsendable, Running
<1>6. ASSUME NEW s \in Side, ReceiveText(s) PROVE IInv'
  BY <1>6, ReceiveCloseKeeps, ReceiveChatKeeps DEF ReceiveText
<1>7. ASSUME NEW s \in Side, ReceiveRaises(s) PROVE IInv'
  <2>1. faults # 0
    <3> SUFFICES ASSUME faults = 0 PROVE FALSE
      OBVIOUS
    <3>1. Peer(s) \in Side /\ Peer(Peer(s)) = s
      BY PeerFacts
    <3>2. /\ ~lost /\ Closed(Peer(s)) /\ ~Flies(s) /\ pc[s] = "receive"
      BY <1>7 DEF ReceiveRaises, IInv, CleanInv, Flies
    <3>3. pc[Peer(s)] = "ended"
      BY <3>1, <3>2 DEF IInv, TypeOK, CleanInv, Closed, Running
    <3> QED BY <3>1, <3>2, <3>3 DEF IInv, CleanInv
  <2>2. faults' \in 0..MaxFaults /\ faults' # 0
    BY <2>1, <1>7 DEF ReceiveRaises, IInv, TypeOK
  <2> QED BY <2>2, <1>7, ErrorKeeps DEF ReceiveRaises, Running
<1>8. ASSUME NEW s \in Side, Kill(s) PROVE IInv'
  <2>1. faults' \in 0..MaxFaults /\ faults' # 0
    BY <1>4, <1>8 DEF Kill
  <2> QED BY <2>1, <1>8, ErrorKeeps DEF Kill
<1> QED BY <1>1, <1>2, <1>3, <1>5, <1>6, <1>7, <1>8 DEF Next, Receive

LEMMA IInvAlways == Spec => []IInv
BY InitIInv, NextIInv, PTL DEF Spec
-----------------------------------------------------------------------------
(* Every reachable state has the declared types, and no user types more    *)
(* lines than the bound.                                                   *)
THEOREM TypesHold == Spec => []TypeOK
<1>1. IInv => TypeOK
  BY DEF IInv
<1> QED BY <1>1, IInvAlways, PTL

(* However many lines are typed, and whatever goes wrong, it is exactly    *)
(* one user's turn while both programs run (client.py:108-139,             *)
(* server.py:120-151).                                                     *)
THEOREM TurnsAlternate == Spec => []ExactlyOneTurn
<1>1. IInv => ExactlyOneTurn
  <2> SUFFICES ASSUME IInv, \A s \in Side : Running(s)
               PROVE  \E s \in Side :
                        /\ pc[Peer(s)] = "receive"
                        /\ (pc[s] = "input") # (wire[Peer(s)] # << >>)
    BY DEF ExactlyOneTurn
  <2>1. PICK t \in Side : HasTurn(t) \/ Flies(t)
    BY DEF IInv, TokenKept
  <2>2. /\ Peer(t) \in Side /\ Peer(Peer(t)) = t
        /\ \A r \in Side : pc[r] \in {"input", "receive"}
    BY PeerFacts DEF Running
  <2>3. CASE HasTurn(t)
    <3>1. pc[Peer(t)] = "receive" /\ wire[Peer(t)] = << >>
      BY <2>2, <2>3 DEF IInv, OneToken, HasTurn, Flies
    <3> QED BY <2>3, <3>1 DEF HasTurn
  <2>4. CASE ~HasTurn(t) /\ Flies(t)
    <3>1. pc[t] = "receive" /\ wire[t] # << >>
      BY <2>2, <2>4 DEF HasTurn, Flies
    <3>2. pc[Peer(t)] # "input"
      BY <2>2, <2>4 DEF IInv, OneToken, HasTurn, Flies
    <3> QED BY <2>2, <3>1, <3>2
  <2> QED BY <2>1, <2>3, <2>4
<1> QED BY <1>1, IInvAlways, PTL

(* As long as no program is killed and every line can be sent, neither     *)
(* program reports an error: a /quit reaches the other side before the     *)
(* socket is gone (report.md:91).                                          *)
THEOREM QuitEndsBoth == Spec => []QuitIsClean
<1>1. IInv => QuitIsClean
  BY DEF IInv, CleanInv, QuitIsClean
<1> QED BY <1>1, IInvAlways, PTL

(* The two programs implement the conversation of SecureLink: a line that  *)
(* is sent is its Send, a line that is shown its Deliver, and the rest     *)
(* stutters.                                                               *)
THEOREM ChatImplementsLink == Spec => ImplementsSecureLink
<1>1. Init => Link!LinkInit
  BY DEF Init, Link!LinkInit, Side, Link!Side
<1>2. Side = Link!Side /\ \A s \in Side : Peer(s) = Link!Peer(s)
  BY DEF Side, Link!Side, Peer, Link!Peer
<1>3. IInv /\ [Next]_vars => [Link!LinkNext]_Link!linkVars
  <2> SUFFICES ASSUME IInv, [Next]_vars, ~UNCHANGED <<typed, printed>>
               PROVE  Link!LinkNext
    BY DEF Link!linkVars
  <2>1. ASSUME NEW s \in Side, NEW text \in Texts, TypeText(s, text)
        PROVE  Link!LinkNext
    <3>1. Link!Send(s, text)
      BY <2>1 DEF TypeText, Link!Send
    <3> QED BY <3>1, <1>2 DEF Link!LinkNext
  <2>2. ASSUME NEW s \in Side, ReceiveText(s)
        PROVE  Link!LinkNext
    <3>1. Head(wire[s]).type = CHAT /\ UNCHANGED typed
      BY <2>2 DEF ReceiveText
    <3>2. Link!Deliver(s)
      BY <2>2, <3>1, <1>2, ReceiveChatKeeps DEF Link!Deliver
    <3> QED BY <3>2, <1>2 DEF Link!LinkNext
  <2>3. \E s \in Side : ReceiveText(s) \/ \E text \in Texts : TypeText(s, text)
    BY DEF Next, vars, Receive, TypeQuit, TypeUnsendable, ReceiveRaises, Kill
  <2> QED BY <2>1, <2>2, <2>3
<1> QED BY <1>1, <1>3, IInvAlways, PTL DEF Spec, ImplementsSecureLink, Link!LinkSpec
=============================================================================
