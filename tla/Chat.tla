-------------------------------- MODULE Chat --------------------------------
(***************************************************************************)
(* The command line programs: run_client (apps/client.py) and run_server   *)
(* (apps/server.py) after the handshake, taking turns over one connection. *)
(*                                                                         *)
(* Channel and Transport show that a message arrives whole, once and in    *)
(* order or not at all; here the connection is a queue of messages in each *)
(* direction that ends when a socket is closed, and loses what is in it    *)
(* when it is reset.                                                       *)
(***************************************************************************)
EXTENDS Naturals, Sequences

CONSTANTS
    Texts,        \* what a user can type, "/quit" apart
    Unsendable,   \* the texts that raise ValueError: too large, not encodable
    MaxLines,     \* bound: lines each user types
    MaxFaults     \* bound: programs killed and unsendable lines typed

ASSUME ChatAssumption ==
    /\ Unsendable \subseteq Texts
    /\ MaxLines \in Nat /\ MaxFaults \in Nat

Side == {"client", "server"}
Peer(s) == IF s = "client" THEN "server" ELSE "client"

CHAT == "chat"
CLOSE == "close"

VARIABLES
    pc,        \* "input", "receive"; "ended": left the loop; "error": raised
    wire,      \* wire[s]: messages in flight towards s
    lost,      \* the connection was reset: what is in flight is gone
    typed,     \* history: typed[s], the lines sent by s
    printed,   \* history: printed[s], the peer's lines shown to s
    faults     \* how many programs were killed or given such a line

vars == <<pc, wire, lost, typed, printed, faults>>

Running(s) == pc[s] \in {"input", "receive"}
Closed(s) == ~Running(s)

Init ==
    /\ pc = [s \in Side |-> IF s = "client" THEN "input" ELSE "receive"]
    /\ wire = [s \in Side |-> << >>]
    /\ lost = FALSE
    /\ typed = [s \in Side |-> << >>]
    /\ printed = [s \in Side |-> << >>]
    /\ faults = 0

(* Leaving the "with" block closes the socket; unread bytes reset it.      *)
Leave(s, how) ==
    /\ pc' = [pc EXCEPT ![s] = how]
    /\ lost' = (lost \/ wire'[s] # << >>)

Put(s, type, text) ==
    wire' = [wire EXCEPT ![Peer(s)] = Append(@, [type |-> type, text |-> text])]

(* One line of input() and what the loop does with it.  sendall does not    *)
(* notice that the peer is gone: the reset comes in answer to the line.    *)
TypeQuitAndStay(s) ==
    /\ pc[s] = "input"
    /\ Put(s, CLOSE, "")
    /\ pc' = [pc EXCEPT ![s] = "receive"]
    /\ UNCHANGED <<lost, typed, printed, faults>>
TypeQuit(s) ==
    /\ pc[s] = "input"
    /\ Put(s, CLOSE, "")
    /\ Leave(s, "ended")
    /\ UNCHANGED <<typed, printed, faults>>

TypeText(s, text) ==
    /\ pc[s] = "input"
    /\ text \notin Unsendable
    /\ Len(typed[s]) < MaxLines
    /\ Put(s, CHAT, text)
    /\ typed' = [typed EXCEPT ![s] = Append(@, text)]
    /\ pc' = [pc EXCEPT ![s] = "receive"]
    /\ lost' = (lost \/ Closed(Peer(s)))
    /\ UNCHANGED <<printed, faults>>

(* The line cannot be encoded or makes too large a packet.                 *)
TypeUnsendable(s, text) ==
    /\ pc[s] = "input"
    /\ text \in Unsendable /\ faults < MaxFaults
    /\ faults' = faults + 1
    /\ UNCHANGED wire
    /\ Leave(s, "error")
    /\ UNCHANGED <<typed, printed>>

(* receive_text_message returns.                                           *)
StayReceiving(s) == "receive"
AfterPrinting(s) == "input"
ReadTextAgain(s) ==
    /\ pc[s] = "receive" /\ ~lost /\ wire[s] # << >>
    /\ UNCHANGED wire
    /\ printed' = [printed EXCEPT ![s] = Append(@, Head(wire[s]).text)]
    /\ pc' = [pc EXCEPT ![s] = AfterPrinting(s)]
    /\ UNCHANGED <<lost, typed, faults>>
ReceiveText(s) ==
    /\ pc[s] = "receive" /\ ~lost /\ wire[s] # << >>
    /\ wire' = [wire EXCEPT ![s] = Tail(@)]
    /\ LET m == Head(wire[s]) IN
       \/ /\ m.type = CLOSE
          /\ Leave(s, "ended")
          /\ UNCHANGED printed
       \/ /\ m.type = CHAT
          /\ printed' = [printed EXCEPT ![s] = Append(@, m.text)]
          /\ pc' = [pc EXCEPT ![s] = AfterPrinting(s)]
          /\ UNCHANGED lost
    /\ UNCHANGED <<typed, faults>>

(* recv returns b"" or raises: ConnectionError or OSError.                 *)
IgnoreEndOfStream(s) ==
    /\ pc[s] = "receive" /\ lost
    /\ UNCHANGED wire
    /\ Leave(s, "error")
    /\ UNCHANGED <<typed, printed, faults>>
ReceiveRaises(s) ==
    /\ pc[s] = "receive"
    /\ lost \/ (Closed(Peer(s)) /\ wire[s] = << >>)
    /\ UNCHANGED wire
    /\ Leave(s, "error")
    /\ UNCHANGED <<typed, printed, faults>>

(* The program is killed or interrupted, its standard input ends, or the   *)
(* network fails under it.                                                 *)
Kill(s) ==
    /\ Running(s) /\ faults < MaxFaults
    /\ faults' = faults + 1
    /\ UNCHANGED wire
    /\ Leave(s, "error")
    /\ UNCHANGED <<typed, printed>>

Receive(s) == ReceiveText(s) \/ ReceiveRaises(s)

Next ==
    \E s \in Side :
        \/ TypeQuit(s)
        \/ \E text \in Texts : TypeText(s, text) \/ TypeUnsendable(s, text)
        \/ Receive(s)
        \/ Kill(s)

(* A program runs by itself only while it receives; users need not type.   *)
Fairness == \A s \in Side : WF_vars(Receive(s))
Spec == Init /\ [][Next]_vars /\ Fairness
-----------------------------------------------------------------------------
TypeOK ==
    /\ pc \in [Side -> {"input", "receive", "ended", "error"}]
    /\ wire \in [Side -> Seq([type : {CHAT, CLOSE}, text : Texts \cup {""}])]
    /\ lost \in BOOLEAN
    /\ typed \in [Side -> Seq(Texts)] /\ printed \in [Side -> Seq(Texts)]
    /\ \A s \in Side : Len(typed[s]) <= MaxLines
    /\ faults \in 0..MaxFaults

(* While both programs run it is somebody's turn: never do both users wait *)
(* for the other to write, nor are both asked at once (the loops of        *)
(* client.py:108-139 and server.py:120-151).                               *)
ExactlyOneTurn ==
    (\A s \in Side : Running(s)) =>
        \E s \in Side :
            /\ pc[Peer(s)] = "receive"
            /\ (pc[s] = "input") # (wire[Peer(s)] # << >>)

(* Whoever types /quit, neither program reports an error, unless one was   *)
(* killed or could not send a line (report.md:91: either side ends the     *)
(* session with /quit).                                                    *)
QuitIsClean ==
    faults = 0 => \A s \in Side : pc[s] # "error"

(* A program never keeps waiting for a peer that has gone: it gets what    *)
(* was in flight, or ends.                                                 *)
NobodyWaitsForTheGone ==
    \A s \in Side : (pc[s] = "receive" /\ Closed(Peer(s))) ~> pc[s] # "receive"

(* What a user is shown is what the other typed, line by line: the two     *)
(* programs implement the conversation that SecureLink promises.           *)
Link == INSTANCE SecureLink
        WITH Content <- Texts, sent <- typed, received <- printed
ImplementsSecureLink == Link!LinkSpec
=============================================================================
