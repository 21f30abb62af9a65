----------------------------- MODULE Transport -----------------------------
(***************************************************************************)
(* One direction of a connection, from the threads that send to the thread *)
(* that receives: send_secure / send_text_message of the applications with *)
(* the lock they take, protocol/transport.py with its 4-byte length prefix,*)
(* and the TCP stream in between, which accepts and returns any number of  *)
(* bytes at a time.                                                        *)
(*                                                                         *)
(* A byte is a digit of base Base.  A packet is its sequence number        *)
(* followed by filling bytes; what is inside a packet is the subject of    *)
(* Encoding, and why a forged one is refused the subject of Channel.       *)
(***************************************************************************)
EXTENDS Bytes

CONSTANTS
    Senders,               \* the calls that send: one thread and one message each
    Sizes,                 \* lengths of packets
    LengthPrefixSize,      \* LENGTH_PREFIX_SIZE, 4 in the code
    MaxPacketSize,         \* MAX_PACKET_SIZE, 2^20 in the code
    PipeSize,              \* bytes the TCP stream holds before sendall blocks
    NoSender

ASSUME TransportAssumption ==
    /\ Sizes \subseteq Nat \ {0} /\ LengthPrefixSize \in Nat \ {0}
    /\ MaxPacketSize \in Nat /\ MaxPacketSize < Base^LengthPrefixSize
    /\ PipeSize \in Nat \ {0} /\ NoSender \notin Senders

ASSUME PrefixAssumption == Converts(LengthPrefixSize)

VARIABLES
    pc,              \* pc[c]: where sending call c is
    lock,            \* send_lock: the call that holds it
    send_sequence,   \* SecureChannel.send_sequence of the sender
    unsent,          \* unsent[c]: bytes sendall of c has yet to hand over
    pipe,            \* the TCP stream
    open,            \* open[e]: end e has not closed its socket
    reading,         \* what receive_exact is filling: "length" or "packet"
    need,            \* the size it was asked for
    got,             \* the bytes it has
    receive_sequence,\* SecureChannel.receive_sequence of the receiver
    outcome,         \* how receiving ended
    outgoing         \* history: the packets given to sendall, in order

sendVars == <<pc, lock, send_sequence, unsent, outgoing>>
receiveVars == <<reading, need, got, receive_sequence, outcome>>
vars == <<sendVars, receiveVars, pipe, open>>

Packet(n, size) == [i \in 1..size |-> IF i = 1 THEN n ELSE Base - 1]

Init ==
    /\ pc = [c \in Senders |-> "idle"]
    /\ lock = NoSender
    /\ send_sequence = 0
    /\ unsent = [c \in Senders |-> << >>]
    /\ pipe = << >>
    /\ open = [sender |-> TRUE, receiver |-> TRUE]
    /\ reading = "length" /\ need = LengthPrefixSize /\ got = << >>
    /\ receive_sequence = 0
    /\ outcome = "receiving"
    /\ outgoing = << >>
-----------------------------------------------------------------------------
(* A user sends: the call starts and waits for the lock.  A send that      *)
(* raises leaves the others to go on, as in the GUI programs; a command    *)
(* line program has one thread and ends, which CloseSender stands for.     *)
StartSend(c) ==
    /\ pc[c] = "idle"
    /\ pc' = [pc EXCEPT ![c] = "waiting"]
    /\ UNCHANGED <<lock, send_sequence, unsent, outgoing, receiveVars, pipe, open>>

AcquireLock(c) ==
    /\ pc[c] = "waiting" /\ lock = NoSender
    /\ lock' = c
    /\ pc' = [pc EXCEPT ![c] = "locked"]
    /\ UNCHANGED <<send_sequence, unsent, outgoing, receiveVars, pipe, open>>

(* Leaving the "with" block, normally or by an exception.                  *)
LeaveLocked(c, how) ==
    /\ pc' = [pc EXCEPT ![c] = how]
    /\ lock' = IF how = "failed" THEN c ELSE NoSender
Leave(c, how) ==
    /\ pc' = [pc EXCEPT ![c] = how]
    /\ lock' = NoSender

(* encrypt_message counts the message; only then does send_protected_message*)
(* look at the size of the packet.                                         *)
EncryptMessage(c) ==
    /\ pc[c] = "locked"
    /\ \E size \in Sizes :
        LET packet == Packet(send_sequence, size) IN
        /\ send_sequence' = send_sequence + 1
        /\ \/ /\ size > MaxPacketSize
              /\ Leave(c, "failed")
              /\ UNCHANGED <<unsent, outgoing>>
           \/ /\ size <= MaxPacketSize
              /\ outgoing' = Append(outgoing, packet)
              /\ pc' = [pc EXCEPT ![c] = "sending"]
              /\ unsent' = [unsent EXCEPT
                              ![c] = ToBytes(size, LengthPrefixSize) \o packet]
              /\ UNCHANGED lock
    /\ UNCHANGED <<receiveVars, pipe, open>>

(* sendall hands over what the stream has room for, and returns at the end.*)
SendOnce(c) ==
    /\ pc[c] = "sending" /\ open.sender
    /\ \E k \in 1..Len(unsent[c]) :
        /\ Len(pipe) + k <= PipeSize
        /\ pipe' = pipe \o SubSeq(unsent[c], 1, k)
        /\ unsent' = [unsent EXCEPT ![c] = << >>]
        /\ Leave(c, "done")
    /\ UNCHANGED <<send_sequence, outgoing, receiveVars, open>>
SendAll(c) ==
    /\ pc[c] = "sending" /\ open.sender
    /\ \E k \in 1..Len(unsent[c]) :
        /\ Len(pipe) + k <= PipeSize
        /\ pipe' = pipe \o SubSeq(unsent[c], 1, k)
        /\ unsent' = [unsent EXCEPT ![c] = SubSeq(@, k + 1, Len(@))]
        /\ IF k = Len(unsent[c]) THEN Leave(c, "done") ELSE UNCHANGED <<pc, lock>>
    /\ UNCHANGED <<send_sequence, outgoing, receiveVars, open>>

(* sendall raises OSError once an end is closed.                           *)
SendAllFails(c) ==
    /\ pc[c] = "sending"
    /\ ~open.sender \/ ~open.receiver
    /\ Leave(c, "failed")
    /\ unsent' = [unsent EXCEPT ![c] = << >>]
    /\ UNCHANGED <<send_sequence, outgoing, receiveVars, pipe, open>>

(* The sending application closes its socket, at whatever point a send is. *)
CloseSender ==
    /\ open.sender
    /\ open' = [open EXCEPT !.sender = FALSE]
    /\ UNCHANGED <<sendVars, receiveVars, pipe>>
-----------------------------------------------------------------------------
(* The receiving loop raises; its caller closes the socket.                *)
Stop(why) ==
    /\ outcome' = why
    /\ open' = [open EXCEPT !.receiver = FALSE]

LengthAccepted(n) == 0 < n /\ n <= MaxPacketSize

(* What decrypt_message lets through: a packet of the sender, the next one.*)
PacketAccepted(packet) ==
    packet \in Range(outgoing) /\ packet[1] = receive_sequence

(* receive_exact has all it was asked for, and receive_protected_message   *)
(* goes on with bytes.                                                     *)
LengthRead(bytes) ==
    /\ reading = "length"
    /\ UNCHANGED receive_sequence
    /\ \/ /\ LengthAccepted(FromBytes(bytes))
          /\ reading' = "packet" /\ need' = FromBytes(bytes)
          /\ UNCHANGED <<outcome, open>>
       \/ /\ ~LengthAccepted(FromBytes(bytes))
          /\ Stop("rejected")
          /\ UNCHANGED <<reading, need>>

PacketRead(bytes) ==
    /\ reading = "packet"
    /\ reading' = "length" /\ need' = LengthPrefixSize
    /\ \/ /\ PacketAccepted(bytes)
          /\ receive_sequence' = receive_sequence + 1
          /\ UNCHANGED <<outcome, open>>
       \/ /\ ~PacketAccepted(bytes)
          /\ Stop("rejected")
          /\ UNCHANGED receive_sequence

AnyChunk(n) == TRUE
Complete(n) == n = need

(* recv returns between one byte and what receive_exact still needs.       *)
Receive ==
    /\ outcome = "receiving"
    /\ \E k \in 1..need - Len(got) :
        LET bytes == got \o SubSeq(pipe, 1, k) IN
        /\ k <= Len(pipe)
        /\ pipe' = SubSeq(pipe, k + 1, Len(pipe))
        /\ \/ /\ Complete(Len(bytes))
              /\ got' = << >>
              /\ LengthRead(bytes) \/ PacketRead(bytes)
           \/ /\ ~Complete(Len(bytes))
              /\ got' = bytes
              /\ UNCHANGED <<reading, need, receive_sequence, outcome, open>>
    /\ UNCHANGED sendVars

(* recv returns b"", or raises because the connection was reset.           *)
ReceiveFails ==
    /\ outcome = "receiving"
    /\ ~open.sender
    /\ Stop("connection_error")
    /\ UNCHANGED <<sendVars, reading, need, got, receive_sequence, pipe>>

SendStep(c) == AcquireLock(c) \/ EncryptMessage(c) \/ SendAll(c) \/ SendAllFails(c)

Next ==
    \/ \E c \in Senders : StartSend(c) \/ SendStep(c)
    \/ CloseSender
    \/ Receive \/ ReceiveFails

(* Threads that can run do run; nobody is obliged to send or to close.     *)
Fairness ==
    /\ \A c \in Senders : WF_vars(SendStep(c))
    /\ WF_vars(Receive \/ ReceiveFails)
Spec == Init /\ [][Next]_vars /\ Fairness
-----------------------------------------------------------------------------
TypeOK ==
    /\ pc \in [Senders -> {"idle", "waiting", "locked", "sending", "done", "failed"}]
    /\ lock \in Senders \cup {NoSender}
    /\ \A c \in Senders : pc[c] \in {"locked", "sending"} <=> lock = c
    /\ Len(outgoing) <= send_sequence /\ receive_sequence <= Len(outgoing)
    /\ Len(pipe) <= PipeSize /\ Len(got) < need
    /\ open \in [sender : BOOLEAN, receiver : BOOLEAN]
    /\ outcome \in {"receiving", "rejected", "connection_error"}

(* The messages on their way have the numbers 0, 1, 2, ... with no gap     *)
(* (test_channel.py:148: "Every outgoing message must use the next         *)
(* sequence number."; report.md:79: the number "increases after every      *)
(* successfully processed message").                                       *)
OutgoingUseNextNumber == \A i \in 1..Len(outgoing) : outgoing[i][1] = i - 1

(* However the stream cuts the bytes and however the sending calls         *)
(* interleave, the receiver refuses nothing that was sent whole: it reads  *)
(* a true length, then exactly one packet, with the number it expects, and *)
(* only a number that an oversized message used up can make it refuse      *)
(* (transport.py:20-92).                                                   *)
RefusedOnlyAfterGap == outcome = "rejected" => ~OutgoingUseNextNumber

(* Every send that has started ends, sent or with an error: no call waits  *)
(* forever for the lock or for room in the stream.                         *)
EverySendEnds ==
    \A c \in Senders : pc[c] = "waiting" ~> pc[c] \in {"done", "failed"}

(* Every message whose send succeeded arrives, unless a side closes.       *)
SentIsReceived ==
    \A c \in Senders :
        pc[c] = "done" ~> \/ ~open.sender \/ ~open.receiver
                          \/ receive_sequence = Len(outgoing)
=============================================================================
