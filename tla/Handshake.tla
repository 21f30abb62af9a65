----------------------------- MODULE Handshake -----------------------------
(***************************************************************************)
(* client_handshake and server_handshake of protocol/socket_handshake.py   *)
(* running against each other over one TCP connection, with the transcript,*)
(* tags and session keys of protocol/handshake.py.                         *)
(*                                                                         *)
(* Each side runs its function step by step: a step sends one field,       *)
(* receives one field with the checks that follow it, or derives the keys. *)
(* Between any two steps the other side may run, either side may give up   *)
(* (killed, or the 8-second timeout of the GUI client) and the network may *)
(* replace a field on its way or alter the length in front of it.  Crypto- *)
(* graphy is symbolic: a tag is the list of what it was computed from,     *)
(* equal only to a tag of the same list.                                   *)
(***************************************************************************)
EXTENDS Naturals, Sequences

CONSTANTS
    Configs,          \* what the two sides may be started with
    Versions,         \* values of a version field
    Ids,              \* values of an identity field
    MaxDisturbances   \* how often a side gives up or the network
                      \* changes what a side will read

Side == {"client", "server"}
Peer(s) == IF s = "client" THEN "server" ELSE "client"

NoPsk == "no_psk"            \* the empty pre-shared key
BadIdentity == "bad_id"      \* an identity that is empty or too long

(* Public keys: one fresh key per side (create_ephemeral_keypair), and what *)
(* an altered field can hold: someone else's key, a key that leads to the  *)
(* all-zero secret, a value that is not 32 bytes.                          *)
PublicKeys == Side \cup {"foreign", "low_order", "malformed"}

(* psk, id and expected are the arguments of a side's function; version is *)
(* the PROTOCOL_VERSION of the release it runs.                            *)
ASSUME ConfigsAssumption ==
    \A c \in Configs : \A s \in Side :
        /\ c[s].version \in Versions
        /\ c[s].id \in Ids /\ c[s].expected \in Ids
ASSUME DisturbancesAssumption == MaxDisturbances \in Nat
-----------------------------------------------------------------------------
VARIABLES
    config,         \* config[s]: arguments and release of side s
    status,         \* "running"; "done": returned a channel; "failed": raised
    step,           \* steps of its script that s has finished, plus one
    wire,           \* wire[s]: fields in flight towards s, lengths as sent
    framing,        \* "kept": all that comes to s is in wire[s]; "lost": bytes
                    \* follow whose lengths no longer part the fields;
                    \* "drained": lost, and s has taken in all there was
    heard,          \* heard[s]: fields s has received
    channel,        \* the SecureChannel s returned
    disturbances    \* how often the run was disturbed

vars == <<config, status, step, wire, framing, heard, channel, disturbances>>

(***************************************************************************)
(* The order of _send_field and _receive_field calls.  Both sides send the *)
(* same four fields in the same order: version, identity, key, tag.        *)
(***************************************************************************)
Fields == <<"version", "id", "key", "tag">>

Send(n) == <<"send", n>>
Receive(n) == <<"receive", n>>
ClientScript == <<Send(1), Send(2), Send(3), Receive(1), Receive(2), Receive(3),
                  Send(4), Receive(4)>>
HastyServerScript == <<Receive(1), Receive(2), Receive(3), Send(1), Send(2), Send(3),
                       Send(4), Receive(4)>>
ServerScript == <<Receive(1), Receive(2), Receive(3), Send(1), Send(2), Send(3),
                  Receive(4), Send(4)>>
Script(s) == IF s = "client" THEN ClientScript ELSE ServerScript

AtSend(s, n) == step[s] \in 1..8 /\ Script(s)[step[s]] = Send(n)
AtReceive(s, n) == step[s] \in 1..8 /\ Script(s)[step[s]] = Receive(n)
TagSent(s) == \E i \in 1..8 : i < step[s] /\ Script(s)[i] = Send(4)

(***************************************************************************)
(* Transcript and tags, as each side computes them.                        *)
(***************************************************************************)
OwnFirstTranscript(s) ==
    [version |-> config[s].version,
     ids  |-> [i \in {1, 2} |-> IF i = 1 THEN config[s].id ELSE heard[s][2]],
     keys |-> [i \in {1, 2} |-> IF i = 1 THEN s ELSE heard[s][3]]]
Transcript(s) ==
    [version |-> config[s].version,
     ids  |-> [r \in Side |-> IF r = s THEN config[s].id ELSE heard[s][2]],
     keys |-> [r \in Side |-> IF r = s THEN s ELSE heard[s][3]]]

UnlabelledTag(s, label) ==
    [psk |-> config[s].psk, label |-> "none", transcript |-> Transcript(s)]
FinishedTag(s, label) ==
    [psk |-> config[s].psk, label |-> label, transcript |-> Transcript(s)]

GarbledTag == [psk |-> "garbled", label |-> "garbled", transcript |-> << >>]

(***************************************************************************)
(* derive_session_keys: X25519, then HKDF with the PSK as salt and the     *)
(* transcript as context, cut into four parts.                             *)
(***************************************************************************)
AllZero == {}
SharedSecret(s) ==
    IF heard[s][3] = "low_order" THEN AllZero ELSE {s, heard[s][3]}

SessionPart(s, part) ==
    [secret |-> SharedSecret(s), psk |-> config[s].psk,
     transcript |-> Transcript(s), part |-> part]

UnswappedChannel(s) ==
    [send_key           |-> SessionPart(s, "client_to_server_key"),
     receive_key        |-> SessionPart(s, "server_to_client_key"),
     send_nonce_base    |-> SessionPart(s, "client_nonce_base"),
     receive_nonce_base |-> SessionPart(s, "server_nonce_base"),
     sender_id          |-> config[s].id,
     expected_peer_id   |-> config[s].expected]

SessionChannel(s) ==
    IF s = "client"
    THEN UnswappedChannel(s)
    ELSE [send_key           |-> SessionPart(s, "server_to_client_key"),
          receive_key        |-> SessionPart(s, "client_to_server_key"),
          send_nonce_base    |-> SessionPart(s, "server_nonce_base"),
          receive_nonce_base |-> SessionPart(s, "client_nonce_base"),
          sender_id          |-> config[s].id,
          expected_peer_id   |-> config[s].expected]
NoChannel == [send_key |-> "none"]
-----------------------------------------------------------------------------
Init ==
    /\ config \in Configs
    /\ status = [s \in Side |-> "running"]
    /\ step = [s \in Side |-> 0]
    /\ wire = [s \in Side |-> << >>]
    /\ framing = [s \in Side |-> "kept"]
    /\ heard = [s \in Side |-> << >>]
    /\ channel = [s \in Side |-> NoChannel]
    /\ disturbances = 0

(* The function raises; its caller closes the socket.                      *)
Fail(s) ==
    /\ status' = [status EXCEPT ![s] = "failed"]
    /\ UNCHANGED <<config, step, channel>>
LeftOpen(s) == FALSE
Closed(s) == status[s] = "failed"

(* The argument checks; the client's key pair is made here, the server's   *)
(* after the client hello.                                                 *)
ArgumentsValid(s) ==
    /\ config[s].psk # NoPsk
    /\ config[s].id # BadIdentity
    /\ config[s].expected # BadIdentity

Start(s) ==
    /\ status[s] = "running" /\ step[s] = 0
    /\ \/ /\ ArgumentsValid(s)
          /\ step' = [step EXCEPT ![s] = 1]
          /\ UNCHANGED <<config, status, channel>>
       \/ ~ArgumentsValid(s) /\ Fail(s)
    /\ UNCHANGED <<wire, framing, heard, disturbances>>

(* The network has already brought a field in place of the n-th to s.      *)
Replaced(s, n) == Len(heard[s]) + Len(wire[s]) >= n

FieldValue(s, field) ==
    CASE field = "version" -> config[s].version
      [] field = "id"      -> config[s].id
      [] field = "key"     -> s
      [] field = "tag"     -> FinishedTag(s, s)

(* build_transcript refuses a public key that is not 32 bytes: the client  *)
(* right after the server hello, the server after sending its own hello.   *)
TranscriptBuilds(fields) == Len(fields) >= 3 => fields[3] # "malformed"

(* sendall puts the length and the field on their way even when the peer   *)
(* has closed; behind an altered length they are more bytes of the stream. *)
SendField(s, n) ==
    /\ status[s] = "running" /\ AtSend(s, n)
    /\ LET p == Peer(s)
           raises == n = 3 /\ ~TranscriptBuilds(heard[s]) IN
       /\ \/ /\ framing[p] = "kept"
             /\ wire' = IF Replaced(p, n) THEN wire
                        ELSE [wire EXCEPT ![p] = Append(@, FieldValue(s, Fields[n]))]
             /\ UNCHANGED framing
          \/ /\ framing[p] # "kept"
             /\ framing' = [framing EXCEPT ![p] = "lost"]
             /\ UNCHANGED wire
       /\ \/ raises /\ Fail(s)
          \/ /\ ~raises
             /\ step' = [step EXCEPT ![s] = @ + 1]
             /\ UNCHANGED <<config, status, channel>>
    /\ UNCHANGED <<heard, disturbances>>

(* The checks that follow the third and the fourth received field.         *)
HelloAccepted(s, fields) ==
    /\ fields[1] = config[s].version
    /\ fields[2] = config[s].expected
    /\ s = "client" => TranscriptBuilds(fields)
TagAccepted(s, fields) == fields[4] = FinishedTag(s, Peer(s))

ChecksPass(s, fields) ==
    /\ Len(fields) = 3 => HelloAccepted(s, fields)
    /\ Len(fields) = 4 => TagAccepted(s, fields)

(* A field has been read: the checks, and on to the next step.             *)
Take(s, value) ==
    /\ heard' = [heard EXCEPT ![s] = Append(@, value)]
    /\ \/ /\ ChecksPass(s, heard'[s])
          /\ step' = [step EXCEPT ![s] = @ + 1]
          /\ UNCHANGED <<config, status, channel>>
       \/ ~ChecksPass(s, heard'[s]) /\ Fail(s)

(* A length as it was sent is that of the field behind it and passes the   *)
(* checks: receive_exact returns the field.                                *)
ReceiveField(s, n) ==
    /\ status[s] = "running" /\ AtReceive(s, n)
    /\ wire[s] # << >>
    /\ UNCHANGED <<framing, disturbances>>
    /\ wire' = [wire EXCEPT ![s] = Tail(@)]
    /\ Take(s, Head(wire[s]))

(* What can stand where a field of a kind is read; a tag may be any tag    *)
(* computed on this connection.                                            *)
TagsInUse == {FinishedTag(r, r) : r \in {q \in Side : TagSent(q)}}
FieldValues(field) ==
    CASE field = "version" -> Versions
      [] field = "id"      -> Ids
      [] field = "key"     -> PublicKeys
      [] field = "tag"     -> TagsInUse \cup {GarbledTag}

(* Once a length has been altered, any four bytes may be taken for one: a  *)
(* length that is refused, or bytes that do not decode; a length for which *)
(* there are bytes enough, whatever field they make; one for which there   *)
(* are not, and receive_exact takes all there is and waits for more.       *)
Misread(s, n) ==
    /\ status[s] = "running" /\ AtReceive(s, n)
    /\ wire[s] = << >> /\ framing[s] = "lost"
    /\ \/ Fail(s) /\ UNCHANGED <<framing, heard>>
       \/ /\ \E v \in FieldValues(Fields[n]) : Take(s, v)
          /\ \E rest \in {"lost", "drained"} : framing' = [framing EXCEPT ![s] = rest]
       \/ /\ framing' = [framing EXCEPT ![s] = "drained"]
          /\ UNCHANGED <<config, status, step, heard, channel>>
    /\ UNCHANGED <<wire, disturbances>>

(* After the last field: the all-zero secret is refused.                   *)
DeriveSessionKeys(s) ==
    /\ status[s] = "running" /\ step[s] = 9
    /\ IF SharedSecret(s) = AllZero
       THEN Fail(s)
       ELSE /\ channel' = [channel EXCEPT ![s] = SessionChannel(s)]
            /\ status' = [status EXCEPT ![s] = "done"]
            /\ UNCHANGED <<config, step>>
    /\ UNCHANGED <<wire, framing, heard, disturbances>>

(* A closed peer with bytes it never read resets the connection; otherwise *)
(* recv returns what is in flight and then b"".                            *)
Unread(s) == wire[s] # << >> \/ framing[s] = "lost"
Reset(s) == Closed(Peer(s)) /\ Unread(Peer(s))
ConnectionError(s) ==
    /\ status[s] = "running"
    /\ \/ step[s] \in 1..8 /\ Reset(s)
       \/ (\E n \in 1..4 : AtReceive(s, n)) /\ Closed(Peer(s)) /\ ~Unread(s)
    /\ Fail(s)
    /\ UNCHANGED <<wire, framing, heard, disturbances>>

(* A side gives up: killed, or timed out (gui_client.py:373).              *)
GiveUp(s) ==
    /\ status[s] = "running"
    /\ disturbances < MaxDisturbances
    /\ disturbances' = disturbances + 1
    /\ Fail(s)
    /\ UNCHANGED <<wire, framing, heard>>

(* A field in flight becomes another of its kind.                          *)
AlterField(s) ==
    /\ disturbances < MaxDisturbances
    /\ disturbances' = disturbances + 1
    /\ \E i \in 1..Len(wire[s]) :
          \E v \in FieldValues(Fields[Len(heard[s]) + i]) :
             wire' = [wire EXCEPT ![s][i] = v]
    /\ UNCHANGED <<config, status, step, framing, heard, channel>>

(* The length that s reads next becomes another: the field behind it and   *)
(* all that follow are no longer told apart.  A length further back is     *)
(* altered once the fields before it have been read.                       *)
AlterLength(s) ==
    /\ disturbances < MaxDisturbances
    /\ disturbances' = disturbances + 1
    /\ framing[s] = "kept" /\ wire[s] # << >>
    /\ wire' = [wire EXCEPT ![s] = << >>]
    /\ framing' = [framing EXCEPT ![s] = "lost"]
    /\ UNCHANGED <<config, status, step, heard, channel>>

(* The network brings the next field before the peer sends it.             *)
ForeignField(s) ==
    /\ disturbances < MaxDisturbances
    /\ disturbances' = disturbances + 1
    /\ framing[s] = "kept"
    /\ Len(heard[s]) + Len(wire[s]) < 4
    /\ \E v \in FieldValues(Fields[Len(heard[s]) + Len(wire[s]) + 1]) :
          wire' = [wire EXCEPT ![s] = Append(@, v)]
    /\ UNCHANGED <<config, status, step, framing, heard, channel>>

HandshakeStep(s) ==
    \/ Start(s) \/ DeriveSessionKeys(s) \/ ConnectionError(s)
    \/ \E n \in 1..4 : SendField(s, n) \/ ReceiveField(s, n) \/ Misread(s, n)

Next == \E s \in Side : HandshakeStep(s) \/ GiveUp(s)
                         \/ AlterField(s) \/ AlterLength(s) \/ ForeignField(s)

Fairness == \A s \in Side : WF_vars(HandshakeStep(s))
Spec == Init /\ [][Next]_vars /\ Fairness
-----------------------------------------------------------------------------
TypeOK ==
    /\ config \in Configs
    /\ status \in [Side -> {"running", "done", "failed"}]
    /\ step \in [Side -> 0..9]
    /\ framing \in [Side -> {"kept", "lost", "drained"}]
    /\ DOMAIN channel = Side /\ DOMAIN wire = Side /\ DOMAIN heard = Side
    /\ \A s \in Side : Len(heard[s]) + Len(wire[s]) <= 4
    /\ disturbances \in 0..MaxDisturbances

Done(s) == status[s] = "done"

(* Whatever was altered on the way, a side that returns a channel has a    *)
(* peer that ran this handshake with the same PSK and version, is who the  *)
(* side expected and expects the side, and has seen the same identities    *)
(* and public keys (test_wrong_psk_is_rejected; the "unexpected identity"  *)
(* and "unsupported version" errors).                                      *)
Authentication ==
    \A s \in Side : LET p == Peer(s) IN
        Done(s) =>
            /\ config[s].psk = config[p].psk
            /\ config[s].version = config[p].version
            /\ config[s].expected = config[p].id
            /\ config[p].expected = config[s].id
            /\ Len(heard[p]) >= 3 /\ Transcript(p) = Transcript(s)

(* Two finished sides hold mirror images of one session, and nothing is    *)
(* shared between its two directions (derive_session_keys;                 *)
(* test_socket_handshake_creates_matching_channels).  Channel relies on it.*)
ChannelsMatch ==
    (\A s \in Side : Done(s)) =>
        LET c == channel["client"]  s == channel["server"] IN
        /\ c.send_key = s.receive_key /\ s.send_key = c.receive_key
        /\ c.send_nonce_base = s.receive_nonce_base
        /\ s.send_nonce_base = c.receive_nonce_base
        /\ c.send_key # s.send_key
        /\ c.expected_peer_id = s.sender_id /\ s.expected_peer_id = c.sender_id

(* The client is the last to commit: when it returns a channel the server  *)
(* has verified the client's tag (server_handshake, lines 217-232).        *)
ServerVerifiedFirst ==
    Done("client") => step["server"] = 9 /\ Len(heard["server"]) = 4

(* Two sides started for each other both get a channel, unless one of them *)
(* gave up or the network interfered.                                         *)
Compatible ==
    \A s \in Side : /\ ArgumentsValid(s)
                    /\ config[s].psk = config[Peer(s)].psk
                    /\ config[s].version = config[Peer(s)].version
                    /\ config[s].expected = config[Peer(s)].id
CompatibleSidesMeet ==
    Compatible ~> (disturbances > 0 \/ \A s \in Side : Done(s))

(* Every call ends, with a channel or an error, as long as no length is    *)
(* altered: receive_exact then waits for bytes that may never be sent, and *)
(* without a timeout so may both sides.  Even so nobody waits forever for  *)
(* a peer that failed.                                                     *)
LengthAltered == \E s \in Side : framing[s] # "kept"
EveryCallEnds ==
    \A s \in Side : /\ <>(status[s] # "running" \/ LengthAltered)
                    /\ status[Peer(s)] = "failed" ~> status[s] # "running"
=============================================================================
