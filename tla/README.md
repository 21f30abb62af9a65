# secure-channel: models, checks and proofs

This directory holds TLA+ models of secure-channel, the configurations that
model-check them with TLC, and proofs checked by TLAPS. Paths below are relative
to the repository (`protocol/`, `crypto/` and `apps/` stand for `src/protocol/`,
`src/crypto/` and `src/apps/`).

Run a check with `tlc -workers 2 -config MCChannel.cfg MCChannel` (likewise for
the other `MC*.cfg` files) and the proofs with `tlapm ChannelProofs.tla` (likewise for
the other modules named `*Proofs`).

## 1. The system

A client and a server talk over one TCP connection. A handshake authenticates
both with a pre-shared key (PSK) and derives keys; two `SecureChannel` objects
then encrypt numbered messages; a framing layer carries them over TCP; four
programs (two with a command line, two with a window) use all that.

| component | code | state it keeps | operations | talks to |
|---|---|---|---|---|
| secure channel | `protocol/channel.py` | two counters, keys, nonce bases | `encrypt_message`, `decrypt_message` | called by every program; calls header and AEAD |
| header, packet | `protocol/message.py`, `packet.py` | none | build / parse, serialize / parse | channel, transport |
| AEAD | `crypto/aead.py` | none | encrypt, decrypt | channel; calls ChaCha20 and Poly1305 |
| handshake protocol | `protocol/handshake.py` | none | transcript, tags, session keys | socket handshake; calls HMAC, HKDF, X25519 |
| socket handshake | `protocol/socket_handshake.py` | position in the exchange, what was heard | `client_handshake`, `server_handshake` | the peer over TCP; returns a channel to the program |
| transport | `protocol/transport.py` | bytes read so far | `send_protected_message`, `receive_protected_message` | socket; shared by several threads of a program |
| command line programs | `apps/client.py`, `apps/server.py` | whose turn it is | the chat loop, `/quit` | channel and transport, the user |
| GUI client | `apps/gui_client.py` | `client_socket`, `channel`, `connected`, `send_lock`, buttons, status | handlers of the main loop; `connect_worker`, `receive_loop`, `send_worker`, `disconnect_worker`; callbacks posted with `root.after` | all of the above, threads among each other through attributes and callbacks |
| GUI server | `apps/gui_server.py` | `server_socket`, `client_connection`, `channel`, `server_running`, `client_connected`, `send_lock`, buttons, status | the same with `server_worker`, `send_worker`, `stop_worker` | the same |
| primitives | `crypto/*.py` | none | SHA-256, HMAC, HKDF, ChaCha20, Poly1305, X25519 | AEAD, handshake |

What is hard here, and what has to be right:

* **Channel.** Messages may be lost, repeated, reordered or damaged on the way to
  `decrypt_message`. Accepted messages must be a prefix of what the peer
  encrypted; no nonce may be used twice under a key, the last sequence number
  included; a refused message must not move the receiver.
* **Handshake.** Two functions step through eight fields while either may be
  refused, killed or timed out and fields, or the lengths in front of them, may be
  altered. A side that returns a channel must have an authenticated peer that agrees
  with it; two that finish must hold mirrored keys; nobody may wait forever for a peer
  that failed, and an altered length is the only thing that may leave both waiting.
* **Transport.** TCP cuts bytes anywhere, three threads may send at once, a send
  can fail before or in the middle of its bytes.
* **Command line programs.** They take turns: a disagreement about the turn is a
  deadlock; one may vanish while the other waits.
* **GUI programs.** Attributes are stored one by one in worker threads and read
  in the main loop; callbacks arrive after the connection they are about was
  replaced; buttons are enabled in several places; sockets are closed by several
  threads, and closing a socket does not wake a thread blocked on it. Two
  programs can end one session at the same time.
* **Encodings and primitives.** They keep no state, but have boundaries that the
  published vectors in `tests/` do not reach: a padding that just fails to fit, a
  counter at its end, a last block that is short, points of small order,
  coordinates at and above the prime, bytes that could belong to either of two
  neighbouring fields.

`PROJECT.json` lists each of these hazards at its line with the property that
guards it, or the reason why none does.

## 2. The modules

```
SecureLink   <--implements--  Channel  (ChannelProofs)   takes for granted: Encoding, Aead, ChannelsMatch
     ^------------implements--  Chat     (ChatProofs)      takes for granted: Channel, Transport
Handshake (HandshakeProofs)                              takes for granted: Transcript, KeyDerivation, X25519
Transport (TransportProofs)                              framing, partial I/O, several senders
GuiSession (GuiSessionProofs) = GuiClient (GuiClientProofs) + GuiServer (GuiServerProofs)
     + the two streams; implements both                  takes for granted: Handshake, Channel, Transport

Bytes <- Encoding (EncodingProofs), Transcript, Transport, Poly1305
Bytes <- Words <- Padding <- Layouts (EncodingProofs; with Transcript)         \
                  Padding <- Sha256 <- KeyDerivation (with Transcript)          > Primitives
                  Padding <- Aead (with ChaCha20, Poly1305)                    /
X25519 on its own
```

**SecureLink** is the abstract promise: two sides say things, and each is given a
prefix of what the other said. `Channel` and `Chat` are shown to implement it
(`INSTANCE SecureLink`, its specification as a property).

**Channel.** `EncryptMessage` and `DecryptMessage` are the methods of
`SecureChannel`, the checks in the code's order. The receiver may at any time be
handed any combination of a header, a ciphertext and a tag that exist, or damaged
ones (`ProtectedMessage`), so loss, repetition, reordering and splicing are all
there without a model of the network. The AEAD is symbolic: a tag is the list of
what it was computed from. Nonces are computed bit by bit, because their
uniqueness is a property. `sealed`, `sent` and `received` are history.

**Handshake.** Each side runs its script of sends and receives (`ClientScript`,
`ServerScript`); the checks stand where the code has them, after the third and the
fourth field received. `wire[s]` is the stream towards `s`. `GiveUp` is a killed
program or the 8-second timeout of the GUI client; `AlterField` and `ForeignField`
change a field on its way or bring one before the peer sends it. A length that is as it was
sent is that of its field and passes the checks of `_receive_field`, so `wire[s]` holds whole
fields. `AlterLength` changes the next one, and `framing[s]` says that the bytes from there on
are no longer parted: whatever `_receive_field` then reads as a length (`Misread`) is refused, or
cuts some field out of them, or asks for more than there is, and `receive_exact` waits for bytes
that the peer may never send. A public key is its
owner's name, a shared secret the set of two names, a tag the list of what it was
computed from. `ConnectionError` is what a closed or reset connection does to `recv`
and `sendall`.

**Transport.** One direction: senders that take `send_lock`, encrypt (which
counts the message), check the packet's size and hand over bytes as the stream
has room; a receiver that assembles a length and a packet from chunks of any size.
After a failed send the others go on, as in the GUI server; the command line programs
end and the GUI client ends the session, which are the behaviours in which
`CloseSender` follows.

**Chat.** The loops of `run_client` and `run_server`, which differ only in who
writes first. A side is asking its user, receiving, or gone. A socket closed with
unread data resets the connection, and what was in flight is lost (`lost`).

**GuiClient** and **GuiServer.** The main loop runs one event or callback at a time
(`ConnectClicked`, `FinishDisconnect`, ...); every worker thread runs in steps as
small as the attribute stores and reads of the code (`StoreAttributes`,
`StoreChannel`), so that any two threads interleave. `app` holds the attributes,
`window` the status and the buttons, `callbacks` the queue of `root.after(0, ...)`,
`thread` / `worker` where the receiving threads are and `task` the sending, stopping
and disconnecting ones. Connections (runs of the server) are numbered, and the number
stands for the socket and the channel made on it, so that "the wrong socket" is
`app.client_socket # i`. A socket is `"open"`, `"closed"`, or `"shut"`: shut down
before it was closed. The difference matters on Linux: shutting a socket down wakes
a thread blocked in `recv` on it and tells the peer, closing it in another thread
does neither until that `recv` returns. The peer does whatever it likes. `CloseProgram`
ends the process, and the system closes its sockets.

**GuiSession** composes the two: each program takes its own steps (`OwnStep`), and
what one reads is what the other has sent, in order, or the end of the stream
(`ClientGone`, `ServerGone`). The handshake is the server's last message and its
reading by the client, and may fail at either end, so a session that only one side
believes in occurs. `WindowsAgree` is about the moments at which both programs are at
rest (`AtRest`): nothing is pending in either, and nothing is on its way to a thread that reads.

**Encoding** and **Transcript** are the byte-level encodings that `Channel` and
`Handshake` treat as records: header, packet and the handshake transcript. Bytes are
digits of a small base, fields are shorter, the offsets and checks are the code's. A
state of `Encoding` is a message whose bytes have been altered up to twice.

**Words**, **Padding**, **Sha256**, **KeyDerivation**, **ChaCha20**, **Poly1305**, **Aead** are
the functions under `crypto/` and the key schedule of `protocol/handshake.py`, line by
line, with the sizes of bytes, words, blocks and fields as parameters. `Padding` has what
SHA-256 and the AEAD lay out around their inputs. **Layouts**
lets two byte strings grow and states what must hold of everything that is laid out for them;
**Primitives** states what must hold of what the functions compute from them. `Padding` and `Layouts`
are apart from the functions because they need no bit operations, so that they can be proved about.

**X25519** is the Montgomery ladder, one action per turn of its loop, on any
curve; its properties compare it with adding points one by one.

## 3. What the runs show

| run | question | bounds | distinct states |
|---|---|---|---|
| `channel` | do two channels implement the conversation whatever arrives, up to the counter's limit? | 3 sequence numbers per direction, 3-bit nonces, 3 message types of which one does not fit a header, one text; both directions share a nonce base, so only the keys keep them apart | 2,401 |
| `handshake` | authentication, agreement, order of commitment, termination | 38 ways to start two sides (equal and different PSK, version, identities, invalid arguments), up to 2 disturbances: an altered field or length, a field out of turn, a side that gives up | 518,202 |
| `transport` | are frames whole and in order, do sends end and arrive? | 3 senders, packets of 1 and 2 bytes and of 3, which is over the limit, a 2-byte prefix, a stream of 3 bytes (shorter than a message) | 17,990 |
| `transport_gap` | **violated**: a sender that goes on leaves a gap | the same | |
| `chat` | turn-taking, clean end, no wait for a dead peer, conversation | 3 lines per user, 2 faults (a kill or an unsendable line) | 1,773 |
| `encoding` | do bytes and messages determine each other? | base 4, 12 messages, any two alterations (one can change a length while the other adds or removes a byte) | 15,780 |
| `primitives` | injectivity, reversibility, freshness of keys and keystream | see below | 14,641 |
| `curve` | does the ladder compute multiples, which keys give the zero secret, do two sides agree? | a curve over 4,073 elements, 13-bit keys, 72 private keys, 26 public keys | 26,208 |
| `gui_client` | safety of the GUI client; connecting and disconnecting end | 2 connections, 2 sends or disconnects | 94,431 |
| `gui_server` | safety of the GUI server, and that Stop ends a session | 2 runs, 2 sends or stops, of which 1 when the second run starts before the first has ended | 147,566 |
| `gui_server_two` | **violated**: an early restart serves two clients | the same | |
| `gui_session` | do both programs end a session, and say so? | 1 connection, 1 message or Disconnect, 1 message or Stop | 293,117 |

Why the bounds are enough.

* The counters of a channel only ever meet the peer's counter and the limit; three
  numbers give "before, expected, after" and the overflow. In the handshake every field
  is received once, and two disturbances allow one alteration per direction, or an
  alteration and a side that gives up. In `Chat` a third line finds both users
  where the first found them. The theorems of section 5 lift all three bounds.
* Three senders are one that holds the lock and two that wait.
* In the GUI programs the races are between one connection and its successor, and between
  two threads that want the lock. In `gui_server` a hasty restart gets one task only,
  because two runs at once multiply the states; the violation `gui_server_two` needs no more.
  In `gui_session` what matters is how one session ends from two sides: each user has one
  action, and closing a window is possible besides.
* The primitives are generic in the width of bytes and words, in the number of rounds and in
  the constants. The run uses 4-bit bytes, words of two bytes (a block has 32 bytes, a
  digest 16), 18 rounds of SHA-256 (two words beyond the block's own sixteen), 3 double rounds,
  tags of 2 bytes over the field of 1,021 elements, and x and y up to 4 bytes over three
  values: a zero, one that is also a length, and the mark that padding adds (up to 2 bytes
  where they are hashed). Prefixes bring a message to the lengths at which SHA-256
  needs one block more, and a text of 2,040 bytes per byte of x brings the block counter of
  ChaCha20 to its end. What depends on the real constants, such as their rotations, is left
  to the published vectors in `tests/`.
* The curve y² = x³ + 474x² + x over 4,073 elements has the shape of Curve25519: cofactors
  8 and 4 on the curve and on its twist, and prime orders larger than any clamped scalar
  could be a multiple of. All points of small order, the base point, points of both large
  orders, and coordinates with the top bit set or not below the prime are among the public keys.

Deadlock is checked in `channel`. Elsewhere it is off because the models may stop: users
need not act, the counters are bounded, programs and calls end. Waiting that should not happen is
stated as a liveness property or, for `Chat`, as `ExactlyOneTurn`.

Every property has a mutant in `PROJECT.json`: a change of one definition, such as a dropped
guard or a swapped order, that makes it fail under the same bounds. `TypeOK` is checked in
`channel` only; in `Handshake`, `Chat`, `Transport` and the GUI programs it is proved.

### What was found

* **A gap after a refused send** (`transport_gap`). `encrypt_message` counts a message
  (channel.py:145) before `send_protected_message` refuses its size (transport.py:54).
  The GUI server keeps the session after a failed send (gui_server.py:510-513), so its
  next message skips a number and the client drops the connection. The GUI client ends
  the session, and the command line programs end, so they leave no gap. `transport` shows
  that such a gap is the only way to a refusal (`RefusedOnlyAfterGap`).
* **Two clients at once** (`gui_server_two`). Stop enables Start at once, but a worker in
  `accept` goes on (closing the listening socket in another thread does not end it on
  Linux). After Start on another port `server_running` is set again, and the
  old worker takes it for its own (gui_server.py:386).

No document speaks against the following, hence no findings; the properties name them as
their exceptions:

* `stale_refresh`: a late callback of an old connection enables Connect during the next
  attempt, and a second attempt can then overwrite the first one's socket. It is the
  `_update_controls` of an old send (gui_client.py:482), or a `connection_completed` that comes
  late: an Enter pressed between gui_client.py:402 and 408 starts a send, the send fails and
  ends the connection, the user connects again, and only then the first worker posts its callback.
* An altered length in the handshake: both sides of the command line programs may wait in
  `receive_exact` for bytes that nobody sends (socket_handshake.py:63-69; they set no timeout).
  `EveryCallEnds` excepts a run in which a length was altered, and only as long as neither side
  has failed: then the other ends too.
* `early_send`: Enter sends before `connection_completed` has run (gui_client.py:389), and
  the status ends with whichever of the two came last. The buttons and `connected` are right
  all the same: `WindowTellsTheTruth` excepts the status only.
* `failed`: after a failed send the GUI client closes a socket in which its own
  `receive_loop` is blocked, without shutting it down (gui_client.py:535). On Linux the server
  is not told, and keeps the session until it sends or the client exits. `WindowsAgree` excepts
  only that moment: a failed connection on which `receive_loop` is still blocked.
* `missed_client`: a Stop between gui_server.py:386 and 389 finds no connection to close.
* `hasty`: Start is clicked before the last run has ended.
* The two windows can disagree for good, because of `hasty` or `stale_refresh` (the exceptions
  of `WindowsAgree`). Hasty: the next run has stored its listening socket when the `finish_server`
  of the last one comes, which is ignored (gui_server.py:551), so `client_connected` of a session that has
  ended stays set. Stale: a late `_update_controls` enables Connect during a second attempt, a
  third is started, and the failure of the second clears `connected` while the third is in its session.
  TLC finds both when the exception is dropped, the first with two runs and one Stop, the second
  with three connections.
* `finish_server(None)`: a run whose `socket()` failed posts `finish_server` with no socket, which
  the guard of gui_server.py:551 takes for the current one. If the user starts again before that
  callback runs, it winds up the later run (the exception of `WoundUpForCause`).
* A refused `bind`: its callback is taken for a stale one (gui_server.py:551), and the window
  stays in STARTING.
* STOPPING lasts until a client connects if the server was still waiting for one.

## 4. Fairness

Fairness is only on what the code and the system do by themselves: a thread that can go on
does, the Tk main loop runs posted callbacks, a lock that is free is taken by a thread that waits for
it. It is never on a user (clicks, lines, closing a window), on the network's interference, or
on the peer of a GUI program. In detail:

* `sendall` ends: the peer reads or the connection breaks. The GUI client's connect and
  handshake end: `settimeout(8)`. A `recv` on a socket that was shut down ends.
* `Handshake`: `WF(HandshakeStep)` says that a side that can send or receive does. It says nothing of
  a side that `Misread` has left waiting for more bytes (`framing[s] = "drained"`) until some come or the peer fails. A peer
  that stays silent without closing is outside of it, and the code has no timeout on the
  server's side (in `GuiServer` the handshake need not end).
* `GuiClient`, `GuiServer`: `OwnFairness` is about the program's own threads and callbacks. A
  server never has to accept a client, to get a message, or to finish a handshake.
* `GuiSession` adds `ClientHears` and `ServerHears`: TCP delivers what was sent, and the end
  of the stream where the system tells of it, to a thread that reads.

## 5. What is proved

Eight modules hold proofs about a model, each for every value of its constants. In most, the properties
are not inductive as they stand; `IInv` is the strengthening, checked by TLC on the small instances
before it was proved.

**ChannelProofs**, for every number of sequence numbers, every nonce width that holds them, every
set of texts, any two nonce bases and any two different keys: `TypesHold` (`TypeOK`), `OrderHolds`
(`ReceivedInOrder`), `NoncesUnique` (`NonceNeverReused`), `RejectionIsHarmless`
(`NextGenuineAccepted`) and `LinkImplemented` (the refinement of `SecureLink`). `IInv` adds two facts.
`CountInv`: `send_sequence[s] = Len(sent[s])` and `receive_sequence[s] = Len(received[s])`.
`SealedInv`: every member of `sealed` is a message of some `s` under the key of `s` and the nonce of its
number. From it, a tag that verifies was computed over that very header and ciphertext with the
peer's key; keys tell the sides apart (`KeyIdentifiesSide`); the header holds the number the receiver
expects; so the message is the peer's next (`AcceptedIsNext`). Nonces are unique because XOR
with the base is injective (`NonceInjective`) and each number is used once. An accepted message is
one `Deliver` of `SecureLink`, an encrypted one a `Send`, anything else a stutter. Assumptions, all
named in `Channel`: the bounds are naturals; the two send keys differ and none is the damaged one
(`ChannelsMatch` of `Handshake` justifies it); message types are naturals; the sequence number fits
the nonce (8 bytes in 12).

**HandshakeProofs**, for every set of configurations, versions and identities and any number of
disturbances: `TypesHold`, `AuthenticationHolds`, `ServerIsFirst` (`ServerVerifiedFirst`) and
`ChannelsAlwaysMatch` (`ChannelsMatch`). `IInv` has three parts. `CountInv`: how many fields a side has read, and at
least how many are on their way or read at the other end, at each step of its script. `KindInv`: whatever the network
does, the fourth field is garbage or the tag of a side that has sent its own. `CheckedInv`: a side
that has gone past a check has passed it, and a channel that was returned is the one derived. The argument is
`AcceptedTag`: an accepted tag carries the peer's label, so it is the tag the peer computed from its
own PSK and transcript, after it had accepted the side's hello; equal tags have equal PSKs and transcripts, and
`EqualTranscripts` reads the identities and keys off them. The work is in showing that `KindInv`
survives every step (`KindsGrow`: what could be a field remains one, because nothing that was read
changes and no tag is taken back). Behind an altered length `CountInv` no
longer knows what is on its way, and any value of a field's kind may be read, which `KindInv` allows for. Assumptions: the arguments of the sides are of the declared
sets, and the bound is a natural.

**ChatProofs**, for every set of texts and any number of lines and faults: `TypesHold`, `TurnsAlternate`
(`ExactlyOneTurn`), `QuitEndsBoth` (`QuitIsClean`) and `ChatImplementsLink` (the refinement of
`SecureLink`). The two loops hand one token to each other: the user whose turn it is has it, or the
message in flight does. `OneToken` says that there is at most one, `TokenKept` that there is one while both
run, `WireInv` that what was typed is what was printed plus the line in flight, `CleanInv` that a
program which has left without a fault has told the other. One token is why closing a socket
after CLOSE never resets the connection: there is nothing unread.

**TransportProofs**, for any number of senders, any packet sizes, prefix size, limit and stream
capacity: `TypesHold` (`TypeOK`) and `NothingRefused` (`RefusedOnlyAfterGap`). All the bytes
ever given to `sendall` form one string in which the frames stand one behind the other (`IsLayout`: where
each ends). `StreamInv` says at which place of it the receiver is (`Position`), that the bytes it holds and those on
their way are those of the string from there on (`Carries`), and that each sender still has to hand over exactly
what is missing (`SentInv`). So the four bytes read as a length are the prefix of
one frame, the number read from them is the length of its packet, and the packet is whole;
its sequence number is the expected one unless an earlier message was counted and refused.

**EncodingProofs**, for any sizes of the fields, any messages and any byte string:
`EncodingCorrect` (`BytesNameOneMessage`). `IInv` only says that the bytes stay bytes. The content is in
four lemmas: `PacketsComeBack` and `HeadersComeBack` (what is encoded is parsed back: each field
is the slice between where it begins and ends, `NextPart`), and `PacketsNameTheirBytes` and
`HeadersNameTheirBytes` (what is accepted is its own encoding: the slices cut from a byte string
join to it, `NextCut`, `LastCut`, and a number read from n bytes is written as those n bytes). They hold
of the functions, so of the code's 1, 2, 4 and 8 byte fields too.

The same module proves the properties of `Layouts`, for any sizes of bytes, words, fields and
padding, and byte strings of any length:

* `FieldsAreBound` (`TranscriptBindsFields`): equal transcripts have equal identities, in their
  roles, and equal public keys. It follows from `TranscriptsBindFields`, which says so of any fields
  that are short enough for their length to be written: the length in front of each field says
  where it ends (`FieldIsBound`). This is why `Handshake` may treat a transcript as the record of its
  fields, as `EqualTranscripts` does.
* `PaddingNeverNests` (`PaddedMessagesNeverNest`): a padded message fills whole blocks and is
  the end of no other. A suffix of a padded message ends with the same length field, so the two messages have the
  same length, so they were filled up with as many zeros (`PaddedFacts`: how many); what remains in
  front is the messages themselves (`PaddedEnds`). `RemainderFacts` and `NoRemainder` are what is needed of `%`,
  which the solver knows for literals only.
* `SplitIsCovered` (`TagCoversTheSplit`): the two lengths at the end say how the bytes in front of them
  divide into additional data, ciphertext and zeros (`MacDataBinds`).

`LaidOutInv` says that x and y are byte strings within their bound; with `LengthsFit`, which the code
enforces by raising, this is what makes every length fit the bytes it is given.

`TransportProofs` and `EncodingProofs` rest on one assumption about the conversions of Python,
`Converts` in `Bytes`: `to_bytes` of a
number that fits has the asked length and `from_bytes` inverts it, and the other way round. It
follows by induction over the digits, which is out of the provers' reach; TLC evaluates it for the
instances. The other assumptions: sizes are positive naturals; the packet limit fits the prefix (2^20 in
4 bytes); messages pass the checks of `build_header` and `serialize_packet`, from senders whose names
are text, as `sender_id.encode` yields; a block of SHA-256 has room for the length of a message.

**GuiClientProofs**, for any number of connections, sends and disconnects: `MatchHolds`
(`SocketAndChannelMatch`), `NoLeak` (`NoSocketLeaks`), `WindowTrue` (`WindowTellsTheTruth`) and
`EndsForCause` (`TornDownForCause`, an action property). `CauseInv`: whoever asks for the end of a connection has a
reason that stays one. `FreshInv`, unless a late callback has misled the user: while an attempt is under way nobody
else touches the attributes (`AttemptInv`), and every task and callback that acts for a
connection came after its attempt was over (`OwnerInv`), so that socket and channel read one
after the other belong together. `WindowInv`: `connection_completed` is the first that is heard of a
connection (`NewsInv`), and for each status, either the window shows what is so or something is
pending that will make it so (`StatusInv`). `ButtonInv`, inductive relative to the others, is that part for the
buttons and `connected`, which holds after an early send too. `DeadInv`: after the process ends nothing moves.

**GuiServerProofs**, for any number of runs, sends and stops: `MatchHolds`
(`ConnectionAndChannelMatch`), `NobodyServed` (`StoppedServesNobody`), `WindowTrue`
(`WindowTellsTheTruth`) and `EndsForCause` (`WoundUpForCause`, an action property). `CauseInv` and `ButtonsInv` do not depend
on the user's patience: they are what makes a wind-up have a cause even when runs overlap. `PatientInv`
holds unless Start was clicked before the last run had ended: there is one live worker
(`RunInv`), the attributes are what its place in the code says (`AttributesInv`), its callbacks wait in the
order `server_started`, `handshake_completed`, `finish_server` (`QueueInv`), and the status follows
(`StatusInv`). `ServeInv`: a client the stopped server still has is one that a Stop is putting an end to.
`EndsForCause` is for any number of overlapping runs: a `finish_server` that names a socket names that of a
run whose worker has ended, and the only one that names none comes from a `socket()` that failed; it
ends a run that is not over only after a hasty start.

The work on the GUI client's invariant is what uncovered the late `connection_completed` of
section 3: `FreshInv` was not inductive without it.

Both modules end with a second invariant, `EndInv`, inductive relative to `IInv`: how a session
ends, as far as the other program gets to know of it. Of the client: a connection is closed only when
nobody reads it any more, a send on it has failed, or it was shut down first; a reading thread
has the current connection unless that connection failed or was shut down; and as long as the attributes
hold a connection that nobody reads, `finish_disconnect` is pending. Of the server: a run that is
over has no connection open, and a worker that reads after Stop has a `stop_worker` coming.

**GuiSessionProofs**, for any number of connections, runs, messages and clicks:
`ImplementsClient` and `ImplementsServer`, the refinement of `GuiClient` and `GuiServer` by the composed
system, fairness included: every step of it is a step or a stutter of each program, and a fair program in
company is fair alone. So what holds of every behaviour of one program alone,
liveness included, holds when it talks to the other. `SameClient` and `SameServer` identify the programs named in `GuiSession` with
those the two proof modules are about, so that `IInv` and `EndInv` of both hold here (`BothAlways`).

`Agreement` (`WindowsAgree`) adds `LinkInv`, what one program may conclude about the other: a client whose
handshake has succeeded, or to which its last message is on the way, is on a connection that a run accepted and
answered, and a run that has accepted is the run of some connection. At rest, a client
that is connected has a thread that reads, of a stream whose other end is open; so the run at
that end has not ended and is the current one, and `client_connected` is set (`ConnectedServed`). The other way round, a run
in its session reads from a connection whose client has not gone; so a thread of the client reads it,
and it is the current connection (`ServedConnected`).

The first statement of `WindowsAgree` named a failed send as its only exception. The proof attempt did not
get past `hasty` and `stale_refresh`, for which TLC then found the two behaviours of section 3.

The assumptions of the three GUI modules are that the bounds are naturals and `None` is no number.

Only model-checked, and why:

* All liveness (`CompatibleSidesMeet`, `EveryCallEnds`, `NobodyWaitsForTheGone`, `EverySendEnds`,
  `SentIsReceived`, `NothingStaysPending`, `StopEndsSession`, `SessionsEndTogether`): beyond the prover.
* `MixingIsReversible`, `KeysAreFresh`, `TagsRarelyCollide` and `KeystreamUsedOnce` of `Primitives`: what
  the rounds, HMAC, HKDF, ChaCha20 and Poly1305 compute is a fold over data, which needs induction, and their
  XORs come from `Bitwise`, which the prover does not read.
* The invariants of `X25519`: they need the group law of the curve, and a recursive reference
  (adding points one by one) that only TLC uses.

## 6. What is not modelled, and why

* **The strength of the primitives.** That a tag, a digest or a shared secret cannot be guessed
  is assumed by the symbolic models; the small-width ones show structure (injectivity,
  reversibility, freshness, agreement), not strength.
* **The real constants** (2^255 - 19, the SHA-256 tables, the rotations): the instances are small;
  `tests/` compares the code with published vectors.
* **Comparison in constant time and hexadecimal output**: a comparison of tags is equality.
* **Boundaries only the functions have**: the AEAD hands Poly1305 whole blocks, so the short last block in
  `TagsRarelyCollide` is a property of `poly1305_mac` on its own. `SecretsAgree` is about two keys made by
  `create_ephemeral_keypair`; other coordinates are in `LadderFollowsMultiples`. `MixingIsReversible` compares the
  mixing with a fixed inverse.
* **PSKs** that differ in zeros at their end are one HMAC key. `KeysAreFresh` says so; the PSKs of
  `Handshake` stand for keys that differ after that normalisation.
* A version mismatch is two programs of different releases: `PROTOCOL_VERSION` is a constant of each.
* **Windows**: building the widgets, logs, previews, the chat area, the entry fields (enabled
  and disabled with Connect and Start), `read_psk`, and the button that starts pytest in a
  subprocess. None of them touches the state of a connection.
* **The accept backlog**: a client that connects and leaves before it is accepted is in
  `GuiServer` an accepted connection that fails; in `GuiSession` a connection is accepted while
  the client is still connecting.
* Several clients at one command line server: it accepts once.

## 7. How it was built, and what could follow

In this order: `Channel` with `SecureLink` and its proofs, `Handshake`, `Transport`, `Chat`,
`GuiClient`, `GuiServer`, `Encoding` and `Transcript`; then the primitives and the curve,
`GuiSession`, and the proofs about `Chat` and `Handshake`; then the proofs about the GUI
programs, the transport, the encodings and the layouts, and at last about the two GUI programs together.

What could follow: a larger `gui_session`, with a second connection after the first.
`WindowsAgree` and the theorems about the programs hold there, and TLC has checked `WindowsAgree` with
one connection, two runs, a task and a Stop (10.4 million states) and with two connections, one run and
one task each (991,000 states); `SessionsEndTogether`, which only TLC can check, takes too long
beyond one connection, and passed with two runs and one Stop (718,121 states).
