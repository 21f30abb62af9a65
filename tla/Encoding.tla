------------------------------ MODULE Encoding ------------------------------
(***************************************************************************)
(* The bytes of a message: the header of protocol/message.py and the       *)
(* packet of protocol/packet.py.                                           *)
(*                                                                         *)
(* One message is encoded, its bytes are altered on their way, and the     *)
(* receiver parses what arrives.  A byte is a digit of base Base and the   *)
(* fields are shorter than in the code; their order, the bounds and the    *)
(* checks are those of the code.  Channel takes for granted what is        *)
(* checked here: that bytes determine the message and the other way round. *)
(***************************************************************************)
EXTENDS Bytes

CONSTANTS
    PROTOCOL_VERSION,     \* 1 in the code
    SENDER_LENGTH_SIZE,   \* 2 in the code
    SEQUENCE_SIZE,        \* 8 in the code
    LENGTH_FIELD_SIZE,    \* 4 in the code
    TAG_SIZE,             \* 16 in the code
    NotText,              \* bytes that decode("utf-8") refuses
    Messages,             \* the messages sent
    MaxAlterations        \* bound: bytes changed, cut off or added

ASSUME SizesAssumption ==
    /\ PROTOCOL_VERSION \in Byte
    /\ {SENDER_LENGTH_SIZE, SEQUENCE_SIZE, LENGTH_FIELD_SIZE, TAG_SIZE} \subseteq Nat \ {0}
    /\ \A size \in {SENDER_LENGTH_SIZE, SEQUENCE_SIZE, LENGTH_FIELD_SIZE} : Converts(size)

VARIABLES message, bytes, alterations
vars == <<message, bytes, alterations>>

Rejected == [rejected |-> TRUE]
-----------------------------------------------------------------------------
(* build_header and parse_header.                                          *)
SEQUENCE_START == 2 + SENDER_LENGTH_SIZE
FIXED_HEADER_SIZE == SEQUENCE_START + SEQUENCE_SIZE

HeaderBuilds(m) ==
    /\ m.message_type \in Byte
    /\ m.sequence_number \in 0..Base^SEQUENCE_SIZE - 1
    /\ m.sender_id # << >> /\ Len(m.sender_id) \in 0..Base^SENDER_LENGTH_SIZE - 1
BuildHeader(m) ==
    <<PROTOCOL_VERSION, m.message_type>>
      \o ToBytes(Len(m.sender_id), SENDER_LENGTH_SIZE)
      \o ToBytes(m.sequence_number, SEQUENCE_SIZE)
      \o m.sender_id

SenderLength(h) == FromBytes(Slice(h, 2, SEQUENCE_START))
AnyHeaderLength(h) == TRUE
HeaderLengthIsCorrect(h) == Len(h) = FIXED_HEADER_SIZE + SenderLength(h)
HeaderParses(h) ==
    /\ Len(h) >= FIXED_HEADER_SIZE
    /\ h[1] = PROTOCOL_VERSION
    /\ HeaderLengthIsCorrect(h)
    /\ LET sender == From(h, FIXED_HEADER_SIZE) IN
       sender # << >> /\ Range(sender) \cap NotText = {}
ParseHeader(h) ==
    IF ~HeaderParses(h) THEN Rejected
    ELSE [message_type    |-> h[2],
          sender_id       |-> From(h, FIXED_HEADER_SIZE),
          sequence_number |-> FromBytes(Slice(h, SEQUENCE_START, FIXED_HEADER_SIZE))]

(* serialize_packet and parse_packet.                                      *)
PACKET_PREFIX_SIZE == 2 * LENGTH_FIELD_SIZE

PacketSerializes(p) ==
    /\ p.header # << >> /\ Len(p.tag) = TAG_SIZE
    /\ {Len(p.header), Len(p.ciphertext)} \subseteq 0..Base^LENGTH_FIELD_SIZE - 1
SerializePacket(p) ==
    ToBytes(Len(p.header), LENGTH_FIELD_SIZE)
      \o ToBytes(Len(p.ciphertext), LENGTH_FIELD_SIZE)
      \o p.header \o p.ciphertext \o p.tag

HeaderEnd(b) == PACKET_PREFIX_SIZE + FromBytes(Slice(b, 0, LENGTH_FIELD_SIZE))
CiphertextEnd(b) ==
    HeaderEnd(b) + FromBytes(Slice(b, LENGTH_FIELD_SIZE, PACKET_PREFIX_SIZE))
PacketLongEnough(b) == Len(b) >= CiphertextEnd(b) + TAG_SIZE
PacketLengthIsCorrect(b) == Len(b) = CiphertextEnd(b) + TAG_SIZE
ParsePacket(b) ==
    LET header == Slice(b, PACKET_PREFIX_SIZE, HeaderEnd(b)) IN
    IF \/ Len(b) < PACKET_PREFIX_SIZE + TAG_SIZE
       \/ ~PacketLengthIsCorrect(b)
       \/ header = << >>
    THEN Rejected
    ELSE [header     |-> header,
          ciphertext |-> Slice(b, HeaderEnd(b), CiphertextEnd(b)),
          tag        |-> From(b, CiphertextEnd(b))]
-----------------------------------------------------------------------------
Packet(m) == [header |-> BuildHeader(m), ciphertext |-> m.ciphertext, tag |-> m.tag]
Fields(m) == [message_type |-> m.message_type, sender_id |-> m.sender_id,
              sequence_number |-> m.sequence_number]

(* The messages are those that build_header and serialize_packet let       *)
(* through, from senders whose names are text.                             *)
ASSUME MessagesAssumption ==
    \A m \in Messages :
        /\ {m.sender_id, m.ciphertext, m.tag} \subseteq Seq(Byte)
        /\ HeaderBuilds(m) /\ PacketSerializes(Packet(m))
        /\ Range(m.sender_id) \cap NotText = {}

Init ==
    /\ message \in Messages
    /\ bytes = SerializePacket(Packet(message))
    /\ alterations = 0

Altered(b) ==
    {[b EXCEPT ![i] = d] : i \in DOMAIN b, d \in Byte}
      \cup {SubSeq(b, 1, n) : n \in 0..Len(b) - 1}
      \cup {Append(b, d) : d \in Byte}
Alter ==
    /\ alterations < MaxAlterations
    /\ bytes' \in Altered(bytes)
    /\ alterations' = alterations + 1
    /\ UNCHANGED message

Next == Alter
Spec == Init /\ [][Next]_vars
-----------------------------------------------------------------------------
Parsed == ParsePacket(bytes)

(* Byte strings and messages correspond: what was encoded is parsed back   *)
(* to the same message, whatever its lengths, and every byte string that   *)
(* parse_packet accepts is the encoding of what it returns, its header the *)
(* encoding of the fields that are acted on.  Nothing is cut off, padded   *)
(* or ignored on the way (message.py:38-119, packet.py:18-95).             *)
BytesNameOneMessage ==
    /\ bytes = SerializePacket(Packet(message)) =>
          Parsed = Packet(message) /\ ParseHeader(Parsed.header) = Fields(message)
    /\ Parsed # Rejected =>
          /\ PacketSerializes(Parsed) /\ SerializePacket(Parsed) = bytes
          /\ ParseHeader(Parsed.header) # Rejected =>
                BuildHeader(ParseHeader(Parsed.header)) = Parsed.header
=============================================================================
