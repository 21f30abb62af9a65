----------------------------- MODULE Transcript -----------------------------
(***************************************************************************)
(* The bytes that the handshake tags and the session keys are computed     *)
(* from: _encode_field and build_transcript of protocol/handshake.py.      *)
(* Handshake treats a transcript as the record of its fields; that is      *)
(* right if different fields never give the same bytes.                    *)
(***************************************************************************)
EXTENDS Bytes

CONSTANTS
    FIELD_LENGTH_SIZE,  \* 2 in the code
    KEY_SIZE,           \* bytes of a public key, 32 in the code
    VERSION_TEXT        \* its PROTOCOL_VERSION, b"SecureChannel-v1"

ASSUME TranscriptAssumption == KEY_SIZE < Base^FIELD_LENGTH_SIZE

EncodeWithoutLength(value) == value
EncodeField(value) == ToBytes(Len(value), FIELD_LENGTH_SIZE) \o value

BuildTranscript(client_id, server_id, client_public_key, server_public_key) ==
    EncodeField(VERSION_TEXT) \o EncodeField(client_id) \o EncodeField(server_id)
      \o EncodeField(client_public_key) \o EncodeField(server_public_key)
=============================================================================
