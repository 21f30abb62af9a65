---------------------------- MODULE MCTransport ----------------------------
(* Packets of one and two bytes and, in the runs about them, a packet over *)
(* the limit; a two-byte length prefix; a stream shorter than one message. *)
EXTENDS Transport
=============================================================================
