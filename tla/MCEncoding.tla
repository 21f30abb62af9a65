----------------------------- MODULE MCEncoding -----------------------------
(* Bytes of base 4, length fields of two bytes in packets and of one in    *)
(* headers, a sequence number of two.  Any two alterations: one can change *)
(* a length while the other adds or cuts off a byte.                       *)
EXTENDS Encoding

MCMessages ==
    [message_type : {1}, sender_id : {<<1>>, <<1, 0>>},
     sequence_number : {0, 6}, ciphertext : {<< >>, <<0>>, <<0, 2>>},
     tag : {<<0, 1>>}]
=============================================================================
