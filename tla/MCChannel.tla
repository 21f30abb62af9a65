----------------------------- MODULE MCChannel -----------------------------
(* Three sequence numbers per direction; both directions share one nonce   *)
(* base, so that only the keys keep their nonces apart.                    *)
EXTENDS Channel

MCSendKey == [s \in Side |-> s]
MCNonceBase == [s \in Side |-> [i \in 1..NonceBits |-> i % 2]]
=============================================================================
