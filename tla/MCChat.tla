------------------------------- MODULE MCChat -------------------------------
(* Two different lines and one that cannot be sent; each user types up to  *)
(* three, and up to two things go wrong.                                   *)
EXTENDS Chat
=============================================================================
