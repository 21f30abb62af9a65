----------------------------- MODULE SecureLink -----------------------------
(***************************************************************************)
(* What a pair of SecureChannel objects promises its two users, whatever   *)
(* the transport between them does: a conversation in which each side sees *)
(* a prefix of what the other side said, in the order it was said, every   *)
(* message once and unchanged.  Nothing is promised about how much of the  *)
(* other side's conversation arrives.                                      *)
(*                                                                         *)
(* Channel implements this specification with sequence numbers and         *)
(* authenticated encryption (Channel!ImplementsSecureLink).                *)
(***************************************************************************)
EXTENDS Naturals, Sequences

CONSTANTS Content    \* what one message says: its type and its text

VARIABLES sent,      \* sent[s]: what side s has said, in order
          received   \* received[s]: what side s has been given, in order

linkVars == <<sent, received>>

Side == {"client", "server"}
Peer(s) == IF s = "client" THEN "server" ELSE "client"

LinkInit ==
    /\ sent = [s \in Side |-> << >>]
    /\ received = [s \in Side |-> << >>]

Send(s, c) ==
    /\ sent' = [sent EXCEPT ![s] = Append(@, c)]
    /\ UNCHANGED received

Deliver(s) ==
    /\ Len(received[s]) < Len(sent[Peer(s)])
    /\ received' = [received EXCEPT
                      ![s] = Append(@, sent[Peer(s)][Len(received[s]) + 1])]
    /\ UNCHANGED sent

LinkNext ==
    \E s \in Side : Deliver(s) \/ \E c \in Content : Send(s, c)

LinkSpec == LinkInit /\ [][LinkNext]_linkVars
=============================================================================
