----------------------------- MODULE GuiSession -----------------------------
(***************************************************************************)
(* The two GUI programs on one network: GuiClient and GuiServer composed.  *)
(* Each program takes its own steps; what one of them receives is now what *)
(* the other has sent.  A connection carries, after the handshake, chat and*)
(* CLOSE messages in order, and then the end of the stream.                *)
(*                                                                         *)
(* The handshake is two events here: the server sends its last message     *)
(* ("finished", HandshakeSucceeds) and the client reads it.  It may also   *)
(* fail at either end: another PSK, a timeout, a connection that breaks.   *)
(***************************************************************************)
EXTENDS Naturals, Sequences, FiniteSets

CONSTANTS MaxConnections, MaxRuns,        \* bounds: clicks on Connect and on Start
          MaxClientTasks, MaxServerTasks, \* bounds: messages, Disconnect and Stop
          None

ASSUME GuiSessionAssumption ==
    /\ {MaxConnections, MaxRuns, MaxClientTasks, MaxServerTasks} \subseteq Nat
    /\ None \notin Nat

VARIABLES c_app, c_window, c_callbacks, c_thread, c_task, c_send_lock, c_socket,
          c_destroyed, c_history,
          s_app, s_window, s_callbacks, s_worker, s_task, s_send_lock,
          s_listener, s_connection, s_destroyed, s_history,
          run,        \* run[i]: the server's run that accepted connection i
          to_server,  \* to_server[i], to_client[i]: on the way on connection i
          to_client

C == INSTANCE GuiClient WITH
        MaxTasks <- MaxClientTasks, app <- c_app, window <- c_window,
        callbacks <- c_callbacks, thread <- c_thread, task <- c_task,
        send_lock <- c_send_lock, socket <- c_socket, destroyed <- c_destroyed,
        history <- c_history
S == INSTANCE GuiServer WITH
        MaxTasks <- MaxServerTasks, MaxHasty <- MaxServerTasks, app <- s_app,
        window <- s_window, callbacks <- s_callbacks, worker <- s_worker,
        task <- s_task, send_lock <- s_send_lock, listener <- s_listener,
        connection <- s_connection, destroyed <- s_destroyed, history <- s_history

client == <<c_app, c_window, c_callbacks, c_thread, c_task, c_send_lock, c_socket,
            c_destroyed, c_history>>
server == <<s_app, s_window, s_callbacks, s_worker, s_task, s_send_lock,
            s_listener, s_connection, s_destroyed, s_history>>
wires == <<to_server, to_client>>
vars == <<client, server, run, wires>>

Init ==
    /\ C!Init /\ S!Init
    /\ run = [i \in C!Connections |-> None]
    /\ to_server = [i \in C!Connections |-> << >>]
    /\ to_client = [i \in C!Connections |-> << >>]
-----------------------------------------------------------------------------
(* The end of the stream.  A socket that a thread closes while another is  *)
(* blocked in recv on it lives on in the kernel: the peer is told of its   *)
(* end only when that recv returns (gui_client.py:535), unless the socket  *)
(* is shut down first (gui_client.py:520, gui_server.py:537).              *)
ClientGone(i) ==
    \/ c_socket[i] = "shut"
    \/ c_socket[i] = "closed" /\ c_thread[i] # "receive"
ServerGone(i) == run[i] # None /\ s_connection[run[i]] \in {"closed", "shut"}

Sent(wire, i, type) == wire' = [wire EXCEPT ![i] = Append(@, type)]
Takes(wire, i, type) ==
    wire[i] # << >> /\ Head(wire[i]) = type /\ wire' = [wire EXCEPT ![i] = Tail(@)]
ConnectionOf(r) == CHOOSE i \in C!Connections : run[i] = r

(* The client's side of connection i.                                      *)
Connects(i) ==
    \/ C!ConnectSucceeds(i) /\ Takes(to_client, i, "finished")
    \/ C!ConnectFails(i) /\ UNCHANGED to_client
ClientReads(i) ==
    \/ \E type \in {"chat", "close"} :
          C!ReceiveMessage(i, type) /\ Takes(to_client, i, type)
    \/ C!ReceiveRaises(i) /\ UNCHANGED to_client
ClientSends(k) ==
    \/ /\ C!SendReturns(k)
       /\ Sent(to_server, c_task[k].socket,
               IF c_task[k].kind = "send" THEN "chat" ELSE "close")
    \/ C!SendRaises(k) /\ UNCHANGED to_server

(* The server's side of the connection that run r accepted.                *)
Accepts(r) ==
    \/ \E i \in C!Connections :
          /\ c_thread[i] = "connecting" /\ run[i] = None
          /\ S!Accept(r)
          /\ run' = [run EXCEPT ![i] = r]
    \/ S!AcceptFails(r) /\ UNCHANGED run
HandshakeSucceeds(r) ==
    S!HandshakeSucceeds(r) /\ Sent(to_client, ConnectionOf(r), "finished")
ServerReads(r) ==
    \/ \E type \in {"chat", "close"} :
          S!ReceiveMessage(r, type) /\ Takes(to_server, ConnectionOf(r), type)
    \/ S!ReceiveRaises(r) /\ UNCHANGED to_server
    \/ S!HandshakeFails(r) /\ UNCHANGED to_server
ServerSends(k) ==
    \/ /\ S!SendReturns(k)
       /\ Sent(to_client, ConnectionOf(s_task[k].connection),
               IF s_task[k].kind = "send" THEN "chat" ELSE "close")
    \/ S!SendRaises(k) /\ UNCHANGED to_client

ClientStep ==
    /\ ~c_destroyed
    /\ \/ C!OwnStep /\ UNCHANGED wires
       \/ \E i \in C!Connections :
             (Connects(i) \/ ClientReads(i)) /\ UNCHANGED to_server
       \/ \E k \in C!Tasks : ClientSends(k) /\ UNCHANGED to_client
    /\ UNCHANGED <<server, run>>
ServerStep ==
    /\ ~s_destroyed
    /\ \/ S!OwnStep /\ UNCHANGED <<wires, run>>
       \/ \E r \in S!Runs :
             \/ Accepts(r) /\ UNCHANGED wires
             \/ HandshakeSucceeds(r) /\ UNCHANGED <<to_server, run>>
             \/ ServerReads(r) /\ UNCHANGED <<to_client, run>>
       \/ \E k \in S!Tasks : ServerSends(k) /\ UNCHANGED <<to_server, run>>
    /\ UNCHANGED client

Next == ClientStep \/ ServerStep

(* Besides the fairness of the two programs: what has been sent is         *)
(* received, and so is the end of the stream.                              *)
ClientHears(i) ==
    /\ to_client[i] # << >> \/ ServerGone(i)
    /\ ~c_destroyed /\ ClientReads(i) /\ UNCHANGED <<server, run, to_server>>
ServerHears(r) ==
    /\ \E i \in C!Connections : run[i] = r /\ (to_server[i] # << >> \/ ClientGone(i))
    /\ ~s_destroyed /\ ServerReads(r) /\ UNCHANGED <<client, run, to_client>>
Spec ==
    /\ Init /\ [][Next]_vars
    /\ C!OwnFairness /\ S!OwnFairness
    /\ \A i \in C!Connections : WF_vars(ClientHears(i))
    /\ \A r \in S!Runs : WF_vars(ServerHears(r))
-----------------------------------------------------------------------------
(* When both programs are at rest and nothing is on the way between them,  *)
(* the two windows agree on whether they are connected, however the last   *)
(* session ended and whoever ended it.  The exceptions: a failed send of   *)
(* the client has closed a socket that receive_loop goes on reading        *)
(* (gui_client.py:480 and 535); a late callback of the client let the user *)
(* connect twice at once (gui_client.py:482 and 408); or the server was    *)
(* started again before its last run had ended (gui_server.py:521 and 551).*)
AtRest ==
    /\ C!Quiet /\ S!Quiet
    /\ \A i \in C!Connections :
          /\ c_thread[i] = "receive" => to_client[i] = << >> /\ ~ServerGone(i)
          /\ (run[i] # None /\ s_worker[run[i]] \in {"handshake", "receive"}) =>
                to_server[i] = << >> /\ ~ClientGone(i)
WindowsAgree ==
    (/\ AtRest /\ ~c_history.stale_refresh /\ ~s_history.hasty
     /\ \A i \in c_history.failed : c_thread[i] # "receive")
    => c_app.connected = s_app.client_connected

(* Whichever side ends a session, the other one ends it too: after CLOSE,  *)
(* after an error, after a program is closed, or after a handshake that    *)
(* only one side completed (gui_client.py:513-524, gui_server.py:423-434). *)
ClientLeft(i) == c_socket[i] \in {"closed", "shut"}
ServerEnded(i) == run[i] # None => s_worker[run[i]] = "done"
ServerLeft(i) == run[i] # None /\ (ServerGone(i) \/ ServerEnded(i))
SessionsEndTogether ==
    \A i \in C!Connections :
        /\ ServerLeft(i) ~> c_thread[i] = "done"
        /\ ClientLeft(i) ~> (ServerEnded(i) \/ i \in c_history.failed)
=============================================================================
