----------------------------- MODULE GuiClient -----------------------------
(***************************************************************************)
(* The threads of apps/gui_client.py: the Tk main loop, which runs user    *)
(* events and the callbacks that other threads post with root.after(0, .), *)
(* one connect_worker, followed by a receive_loop, per click on Connect,   *)
(* one send_worker per message, one disconnect_worker per click on         *)
(* Disconnect.                                                             *)
(*                                                                         *)
(* Connections are numbered in the order of the clicks on Connect; number i*)
(* stands for the socket and for the SecureChannel made on it.  What the   *)
(* server does is arbitrary here and modelled in GuiSession.  Logging, the *)
(* chat area and the entry fields are left out; the fields are enabled and *)
(* disabled with the Connect button.                                       *)
(***************************************************************************)
EXTENDS Naturals, Sequences, FiniteSets

CONSTANTS
    MaxConnections,  \* bound: clicks on Connect
    MaxTasks,        \* bound: messages sent plus clicks on Disconnect
    None

ASSUME GuiClientAssumption ==
    MaxConnections \in Nat /\ MaxTasks \in Nat /\ None \notin Nat

Connections == 1..MaxConnections
Tasks == 1..MaxTasks

VARIABLES
    app,         \* attributes of the class: client_socket, channel, connected
    window,      \* status, and state of connect, send and disconnect button
    callbacks,   \* posted with root.after(0, .) and not yet run
    thread,      \* thread[i]: where connect_worker or receive_loop i is
    task,        \* task[k]: the k-th send_worker or disconnect_worker
    send_lock,   \* the task that holds it
    socket,      \* socket[i]: "open"; "closed"; "shut": shut down, then closed
    destroyed,   \* the window is closed and the process exits
    history      \* what happened: see Misleads, SendClicked and SendRaises

threads == <<thread, task, send_lock>>
vars == <<app, window, callbacks, threads, socket, destroyed, history>>

NoTask == [kind |-> "none", pc |-> "none", socket |-> None, channel |-> None]
Post(name, i) == callbacks' = Append(callbacks, [name |-> name, socket |-> i])

Connecting == {"connecting", "store_socket", "store_channel", "store_connected"}
NewConnections == {i \in Connections : thread[i] = "none"}
NewTasks == {k \in Tasks : task[k].kind = "none"}
First(S) == CHOOSE x \in S : \A y \in S : x <= y
Busy(k) == task[k].pc \notin {"none", "done"}

Window(online, status) == [connect |-> ~online, send |-> online,
                           disconnect |-> online, status |-> status]

Init ==
    /\ app = [client_socket |-> None, channel |-> None, connected |-> FALSE]
    /\ window = Window(FALSE, "OFFLINE")
    /\ callbacks = << >>
    /\ thread = [i \in Connections |-> "none"]
    /\ task = [k \in Tasks |-> NoTask]
    /\ send_lock = None
    /\ socket = [i \in Connections |-> "none"]
    /\ destroyed = FALSE
    /\ history = [stale_refresh |-> FALSE, early_send |-> FALSE, failed |-> {}]
-----------------------------------------------------------------------------
(* Events of the main loop.                                                *)
ConnectClicked ==
    /\ window.connect /\ NewConnections # {}
    /\ window' = [window EXCEPT !.connect = FALSE, !.status = "CONNECTING"]
    /\ thread' = [thread EXCEPT ![First(NewConnections)] = "connecting"]
    /\ UNCHANGED <<app, callbacks, task, send_lock, socket, destroyed, history>>

StartTask(kind) ==
    task' = [task EXCEPT ![First(NewTasks)] =
               [kind |-> kind, pc |-> "waiting",
                socket |-> app.client_socket, channel |-> app.channel]]

(* The Enter key reaches send_clicked whatever the state of the button,    *)
(* even before connection_completed has run: early_send remembers it.      *)
SendClicked ==
    /\ app.connected /\ NewTasks # {}
    /\ window' = [window EXCEPT !.send = FALSE]
    /\ StartTask("send")
    /\ history' = [history EXCEPT !.early_send = @ \/ window.status = "CONNECTING"]
    /\ UNCHANGED <<app, callbacks, thread, send_lock, socket, destroyed>>

DisconnectClicked ==
    /\ window.disconnect /\ app.connected /\ NewTasks # {}
    /\ window' = [window EXCEPT !.send = FALSE, !.disconnect = FALSE,
                                !.status = "DISCONNECTING"]
    /\ StartTask("disconnect")
    /\ UNCHANGED <<app, callbacks, thread, send_lock, socket, destroyed, history>>

(* connected is cleared, the socket closed and the window destroyed; with  *)
(* the main loop the process ends, and with it its (daemon) threads and    *)
(* whatever else it had open.                                              *)
CloseProgram ==
    /\ destroyed' = TRUE
    /\ app' = [app EXCEPT !.connected = FALSE]
    /\ socket' = [i \in Connections |-> "shut"]
    /\ thread' = [i \in Connections |-> "done"]
    /\ task' = [k \in Tasks |-> NoTask]
    /\ send_lock' = None
    /\ callbacks' = << >>
    /\ UNCHANGED <<window, history>>

(* Callbacks, each of them run to its end by the main loop.                *)
Runs(name) ==
    /\ callbacks # << >> /\ Head(callbacks).name = name
    /\ callbacks' = Tail(callbacks)
    /\ UNCHANGED <<threads, destroyed>>

(* A callback of an earlier connection finds the user connecting again and *)
(* makes a button clickable that should not be: stale_refresh remembers it.*)
Misleads(stale) == history' = [history EXCEPT !.stale_refresh = @ \/ stale]

(* It is late when a message sent with the Enter key has failed and ended  *)
(* the connection before connect_worker went on to post this callback.     *)
CompletedUnchecked ==
    /\ Runs("connection_completed")
    /\ window' = Window(TRUE, "SECURE")
    /\ Misleads(window.status = "CONNECTING" /\ ~app.connected)
    /\ UNCHANGED <<app, socket>>
ConnectionCompleted ==
    /\ Runs("connection_completed")
    /\ window' = Window(app.connected, "SECURE")
    /\ Misleads(window.status = "CONNECTING" /\ ~app.connected)
    /\ UNCHANGED <<app, socket>>

ConnectionFailed ==
    /\ Runs("connection_failed")
    /\ app' = [app EXCEPT !.connected = FALSE]
    /\ window' = Window(FALSE, "OFFLINE")
    /\ UNCHANGED <<socket, history>>

LeaveOpen(i) == socket
CloseSocket(i) == [socket EXCEPT ![i] = IF @ = "open" THEN "closed" ELSE @]
ShutDown(i) == [socket EXCEPT ![i] = IF @ = "open" THEN "shut" ELSE @]
AnySocket(i) == app.client_socket # None
CurrentSocket(i) == app.client_socket = i
FinishDisconnect ==
    /\ Runs("finish_disconnect")
    /\ LET i == Head(callbacks).socket IN
       \/ ~CurrentSocket(i) /\ UNCHANGED <<app, window, socket>>
       \/ /\ CurrentSocket(i)
          /\ app' = [client_socket |-> None, channel |-> None, connected |-> FALSE]
          /\ socket' = CloseSocket(app.client_socket)
          /\ window' = Window(FALSE, "OFFLINE")
    /\ UNCHANGED history

(* _update_controls posted by a send_worker, which may outlive its         *)
(* connection.                                                             *)
Refresh ==
    /\ Runs("_update_controls")
    /\ window' = Window(app.connected, window.status)
    /\ Misleads(window.status = "CONNECTING")
    /\ UNCHANGED <<app, socket>>

RunCallback == ConnectionCompleted \/ ConnectionFailed \/ FinishDisconnect \/ Refresh
-----------------------------------------------------------------------------
(* connect_worker: the socket timeout of 8 seconds ends it.                *)
GoOn(i, next) ==
    /\ thread' = [thread EXCEPT ![i] = next]
    /\ UNCHANGED <<window, task, send_lock, destroyed, history>>

ConnectSucceeds(i) ==
    /\ thread[i] = "connecting"
    /\ GoOn(i, "store_socket")
    /\ socket' = [socket EXCEPT ![i] = "open"]
    /\ UNCHANGED <<app, callbacks>>

ConnectFails(i) ==
    /\ thread[i] = "connecting"
    /\ GoOn(i, "done")
    /\ socket' = [socket EXCEPT ![i] = "closed"]
    /\ Post("connection_failed", None)
    /\ UNCHANGED app

(* The three attributes are stored one by one.                             *)
Store(i, attribute, value, next) ==
    /\ app' = [app EXCEPT ![attribute] = value]
    /\ GoOn(i, next)
    /\ UNCHANGED <<callbacks, socket>>
ConnectedBeforeChannel(i) ==
    \/ thread[i] = "store_socket" /\ Store(i, "client_socket", i, "store_channel")
    \/ thread[i] = "store_channel" /\ Store(i, "connected", TRUE, "store_connected")
    \/ thread[i] = "store_connected" /\ Store(i, "channel", i, "announce")
StoreAttributes(i) ==
    \/ thread[i] = "store_socket" /\ Store(i, "client_socket", i, "store_channel")
    \/ thread[i] = "store_channel" /\ Store(i, "channel", i, "store_connected")
    \/ thread[i] = "store_connected" /\ Store(i, "connected", TRUE, "announce")

Announce(i) ==
    /\ thread[i] = "announce"
    /\ Post("connection_completed", None)
    /\ GoOn(i, "test")
    /\ UNCHANGED <<app, socket>>

(* receive_loop.                                                           *)
LoopTest(i) ==
    /\ thread[i] = "test"
    /\ GoOn(i, IF app.connected /\ CurrentSocket(i) THEN "receive" ELSE "finally")
    /\ UNCHANGED <<app, callbacks, socket>>

(* A chat message goes on, CLOSE ends the loop.                            *)
ReceiveMessage(i, type) ==
    /\ thread[i] = "receive" /\ socket[i] # "shut"
    /\ GoOn(i, IF type = "chat" THEN "test" ELSE "finally")
    /\ UNCHANGED <<app, callbacks, socket>>

(* The message is refused, or recv returns b"" or raises.  shutdown wakes  *)
(* a recv that is blocked; close alone does not.                           *)
ReceiveRaises(i) ==
    /\ thread[i] = "receive"
    /\ GoOn(i, "finally")
    /\ UNCHANGED <<app, callbacks, socket>>

LoopFinally(i) ==
    /\ thread[i] = "finally"
    /\ Post("finish_disconnect", i)
    /\ GoOn(i, "done")
    /\ UNCHANGED <<app, socket>>

ThreadStep(i) == StoreAttributes(i) \/ Announce(i) \/ LoopTest(i) \/ LoopFinally(i)
-----------------------------------------------------------------------------
(* send_worker and disconnect_worker.                                      *)
TaskGoesOn(k, next) ==
    /\ task' = [task EXCEPT ![k].pc = next]
    /\ UNCHANGED <<app, window, thread, destroyed>>

AcquireLock(k) ==
    /\ task[k].pc = "waiting" /\ send_lock = None
    /\ send_lock' = k
    /\ TaskGoesOn(k, "sending")
    /\ UNCHANGED <<callbacks, socket, history>>

(* send_secure returns or raises, and the lock is released either way.  A  *)
(* channel or a socket that is None raises what neither function catches.  *)
CanSend(k) == task[k].channel # None /\ task[k].socket # None
SendReturns(k) ==
    /\ task[k].pc = "sending" /\ CanSend(k)
    /\ socket[task[k].socket] = "open"
    /\ send_lock' = None
    /\ TaskGoesOn(k, IF task[k].kind = "send" THEN "update" ELSE "shutdown")
    /\ UNCHANGED <<callbacks, socket, history>>

DiesWhenSendRaises(kind) == IF kind = "send" THEN "failed" ELSE "done"
AfterRaise(kind) == IF kind = "send" THEN "failed" ELSE "shutdown"
SendRaises(k) ==
    /\ task[k].pc = "sending"
    /\ send_lock' = None
    /\ \/ /\ CanSend(k)
          /\ TaskGoesOn(k, AfterRaise(task[k].kind))
          /\ history' = [history EXCEPT !.failed =
               IF task[k].kind = "send" THEN @ \cup {task[k].socket} ELSE @]
       \/ /\ ~CanSend(k)
          /\ TaskGoesOn(k, IF task[k].kind = "send" THEN "update" ELSE "done")
          /\ UNCHANGED history
    /\ UNCHANGED <<callbacks, socket>>

(* The rest of the two functions.                                          *)
Finish(k) ==
    /\ \/ /\ task[k].pc = "failed"
          /\ Post("finish_disconnect", task[k].socket)
          /\ TaskGoesOn(k, "update")
       \/ /\ task[k].pc = "update"
          /\ Post("_update_controls", None)
          /\ TaskGoesOn(k, "done")
       \/ /\ task[k].pc = "finish"
          /\ Post("finish_disconnect", task[k].socket)
          /\ TaskGoesOn(k, "done")
    /\ UNCHANGED <<send_lock, socket, history>>

ShutdownAndClose(k) ==
    /\ task[k].pc = "shutdown"
    /\ socket' = ShutDown(task[k].socket)
    /\ TaskGoesOn(k, "finish")
    /\ UNCHANGED <<callbacks, send_lock, history>>

TaskStep(k) == AcquireLock(k) \/ Finish(k) \/ ShutdownAndClose(k)
-----------------------------------------------------------------------------
(* The steps that the server has no part in.                               *)
OwnStep ==
    \/ ConnectClicked \/ SendClicked \/ DisconnectClicked \/ CloseProgram
    \/ RunCallback
    \/ \E i \in Connections : ThreadStep(i)
    \/ \E k \in Tasks : TaskStep(k)

Next ==
    /\ ~destroyed
    /\ \/ OwnStep
       \/ \E i \in Connections :
             \/ ConnectSucceeds(i) \/ ConnectFails(i) \/ ReceiveRaises(i)
             \/ \E type \in {"chat", "close"} : ReceiveMessage(i, type)
       \/ \E k \in Tasks : SendReturns(k) \/ SendRaises(k)

(* The main loop runs its callbacks and threads run; sendall and the       *)
(* handshake end (the peer reads, or the connection breaks, or times out). *)
Running(A) == ~destroyed /\ A
OwnFairness ==
    /\ WF_vars(Running(RunCallback))
    /\ \A i \in Connections :
          /\ WF_vars(Running(ThreadStep(i)))
          /\ WF_vars(Running(ConnectSucceeds(i) \/ ConnectFails(i)))
          /\ WF_vars(Running(socket[i] = "shut" /\ ReceiveRaises(i)))
    /\ \A k \in Tasks :
          /\ WF_vars(Running(TaskStep(k)))
          /\ WF_vars(Running(SendReturns(k) \/ SendRaises(k)))
Spec == Init /\ [][Next]_vars /\ OwnFairness
-----------------------------------------------------------------------------
(* Whatever thread runs when, a message is encrypted with the channel of   *)
(* the very socket it is sent on (gui_client.py:387-389 store the three    *)
(* attributes one by one; send_clicked reads them in another thread),      *)
(* until a late callback has misled the user into connecting twice         *)
(* (stale_refresh): then two attempts store their attributes at a time.    *)
SocketAndChannelMatch ==
    \A k \in Tasks : history.stale_refresh \/ task[k].channel = task[k].socket

(* A session is torn down only for something that happened on it, never by *)
(* a late callback of an earlier one (the guard at gui_client.py:527), as  *)
(* long as no late callback has let the user start a second attempt while  *)
(* one was under way (stale_refresh): the failure of either ends the other.*)
Over(i) == \/ thread[i] = "done" \/ i \in history.failed
           \/ \E k \in Tasks : task[k].socket = i /\ task[k].kind = "disconnect"
TornDownForCause ==
    [][\A i \in Connections :
         (app.client_socket = i /\ app.connected /\ ~app'.connected) =>
             Over(i) \/ destroyed' \/ history.stale_refresh]_vars

(* No socket stays open that nothing will ever close, and no more than one *)
(* is being opened, unless a late callback re-enabled the Connect button   *)
(* during an attempt (gui_client.py:482 and 408).                          *)
NoSocketLeaks ==
    history.stale_refresh \/
        /\ \A i \in Connections :
              socket[i] = "open" => app.client_socket = i \/ thread[i] = "store_socket"
        /\ Cardinality({i \in Connections : thread[i] \in Connecting}) <= 1

(* When nothing is under way the buttons agree with the session, so the    *)
(* user is never stuck, unless a late callback has misled him; so does the *)
(* status, which a message sent with Enter before connection_completed has *)
(* run may leave at SECURE when it ends the session (early_send).          *)
Quiet == /\ callbacks = << >>
         /\ \A i \in Connections : thread[i] \in {"none", "receive", "done"}
         /\ \A k \in Tasks : ~Busy(k)
WindowTellsTheTruth ==
    (Quiet /\ ~destroyed /\ ~history.stale_refresh) =>
        /\ app.connected = (app.client_socket # None)
        /\ window = Window(app.connected, window.status)
        /\ ~history.early_send =>
              window.status = IF app.connected THEN "SECURE" ELSE "OFFLINE"

(* Connecting and disconnecting come to an end (the error path of          *)
(* connect_worker, 399-402, and the caught errors of disconnect_worker,    *)
(* 513-524), so that the user can connect again.                           *)
NothingStaysPending ==
    /\ window.status = "CONNECTING" ~> (window.status # "CONNECTING" \/ destroyed)
    /\ window.status = "DISCONNECTING"
          ~> (window.status # "DISCONNECTING" \/ destroyed \/ history.stale_refresh)
=============================================================================
