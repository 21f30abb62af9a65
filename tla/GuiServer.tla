----------------------------- MODULE GuiServer -----------------------------
(***************************************************************************)
(* The threads of apps/gui_server.py: the Tk main loop, which runs user    *)
(* events and the callbacks that other threads post with root.after(0, .), *)
(* one server_worker per click on Start, one send_worker per message and   *)
(* one stop_worker per click on Stop.                                      *)
(*                                                                         *)
(* Runs of the server are numbered in the order of the clicks on Start;    *)
(* number i stands for the listening socket of run i, for the connection   *)
(* it accepts and for the SecureChannel made on that.  What the client     *)
(* does is arbitrary here and modelled in GuiSession; so is whether bind   *)
(* succeeds: the user chooses the port.  Logging, the chat area and the    *)
(* entry fields are left out; the fields go with the Start button.         *)
(***************************************************************************)
EXTENDS Naturals, Sequences, FiniteSets

CONSTANTS
    MaxRuns,   \* bound: clicks on Start
    MaxTasks,  \* bound: messages sent plus clicks on Stop
    MaxHasty,  \* bound: the same where one run starts before the last has ended
    None

ASSUME GuiServerAssumption ==
    {MaxRuns, MaxTasks, MaxHasty} \subseteq Nat /\ None \notin Nat

Runs == 1..MaxRuns
Tasks == 1..MaxTasks

VARIABLES
    app,         \* attributes of the class: see Stopped
    window,      \* status, and state of the start, stop and send button
    callbacks,   \* posted with root.after(0, .) and not yet run
    worker,      \* worker[i]: where server_worker i is
    task,        \* task[k]: the k-th send_worker or stop_worker
    send_lock,   \* the task that holds it
    listener,    \* listener[i]: "refused", "bound" or "closed"
    connection,  \* connection[i]: "open"; "closed"; "shut": shut down, closed
    destroyed,   \* the window is closed and the process exits
    history      \* what happened: see StartClicked and StopClicked

threads == <<worker, task, send_lock>>
network == <<listener, connection>>
vars == <<app, window, callbacks, threads, network, destroyed, history>>

NoTask == [kind |-> "none", pc |-> "none", connection |-> None,
           channel |-> None, listener |-> None]
Post(name, i) == callbacks' = Append(callbacks, [name |-> name, socket |-> i])

First(S) == CHOOSE x \in S : \A y \in S : x <= y
NewRuns == {i \in Runs : worker[i] = "none"}
NewTasks == {k \in Tasks : /\ task[k].kind = "none"
                           /\ history.hasty => k <= MaxHasty}
Busy(k) == task[k].pc \notin {"none", "done"}
Ended(i) == /\ worker[i] = "done"
            /\ \A c \in 1..Len(callbacks) : callbacks[c].name # "finish_server"

Stopped == [server_socket |-> None, client_connection |-> None, channel |-> None,
            server_running |-> FALSE, client_connected |-> FALSE]
Window(running, online, status) ==
    [start |-> ~running, stop |-> running, send |-> online, status |-> status]
Refreshed(status) == Window(app.server_running, app.client_connected, status)

Init ==
    /\ app = Stopped
    /\ window = Window(FALSE, FALSE, "STOPPED")
    /\ callbacks = << >>
    /\ worker = [i \in Runs |-> "none"]
    /\ task = [k \in Tasks |-> NoTask]
    /\ send_lock = None
    /\ listener = [i \in Runs |-> "none"]
    /\ connection = [i \in Runs |-> "none"]
    /\ destroyed = FALSE
    /\ history = [missed_client |-> FALSE, hasty |-> FALSE]
-----------------------------------------------------------------------------
(* Events of the main loop.  Stop enables Start at once, long before the   *)
(* run has ended: hasty remembers a user who did not wait for that.        *)
StartClicked ==
    /\ window.start /\ NewRuns # {}
    /\ app' = [app EXCEPT !.server_running = TRUE]
    /\ window' = Window(TRUE, app.client_connected, "STARTING")
    /\ worker' = [worker EXCEPT ![First(NewRuns)] = "create"]
    /\ history' = [history EXCEPT !.hasty = @ \/ \E i \in Runs \ NewRuns : ~Ended(i)]
    /\ history'.hasty => \A k \in Tasks : k > MaxHasty => task[k].kind = "none"
    /\ UNCHANGED <<callbacks, task, send_lock, network, destroyed>>

StartTask(kind) ==
    task' = [task EXCEPT ![First(NewTasks)] =
               [kind |-> kind, pc |-> "waiting",
                connection |-> app.client_connection, channel |-> app.channel,
                listener |-> app.server_socket]]

(* The Enter key reaches send_clicked whatever the state of the button.    *)
SendClicked ==
    /\ app.client_connected /\ NewTasks # {}
    /\ window' = [window EXCEPT !.send = FALSE]
    /\ StartTask("send")
    /\ UNCHANGED <<app, callbacks, worker, send_lock, network, destroyed, history>>

(* Between the worker's test of server_running and its store of the        *)
(* connection Stop finds no connection to close: missed_client.            *)
StopClicked ==
    /\ window.stop /\ app.server_running /\ NewTasks # {}
    /\ app' = [app EXCEPT !.server_running = FALSE, !.client_connected = FALSE]
    /\ window' = Window(FALSE, FALSE, "STOPPING")
    /\ StartTask("stop")
    /\ history' = [history EXCEPT !.missed_client =
                     @ \/ \E i \in Runs : worker[i] = "store_connection"]
    /\ UNCHANGED <<callbacks, worker, send_lock, network, destroyed>>

(* shutdown and close, whatever was done to the connection before.         *)
LeaveOpen(i) == connection
CloseOnly(i) == [connection EXCEPT ![i] = IF @ = "open" THEN "closed" ELSE @]
ShutDown(i) == [connection EXCEPT ![i] = IF @ = "open" THEN "shut" ELSE @]
Unlisten(i) == [listener EXCEPT ![i] = IF @ = "bound" THEN "closed" ELSE @]

(* The flags are cleared, the sockets closed and the window destroyed; with*)
(* the main loop the process ends, and with it its (daemon) threads and    *)
(* whatever else it had open.                                              *)
CloseProgram ==
    /\ destroyed' = TRUE
    /\ app' = [app EXCEPT !.server_running = FALSE, !.client_connected = FALSE]
    /\ connection' = [i \in Runs |-> "shut"]
    /\ listener' = [i \in Runs |-> "closed"]
    /\ worker' = [i \in Runs |-> "done"]
    /\ task' = [k \in Tasks |-> NoTask]
    /\ send_lock' = None
    /\ callbacks' = << >>
    /\ UNCHANGED <<window, history>>

(* Callbacks, each of them run to its end by the main loop.                *)
CallbackRuns(name) ==
    /\ callbacks # << >> /\ Head(callbacks).name = name
    /\ callbacks' = Tail(callbacks)
    /\ UNCHANGED <<threads, network, destroyed, history>>

ServerStarted ==
    /\ CallbackRuns("server_started")
    /\ window' = Refreshed("WAITING")
    /\ UNCHANGED app

CompleteUnnoticed ==
    /\ CallbackRuns("handshake_completed")
    /\ window' = [window EXCEPT !.status = "SECURE CLIENT"]
    /\ UNCHANGED app
HandshakeCompleted ==
    /\ CallbackRuns("handshake_completed")
    /\ window' = Refreshed("SECURE CLIENT")
    /\ UNCHANGED app

AnySocket(i) == TRUE
CurrentSocket(i) == i = None \/ app.server_socket = i
FinishServer ==
    /\ CallbackRuns("finish_server")
    /\ IF CurrentSocket(Head(callbacks).socket)
       THEN app' = Stopped /\ window' = Window(FALSE, FALSE, "STOPPED")
       ELSE UNCHANGED <<app, window>>

Refresh ==
    /\ CallbackRuns("_update_controls")
    /\ window' = Refreshed(window.status)
    /\ UNCHANGED app

RunCallback == ServerStarted \/ HandshakeCompleted \/ FinishServer \/ Refresh
-----------------------------------------------------------------------------
(* server_worker, up to the accepted connection.                           *)
GoOn(i, next) ==
    /\ worker' = [worker EXCEPT ![i] = next]
    /\ UNCHANGED <<window, task, send_lock, destroyed, history>>

Store(i, attribute, value, next) ==
    /\ app' = [app EXCEPT ![attribute] = value]
    /\ GoOn(i, next)
    /\ UNCHANGED network

(* socket, setsockopt, bind and listen.                                    *)
CreateListener(i) ==
    /\ worker[i] = "create"
    /\ \/ listener' = [listener EXCEPT ![i] = "bound"] /\ GoOn(i, "store_listener")
       \/ listener' = [listener EXCEPT ![i] = "refused"] /\ GoOn(i, "finally")
       \/ GoOn(i, "finally") /\ UNCHANGED listener
    /\ UNCHANGED <<app, callbacks, connection>>

StoreListener(i) ==
    /\ worker[i] = "store_listener"
    /\ Store(i, "server_socket", i, "accept")
    /\ Post("server_started", None)

(* A client comes.  A thread already blocked in accept goes on listening   *)
(* after the listening socket was closed by another thread (Linux).        *)
Accept(i) ==
    /\ worker[i] = "accept"
    /\ connection' = [connection EXCEPT ![i] = "open"]
    /\ GoOn(i, "check_running")
    /\ UNCHANGED <<app, callbacks, listener>>

(* accept raises, as it does on a socket closed before the call.           *)
AcceptFails(i) ==
    /\ worker[i] = "accept"
    /\ GoOn(i, "finally")
    /\ UNCHANGED <<app, callbacks, network>>

AlwaysServe(i) == TRUE
StillWanted(i) == app.server_running
CheckRunning(i) ==
    /\ worker[i] = "check_running"
    /\ GoOn(i, IF StillWanted(i) THEN "store_connection" ELSE "finally")
    /\ UNCHANGED <<app, callbacks, network>>

StoreConnection(i) ==
    /\ worker[i] = "store_connection"
    /\ Store(i, "client_connection", i, "handshake")
    /\ UNCHANGED callbacks
-----------------------------------------------------------------------------
(* server_worker, from the handshake on.  The handshake has no timeout; a  *)
(* connection that another thread shuts down ends it.                      *)
HandshakeSucceeds(i) ==
    /\ worker[i] = "handshake" /\ connection[i] = "open"
    /\ GoOn(i, "store_channel")
    /\ UNCHANGED <<app, callbacks, network>>
HandshakeFails(i) ==
    /\ worker[i] = "handshake"
    /\ GoOn(i, "finally")
    /\ UNCHANGED <<app, callbacks, network>>

(* The two attributes are stored one by one.                               *)
ConnectedBeforeChannel(i) ==
    /\ \/ worker[i] = "store_channel" /\ Store(i, "client_connected", TRUE, "store_connected")
       \/ worker[i] = "store_connected" /\ Store(i, "channel", i, "announce")
    /\ UNCHANGED callbacks
StoreChannel(i) ==
    /\ \/ worker[i] = "store_channel" /\ Store(i, "channel", i, "store_connected")
       \/ worker[i] = "store_connected" /\ Store(i, "client_connected", TRUE, "announce")
    /\ UNCHANGED callbacks

Announce(i) ==
    /\ worker[i] = "announce"
    /\ Post("handshake_completed", None)
    /\ GoOn(i, "test")
    /\ UNCHANGED <<app, network>>

LoopTest(i) ==
    /\ worker[i] = "test"
    /\ GoOn(i, IF /\ app.server_running /\ app.client_connected
                  /\ app.client_connection = i
               THEN "receive" ELSE "finally")
    /\ UNCHANGED <<app, callbacks, network>>

(* A chat message goes on, CLOSE ends the loop.                            *)
ReceiveMessage(i, type) ==
    /\ worker[i] = "receive" /\ connection[i] # "shut"
    /\ GoOn(i, IF type = "chat" THEN "test" ELSE "finally")
    /\ UNCHANGED <<app, callbacks, network>>

(* The message is refused, or recv returns b"" or raises.                  *)
ReceiveRaises(i) ==
    /\ worker[i] = "receive"
    /\ GoOn(i, "finally")
    /\ UNCHANGED <<app, callbacks, network>>

Finally(i) ==
    /\ worker[i] = "finally"
    /\ connection' = CloseOnly(i)
    /\ listener' = Unlisten(i)
    /\ Post("finish_server", IF listener[i] = "none" THEN None ELSE i)
    /\ GoOn(i, "done")
    /\ UNCHANGED app

WorkerStep(i) ==
    CreateListener(i) \/ StoreListener(i) \/ CheckRunning(i) \/ StoreConnection(i)
      \/ StoreChannel(i) \/ Announce(i) \/ LoopTest(i) \/ Finally(i)
-----------------------------------------------------------------------------
(* send_worker and stop_worker.                                            *)
TaskGoesOn(k, next) ==
    /\ task' = [task EXCEPT ![k] =
                  IF next = "done"
                  THEN [NoTask EXCEPT !.kind = task[k].kind, !.pc = "done"]
                  ELSE [task[k] EXCEPT !.pc = next]]
    /\ UNCHANGED <<app, window, worker, destroyed, history>>

(* stop_worker sends CLOSE only where there is a connection and a channel. *)
CanSend(k) == task[k].connection # None /\ task[k].channel # None
SkipClose(k) ==
    /\ task[k].pc = "waiting" /\ task[k].kind = "stop" /\ ~CanSend(k)
    /\ TaskGoesOn(k, "shutdown")
    /\ UNCHANGED <<callbacks, send_lock, network>>

AcquireLock(k) ==
    /\ task[k].pc = "waiting" /\ send_lock = None
    /\ task[k].kind = "stop" => CanSend(k)
    /\ send_lock' = k
    /\ TaskGoesOn(k, "sending")
    /\ UNCHANGED <<callbacks, network>>

(* send_secure returns or raises, and the lock is released either way: a   *)
(* failed send leaves the session as it is, a failed CLOSE is ignored.     *)
AfterSend(kind) == IF kind = "send" THEN "update" ELSE "shutdown"
SendReturns(k) ==
    /\ task[k].pc = "sending" /\ CanSend(k)
    /\ connection[task[k].connection] = "open"
    /\ send_lock' = None
    /\ TaskGoesOn(k, AfterSend(task[k].kind))
    /\ UNCHANGED <<callbacks, network>>

SendRaises(k) ==
    /\ task[k].pc = "sending"
    /\ send_lock' = None
    /\ TaskGoesOn(k, AfterSend(task[k].kind))
    /\ UNCHANGED <<callbacks, network>>

SendFinally(k) ==
    /\ task[k].pc = "update"
    /\ Post("_update_controls", None)
    /\ TaskGoesOn(k, "done")
    /\ UNCHANGED <<send_lock, network>>

ShutdownAndClose(k) ==
    /\ task[k].pc = "shutdown"
    /\ connection' = IF task[k].connection = None THEN connection
                     ELSE ShutDown(task[k].connection)
    /\ TaskGoesOn(k, "unlisten")
    /\ UNCHANGED <<callbacks, send_lock, listener>>

StopListening(k) ==
    /\ task[k].pc = "unlisten"
    /\ listener' = IF task[k].listener = None THEN listener
                   ELSE Unlisten(task[k].listener)
    /\ TaskGoesOn(k, "done")
    /\ UNCHANGED <<callbacks, send_lock, connection>>

TaskStep(k) ==
    SkipClose(k) \/ AcquireLock(k) \/ SendFinally(k) \/ ShutdownAndClose(k)
      \/ StopListening(k)
-----------------------------------------------------------------------------
(* The steps that the client has no part in.                               *)
OwnStep ==
    \/ StartClicked \/ SendClicked \/ StopClicked \/ CloseProgram
    \/ RunCallback
    \/ \E i \in Runs : WorkerStep(i)
    \/ \E k \in Tasks : TaskStep(k)

Next ==
    /\ ~destroyed
    /\ \/ OwnStep
       \/ \E i \in Runs :
             \/ Accept(i) \/ AcceptFails(i)
             \/ HandshakeSucceeds(i) \/ HandshakeFails(i) \/ ReceiveRaises(i)
             \/ \E type \in {"chat", "close"} : ReceiveMessage(i, type)
       \/ \E k \in Tasks : SendReturns(k) \/ SendRaises(k)

(* The main loop runs its callbacks and threads run; a shut down connection*)
(* wakes recv; sendall ends (the client reads, or the connection breaks).  *)
(* Clients need do nothing.                                                *)
Running(A) == ~destroyed /\ A
OwnFairness ==
    /\ WF_vars(Running(RunCallback))
    /\ \A i \in Runs :
          /\ WF_vars(Running(WorkerStep(i)))
          /\ WF_vars(Running(connection[i] = "shut"
                                /\ (HandshakeFails(i) \/ ReceiveRaises(i))))
    /\ \A k \in Tasks :
          /\ WF_vars(Running(TaskStep(k)))
          /\ WF_vars(Running(SendReturns(k) \/ SendRaises(k)))
Spec == Init /\ [][Next]_vars /\ OwnFairness
-----------------------------------------------------------------------------
(* The server serves one client at a time (README.md:80: "The current      *)
(* version supports one client connection at a time."): no two workers     *)
(* hold a connection that is open and past the test of server_running.     *)
Serving == {i \in Runs :
              /\ connection[i] = "open"
              /\ worker[i] \in {"handshake", "store_channel", "store_connected",
                                "announce", "test", "receive"}}
OneClientAtATime == Cardinality(Serving) <= 1

(* Whatever thread runs when, a message is encrypted with the channel made *)
(* on the very connection it is sent on; Stop during a handshake finds no  *)
(* channel and sends nothing (gui_server.py:389-407 store the attributes   *)
(* one by one, 501 and 524 read them in another thread).                   *)
ConnectionAndChannelMatch ==
    \A k \in Tasks : \/ history.hasty
                     \/ task[k].channel = task[k].connection
                     \/ task[k].kind = "stop" /\ task[k].channel = None

(* Once a stop has run its course no client is being served any more: in   *)
(* particular none that was let in while the stop was under way, unless    *)
(* the stop hit the one window between gui_server.py:386 and 389.          *)
Blocked == {"none", "done", "accept", "handshake", "receive"}
Quiet == /\ callbacks = << >>
         /\ \A i \in Runs : worker[i] \in Blocked
         /\ \A k \in Tasks : ~Busy(k)
Expected == ~history.missed_client /\ ~history.hasty
StoppedServesNobody ==
    (Quiet /\ ~app.server_running /\ Expected) => Serving = {}

(* When every thread waits for its client or has ended, the window says    *)
(* which.  A run whose bind failed is the exception: finish_server takes   *)
(* its callback for an old one (gui_server.py:551).                        *)
BindRefused == \E i \in Runs : listener[i] = "refused"
WindowTellsTheTruth ==
    (Quiet /\ ~destroyed /\ Expected) =>
        /\ window = Refreshed(window.status)
        /\ \A i \in Runs : (worker[i] = "receive" /\ app.server_running) =>
              window.status = "SECURE CLIENT" /\ app.client_connected
        /\ \A i \in Runs : (worker[i] = "accept" /\ app.server_running) =>
              window.status = "WAITING" /\ ~app.client_connected
        /\ (~BindRefused /\ \A i \in Runs : worker[i] \in {"none", "done"}) =>
              window.status = "STOPPED" /\ app = Stopped

(* A run is wound up only when its worker has ended; the late callback of  *)
(* an earlier run that was listening does not (the guard at gui_server.py: *)
(* 551), however hastily the user starts one after the other.  The callback*)
(* of an earlier run whose socket() failed carries None, which that guard  *)
(* lets through: after a hasty start it does wind up the later run.        *)
CarriesNoSocket == callbacks # << >> /\ Head(callbacks).socket = None
WoundUpForCause ==
    [][\A i \in Runs :
         (app.server_socket = i /\ app'.server_socket = None) =>
             worker[i] = "done" \/ (history.hasty /\ CarriesNoSocket)]_vars

(* Stop gets rid of the client it saw, whether or not the CLOSE could be   *)
(* sent and wherever the worker was, in the handshake too.                 *)
StopEndsSession ==
    \A k \in Tasks, i \in Runs :
        (task[k].kind = "stop" /\ task[k].connection = i)
            ~> (worker[i] = "done" \/ destroyed \/ history.hasty)
=============================================================================
