-------------------------- MODULE GuiSessionProofs --------------------------
(***************************************************************************)
(* Proofs about GuiSession, for any number of connections, runs, messages  *)
(* and clicks.                                                             *)
(*                                                                         *)
(* Each program, in the company of the other, does only what it may do     *)
(* alone, so whatever GuiClientProofs and GuiServerProofs prove holds here *)
(* too.  LinkInv adds what one program may conclude about the other: a     *)
(* client that has got through is on a connection that a run has accepted  *)
(* and answered.  What the two windows show follows from the three.        *)
(***************************************************************************)
EXTENDS GuiSession, SequenceTheorems, TLAPS

Client == INSTANCE GuiClientProofs WITH
        MaxTasks <- MaxClientTasks, app <- c_app, window <- c_window,
        callbacks <- c_callbacks, thread <- c_thread, task <- c_task,
        send_lock <- c_send_lock, socket <- c_socket, destroyed <- c_destroyed,
        history <- c_history
Server == INSTANCE GuiServerProofs WITH
        MaxTasks <- MaxServerTasks, MaxHasty <- MaxServerTasks, app <- s_app,
        window <- s_window, callbacks <- s_callbacks, worker <- s_worker,
        task <- s_task, send_lock <- s_send_lock, listener <- s_listener,
        connection <- s_connection, destroyed <- s_destroyed, history <- s_history

(* Said(i): the last message of the handshake is on its way to the client. *)
Said(i) == \E n \in DOMAIN to_client[i] : to_client[i][n] = "finished"
LinkInv ==
    /\ run \in [C!Connections -> S!Runs \cup {None}]
    /\ to_client \in [C!Connections -> Seq({"finished", "chat", "close"})]
    /\ \A i \in C!Connections :
          /\ run[i] # None => c_thread[i] # "none" /\ s_connection[run[i]] # "none"
          /\ c_thread[i] \in Client!Linked \/ Said(i) =>
                run[i] # None /\ s_worker[run[i]] \in Server!Past
    /\ \A r \in S!Runs :
          s_worker[r] \in Server!Accepted => \E i \in C!Connections : run[i] = r

BothInv == /\ Client!IInv /\ Client!EndInv
           /\ Server!IInv /\ Server!EndInv
-----------------------------------------------------------------------------
USE GuiSessionAssumption

(* The programs of GuiSession are those that the proofs are about.         *)
LEMMA SameClient ==
    /\ C!Init => Client!Init
    /\ C!OwnStep => Client!OwnStep
    /\ [C!Next]_C!vars => [Client!Next]_Client!vars
BY DEF
       C!Connections, C!Tasks, C!threads, C!vars, C!NoTask, C!Post,
       C!Connecting, C!NewConnections, C!NewTasks, C!First, C!Busy,
       C!Window, C!Init, C!ConnectClicked, C!StartTask, C!SendClicked,
       C!DisconnectClicked, C!CloseProgram, C!Runs, C!Misleads,
       C!ConnectionCompleted, C!ConnectionFailed, C!CloseSocket, C!ShutDown,
       C!CurrentSocket, C!FinishDisconnect, C!Refresh, C!RunCallback,
       C!GoOn, C!ConnectSucceeds, C!ConnectFails, C!Store,
       C!StoreAttributes, C!Announce, C!LoopTest, C!ReceiveMessage,
       C!ReceiveRaises, C!LoopFinally, C!ThreadStep, C!TaskGoesOn,
       C!AcquireLock, C!CanSend, C!SendReturns, C!AfterRaise, C!SendRaises,
       C!Finish, C!ShutdownAndClose, C!TaskStep, C!OwnStep, C!Next,
       Client!Connections, Client!Tasks, Client!threads, Client!vars,
       Client!NoTask, Client!Post, Client!Connecting, Client!NewConnections,
       Client!NewTasks, Client!First, Client!Busy, Client!Window,
       Client!Init, Client!ConnectClicked, Client!StartTask,
       Client!SendClicked, Client!DisconnectClicked, Client!CloseProgram,
       Client!Runs, Client!Misleads, Client!ConnectionCompleted,
       Client!ConnectionFailed, Client!CloseSocket, Client!ShutDown,
       Client!CurrentSocket, Client!FinishDisconnect, Client!Refresh,
       Client!RunCallback, Client!GoOn, Client!ConnectSucceeds,
       Client!ConnectFails, Client!Store, Client!StoreAttributes,
       Client!Announce, Client!LoopTest, Client!ReceiveMessage,
       Client!ReceiveRaises, Client!LoopFinally, Client!ThreadStep,
       Client!TaskGoesOn, Client!AcquireLock, Client!CanSend,
       Client!SendReturns, Client!AfterRaise, Client!SendRaises,
       Client!Finish, Client!ShutdownAndClose, Client!TaskStep,
       Client!OwnStep, Client!Next
LEMMA SameServer ==
    /\ S!Init => Server!Init
    /\ S!OwnStep => Server!OwnStep
    /\ [S!Next]_S!vars => [Server!Next]_Server!vars
BY DEF
       S!Runs, S!Tasks, S!threads, S!network, S!vars, S!NoTask, S!Post,
       S!First, S!NewRuns, S!NewTasks, S!Busy, S!Ended, S!Stopped, S!Window,
       S!Refreshed, S!Init, S!StartClicked, S!StartTask, S!SendClicked,
       S!StopClicked, S!CloseOnly, S!ShutDown, S!Unlisten, S!CloseProgram,
       S!CallbackRuns, S!ServerStarted, S!HandshakeCompleted,
       S!CurrentSocket, S!FinishServer, S!Refresh, S!RunCallback, S!GoOn,
       S!Store, S!CreateListener, S!StoreListener, S!Accept, S!AcceptFails,
       S!StillWanted, S!CheckRunning, S!StoreConnection,
       S!HandshakeSucceeds, S!HandshakeFails, S!StoreChannel, S!Announce,
       S!LoopTest, S!ReceiveMessage, S!ReceiveRaises, S!Finally,
       S!WorkerStep, S!TaskGoesOn, S!CanSend, S!SkipClose, S!AcquireLock,
       S!AfterSend, S!SendReturns, S!SendRaises, S!SendFinally,
       S!ShutdownAndClose, S!StopListening, S!TaskStep, S!OwnStep, S!Next,
       Server!Runs, Server!Tasks, Server!threads, Server!network,
       Server!vars, Server!NoTask, Server!Post, Server!First,
       Server!NewRuns, Server!NewTasks, Server!Busy, Server!Ended,
       Server!Stopped, Server!Window, Server!Refreshed, Server!Init,
       Server!StartClicked, Server!StartTask, Server!SendClicked,
       Server!StopClicked, Server!CloseOnly, Server!ShutDown,
       Server!Unlisten, Server!CloseProgram, Server!CallbackRuns,
       Server!ServerStarted, Server!HandshakeCompleted,
       Server!CurrentSocket, Server!FinishServer, Server!Refresh,
       Server!RunCallback, Server!GoOn, Server!Store, Server!CreateListener,
       Server!StoreListener, Server!Accept, Server!AcceptFails,
       Server!StillWanted, Server!CheckRunning, Server!StoreConnection,
       Server!HandshakeSucceeds, Server!HandshakeFails, Server!StoreChannel,
       Server!Announce, Server!LoopTest, Server!ReceiveMessage,
       Server!ReceiveRaises, Server!Finally, Server!WorkerStep,
       Server!TaskGoesOn, Server!CanSend, Server!SkipClose,
       Server!AcquireLock, Server!AfterSend, Server!SendReturns,
       Server!SendRaises, Server!SendFinally, Server!ShutdownAndClose,
       Server!StopListening, Server!TaskStep, Server!OwnStep, Server!Next

(* A step of GuiSession is a step of one program that leaves the other     *)
(* alone.                                                                  *)
LEMMA StepOfClient == [Next]_vars => [C!Next]_C!vars
<1> SUFFICES ASSUME ClientStep PROVE C!Next
  BY DEF Next, ServerStep, vars, client, C!vars, C!threads
<1> QED BY DEF ClientStep, Connects, ClientReads, ClientSends, C!Next

LEMMA StepOfServer == [Next]_vars => [S!Next]_S!vars
<1> SUFFICES ASSUME ServerStep PROVE S!Next
  BY DEF Next, ClientStep, vars, server, S!vars, S!threads, S!network
<1> QED BY DEF ServerStep, Accepts, HandshakeSucceeds, ServerReads, ServerSends, S!Next

(* The client of GuiSession is the program of GuiClient, whose promises    *)
(* and whose fairness it keeps: gui_client.py with a server that answers   *)
(* is gui_client.py.                                                       *)
THEOREM ImplementsClient == Spec => C!Spec
<1>1. Init => C!Init
  BY DEF Init
<1> QED BY <1>1, StepOfClient, PTL DEF Spec, C!Spec

(* The server of GuiSession is the program of GuiServer.                   *)
THEOREM ImplementsServer == Spec => S!Spec
<1>1. Init => S!Init
  BY DEF Init
<1> QED BY <1>1, StepOfServer, PTL DEF Spec, S!Spec

LEMMA BothAlways == Init /\ [][Next]_vars => []BothInv
<1>1. Init => Client!Init /\ Server!Init
  BY SameClient, SameServer DEF Init
<1>2. [Next]_vars => [Client!Next]_Client!vars /\ [Server!Next]_Server!vars
  BY StepOfClient, StepOfServer, SameClient, SameServer
<1>3. Client!Init /\ [][Client!Next]_Client!vars => [](Client!IInv /\ Client!EndInv)
  BY Client!SafeAlways
<1>4. Server!Init /\ [][Server!Next]_Server!vars => [](Server!IInv /\ Server!EndInv)
  BY Server!SafeAlways
<1> QED BY <1>1, <1>2, <1>3, <1>4, PTL DEF BothInv
-----------------------------------------------------------------------------
(* What one program may conclude about the other.                          *)
LEMMA Types ==
    ASSUME BothInv
    PROVE  /\ c_thread \in [C!Connections -> {"none"} \cup Client!Connecting \cup Client!After]
           /\ s_worker \in [S!Runs -> {"none", "finally", "done"} \cup Server!Before
                                        \cup Server!During \cup Server!Joined]
           /\ s_connection \in [S!Runs -> {"none", "open", "closed", "shut"}]
           /\ None \notin S!Runs
<1>1. c_thread \in [Client!Connections -> {"none"} \cup Client!Connecting \cup Client!After]
  BY DEF BothInv, Client!IInv, Client!TypeOK
<1>2. /\ s_worker \in [Server!Runs -> {"none", "finally", "done"} \cup Server!Before
                                        \cup Server!During \cup Server!Joined]
      /\ s_connection \in [Server!Runs -> {"none", "open", "closed", "shut"}]
  BY DEF BothInv, Server!IInv, Server!TypeOK
<1>3. C!Connections = Client!Connections /\ S!Runs = Server!Runs /\ S!Runs \subseteq Nat
  BY DEF C!Connections, Client!Connections, S!Runs, Server!Runs
<1> QED BY <1>1, <1>2, <1>3

LEMMA InitLinkInv == Init => LinkInv
<1>1. << >> \in Seq({"finished", "chat", "close"}) /\ DOMAIN << >> = {}
  BY EmptySeq
<1> QED BY <1>1 DEF Init, C!Init, S!Init, LinkInv, Said, Client!Linked, Client!After,
         Client!Connecting, Server!Accepted, Server!During, Server!Joined

(* The client's steps.                                                     *)
LEMMA LinkKeptByClient == ASSUME BothInv, LinkInv, ClientStep PROVE LinkInv'
<1> USE DEF LinkInv
<1>1. UNCHANGED <<run, s_worker, s_connection>>
  BY DEF ClientStep, server
<1>2. ASSUME to_client' \in [C!Connections -> Seq({"finished", "chat", "close"})],
             \A i \in C!Connections :
                /\ c_thread[i] # "none" => c_thread'[i] # "none"
                /\ c_thread'[i] \in Client!Linked => c_thread[i] \in Client!Linked \/ Said(i)
                /\ Said(i)' => Said(i)
      PROVE  LinkInv'
  BY <1>1, <1>2
<1>3. CASE C!OwnStep /\ UNCHANGED wires
  <2>1. \A i \in C!Connections :
           /\ c_thread'[i] \in Client!Linked => c_thread[i] \in Client!Linked
           /\ c_thread[i] # "none" => c_thread'[i] # "none"
    BY <1>3, SameClient, Client!OwnStepMoves
       DEF BothInv, Client!IInv, C!Connections, Client!Connections
  <2> QED BY <1>2, <1>3, <2>1 DEF wires, Said
<1>4. ASSUME NEW i \in C!Connections, NEW type, Takes(to_client, i, type)
      PROVE  /\ to_client' \in [C!Connections -> Seq({"finished", "chat", "close"})]
             /\ \A j \in C!Connections : Said(j)' => Said(j)
             /\ type = "finished" => Said(i)
  <2>1. /\ to_client[i] \in Seq({"finished", "chat", "close"}) /\ to_client[i] # << >>
        /\ Head(to_client[i]) = type /\ to_client' = [to_client EXCEPT ![i] = Tail(@)]
    BY <1>4 DEF Takes
  <2>2. /\ Tail(to_client[i]) \in Seq({"finished", "chat", "close"})
        /\ 1 \in DOMAIN to_client[i] /\ Head(to_client[i]) = to_client[i][1]
        /\ \A n \in DOMAIN Tail(to_client[i]) :
              n + 1 \in DOMAIN to_client[i] /\ Tail(to_client[i])[n] = to_client[i][n + 1]
    BY <2>1, Client!TailFacts
  <2> QED BY <2>1, <2>2 DEF Said
<1>5. ASSUME NEW i \in C!Connections, Connects(i) PROVE LinkInv'
  <2>1. CASE C!ConnectSucceeds(i) /\ Takes(to_client, i, "finished")
    <3>1. c_thread' = [c_thread EXCEPT ![i] = "store_socket"]
      BY <2>1 DEF C!ConnectSucceeds, C!GoOn
    <3> QED BY <1>2, <1>4, <2>1, <3>1, Types
  <2>2. CASE C!ConnectFails(i) /\ UNCHANGED to_client
    <3>1. c_thread' = [c_thread EXCEPT ![i] = "done"]
      BY <2>2 DEF C!ConnectFails, C!GoOn
    <3> QED BY <1>2, <2>2, <3>1, Types DEF Said, Client!Linked, Client!Connecting, Client!After
  <2> QED BY <1>5, <2>1, <2>2 DEF Connects
<1>6. ASSUME NEW i \in C!Connections, ClientReads(i) PROVE LinkInv'
  <2>1. /\ c_thread[i] = "receive"
        /\ \E next \in {"test", "finally"} : c_thread' = [c_thread EXCEPT ![i] = next]
        /\ UNCHANGED to_client \/ \E type : Takes(to_client, i, type)
    BY <1>6 DEF ClientReads, C!ReceiveMessage, C!ReceiveRaises, C!GoOn
  <2>2. /\ to_client' \in [C!Connections -> Seq({"finished", "chat", "close"})]
        /\ \A j \in C!Connections : Said(j)' => Said(j)
    BY <1>4, <2>1 DEF Said
  <2> QED BY <1>2, <2>1, <2>2, Types DEF Client!Linked, Client!After
<1>7. CASE \E k \in C!Tasks : ClientSends(k) /\ UNCHANGED to_client
  BY <1>2, <1>7 DEF ClientSends, C!SendReturns, C!SendRaises, C!TaskGoesOn, Said
<1> QED BY <1>3, <1>5, <1>6, <1>7 DEF ClientStep

(* The server's steps.                                                     *)
LEMMA SentFacts ==
    ASSUME LinkInv, NEW i, NEW type \in {"finished", "chat", "close"},
           Sent(to_client, i, type)
    PROVE  /\ to_client' \in [C!Connections -> Seq({"finished", "chat", "close"})]
           /\ \A j \in C!Connections : Said(j)' => Said(j) \/ (j = i /\ type = "finished")
<1> DEFINE Q == Seq({"finished", "chat", "close"})
<1>1. to_client' = [to_client EXCEPT ![i] = Append(@, type)]
  BY DEF Sent
<1>2. CASE i \notin C!Connections
  BY <1>1, <1>2 DEF LinkInv, Said
<1>3. CASE i \in C!Connections
  <2>1. to_client[i] \in Q
    BY <1>3 DEF LinkInv
  <2>2. PICK n : /\ Append(to_client[i], type) \in Q
                 /\ DOMAIN Append(to_client[i], type) = DOMAIN to_client[i] \cup {n}
                 /\ Append(to_client[i], type)[n] = type
                 /\ \A c \in DOMAIN to_client[i] :
                       Append(to_client[i], type)[c] = to_client[i][c]
    BY <2>1, Client!AppendFacts
  <2> QED BY <1>1, <1>3, <2>2 DEF LinkInv, Said
<1> QED BY <1>2, <1>3

LEMMA LinkKeptByServer == ASSUME BothInv, LinkInv, ServerStep PROVE LinkInv'
<1> USE DEF LinkInv
<1>1. UNCHANGED c_thread
  BY DEF ServerStep, client
<1>2. ASSUME UNCHANGED run,
             to_client' \in [C!Connections -> Seq({"finished", "chat", "close"})],
             \A i \in C!Connections : Said(i)' => Said(i)
                \/ (run[i] # None /\ s_worker'[run[i]] \in Server!Past),
             \A r \in S!Runs :
                /\ s_worker'[r] \in Server!Accepted => s_worker[r] \in Server!Accepted
                /\ s_worker[r] \in Server!Past => s_worker'[r] \in Server!Past
                /\ s_connection[r] # "none" => s_connection'[r] # "none"
      PROVE  LinkInv'
  BY <1>1, <1>2
<1>3. CASE S!OwnStep /\ UNCHANGED <<wires, run>>
  <2>1. \A r \in S!Runs :
           /\ s_worker'[r] \in Server!Accepted => s_worker[r] \in Server!Accepted
           /\ s_worker[r] \in Server!Past => s_worker'[r] \in Server!Past
           /\ s_connection[r] # "none" => s_connection'[r] # "none"
    BY <1>3, SameServer, Server!OwnStepMoves DEF BothInv, Server!IInv, S!Runs, Server!Runs
  <2> QED BY <1>2, <1>3, <2>1 DEF wires, Said
<1> USE DEF Server!Accepted, Server!Past, Server!Before, Server!Early, Server!During,
            Server!Joined
<1>4. ASSUME NEW r \in S!Runs, NEW i \in C!Connections, UNCHANGED wires,
             c_thread[i] = "connecting", run[i] = None, S!Accept(r),
             run' = [run EXCEPT ![i] = r]
      PROVE  LinkInv'
  <2>1. /\ s_worker[r] = "accept" /\ s_worker' = [s_worker EXCEPT ![r] = "check_running"]
        /\ s_connection' = [s_connection EXCEPT ![r] = "open"]
    BY <1>4 DEF S!Accept, S!GoOn
  <2>2. UNCHANGED to_client /\ \A j \in C!Connections : Said(j)' <=> Said(j)
    BY <1>4 DEF wires, Said
  <2>3. c_thread[i] \notin Client!Linked /\ ~Said(i)
    BY <1>4 DEF Client!Linked, Client!After, Client!Connecting
  <2> QED BY <1>1, <1>4, <2>1, <2>2, <2>3, Types
<1>5. ASSUME NEW r \in S!Runs, HandshakeSucceeds(r), UNCHANGED run PROVE LinkInv'
  <2>1. /\ s_worker[r] = "handshake" /\ s_worker' = [s_worker EXCEPT ![r] = "store_channel"]
        /\ UNCHANGED s_connection
    BY <1>5 DEF HandshakeSucceeds, S!HandshakeSucceeds, S!GoOn, S!network
  <2>2. ConnectionOf(r) \in C!Connections /\ run[ConnectionOf(r)] = r
    BY <2>1 DEF ConnectionOf
  <2>3. /\ to_client' \in [C!Connections -> Seq({"finished", "chat", "close"})]
        /\ \A i \in C!Connections : Said(i)' => Said(i) \/ i = ConnectionOf(r)
    BY <1>5, SentFacts DEF HandshakeSucceeds
  <2>4. s_worker'[r] \in Server!Past
    BY <2>1, Types
  <2> QED BY <1>2, <1>5, <2>1, <2>2, <2>3, <2>4, Types
<1>6. ASSUME NEW r \in S!Runs, ServerReads(r) \/ S!AcceptFails(r), UNCHANGED <<run, to_client>>
      PROVE  LinkInv'
  <2>1. /\ s_worker[r] \in {"accept", "handshake", "receive"} /\ UNCHANGED s_connection
        /\ \/ s_worker' = [s_worker EXCEPT ![r] = "finally"]
           \/ s_worker[r] = "receive" /\ s_worker' = [s_worker EXCEPT ![r] = "test"]
    BY <1>6 DEF ServerReads, S!ReceiveMessage, S!ReceiveRaises, S!HandshakeFails,
                S!AcceptFails, S!GoOn, S!network
  <2> QED BY <1>2, <1>6, <2>1, Types DEF Said
<1>7. ASSUME NEW k \in S!Tasks, ServerSends(k), UNCHANGED run PROVE LinkInv'
  <2>1. UNCHANGED <<s_worker, s_connection>>
    BY <1>7 DEF ServerSends, S!SendReturns, S!SendRaises, S!TaskGoesOn, S!network
  <2>2. \/ UNCHANGED to_client
        \/ \E type \in {"chat", "close"} :
              Sent(to_client, ConnectionOf(s_task[k].connection), type)
    BY <1>7 DEF ServerSends
  <2>3. /\ to_client' \in [C!Connections -> Seq({"finished", "chat", "close"})]
        /\ \A i \in C!Connections : Said(i)' => Said(i)
    <3>1. CASE UNCHANGED to_client
      BY <3>1 DEF Said
    <3>2. ASSUME NEW type \in {"chat", "close"},
                 Sent(to_client, ConnectionOf(s_task[k].connection), type)
          PROVE  /\ to_client' \in [C!Connections -> Seq({"finished", "chat", "close"})]
                 /\ \A i \in C!Connections : Said(i)' => Said(i)
      BY <3>2, SentFacts
    <3> QED BY <2>2, <3>1, <3>2
  <2> QED BY <1>2, <1>7, <2>1, <2>3
<1> QED BY <1>3, <1>4, <1>5, <1>6, <1>7 DEF ServerStep, Accepts, wires

LEMMA LinkAlways == Init /\ [][Next]_vars => [](BothInv /\ LinkInv)
<1>1. BothInv /\ LinkInv /\ [Next]_vars => LinkInv'
  <2>1. ASSUME LinkInv, UNCHANGED vars PROVE LinkInv'
    BY <2>1 DEF vars, client, server, wires, LinkInv, Said
  <2> QED BY <2>1, LinkKeptByClient, LinkKeptByServer DEF Next
<1> QED BY <1>1, InitLinkInv, BothAlways, PTL
-----------------------------------------------------------------------------
(* Two programs at rest.  Where the client is connected, its receive_loop  *)
(* waits on a connection that a run has answered and not closed; that run  *)
(* waits on it too, and nobody has stopped the server.                     *)
Resting == /\ BothInv /\ LinkInv /\ AtRest
           /\ ~c_history.stale_refresh /\ ~s_history.hasty
           /\ \A i \in c_history.failed : c_thread[i] # "receive"

LEMMA ConnectedServed ==
    ASSUME Resting, c_app.connected PROVE s_app.client_connected
<1> DEFINE i == c_app.client_socket
           r == run[i]
<1>1. /\ ~c_destroyed /\ Client!AttemptInv /\ Client!OwnerInv
      /\ \A j \in Client!Connections : Client!EndOf(j)
  BY DEF Resting, BothInv, Client!IInv, Client!DeadInv, Client!FreshInv, Client!EndInv
<1>2. i \in C!Connections /\ c_thread[i] \in {"receive", "done"}
  BY <1>1 DEF Client!OwnerInv, Client!After, Resting, AtRest, C!Quiet, C!Connections,
              Client!Connections
<1>3. c_thread[i] = "receive"
  <2>1. ~Client!FinishAsked(i)
    BY DEF Resting, AtRest, C!Quiet, Client!FinishAsked
  <2> QED BY <1>1, <1>2, <2>1 DEF Client!EndOf, C!Connections, Client!Connections
<1>4. r \in S!Runs /\ s_worker[r] \in Server!Past /\ s_connection[r] # "none"
  BY <1>2, <1>3, Types DEF Resting, LinkInv, Client!Linked, Client!After
<1>5. s_connection[r] = "open"
  BY <1>2, <1>3, <1>4, Types DEF Resting, AtRest, ServerGone
<1>6. /\ ~s_destroyed /\ Server!StatusInv
      /\ Server!EndOf(r)
  BY <1>4, <1>5 DEF Resting, BothInv, Server!IInv, Server!DeadInv, Server!PatientInv,
                    Server!EndInv, S!Runs, Server!Runs
<1>7. s_worker[r] = "receive"
  BY <1>4, <1>5, <1>6 DEF Resting, AtRest, S!Quiet, S!Blocked, Server!Past, Server!Joined,
                          Server!EndOf
<1>8. ~Server!Doomed(r)
  BY DEF Resting, AtRest, S!Quiet, S!Busy, Server!Doomed, S!Tasks, Server!Tasks
<1>9. s_app.server_running
  BY <1>5, <1>6, <1>7, <1>8 DEF Server!EndOf, Resting
<1> QED BY <1>4, <1>6, <1>7, <1>9 DEF Server!StatusInv, S!Runs, Server!Runs

(* Where the server has a client, its worker waits on a connection that no *)
(* client has closed; the thread that made it reads it still, and is that  *)
(* of the client's session.                                                *)
LEMMA ServedConnected ==
    ASSUME Resting, s_app.client_connected PROVE c_app.connected
<1>1. ~s_destroyed /\ Server!RunInv /\ Server!AttributesInv
  BY DEF Resting, BothInv, Server!IInv, Server!DeadInv, Server!PatientInv
<1>2. s_app.client_connection # None /\ s_app.channel # None /\ s_app.server_socket # None
  BY <1>1 DEF Server!AttributesInv
<1>3. PICK r \in S!Runs : Server!Live(r)
  <2>1. \A c \in DOMAIN s_callbacks : ~Server!Is(c, "finish_server")
    BY DEF Resting, AtRest, S!Quiet
  <2> QED BY <1>1, <1>2, <2>1 DEF Server!RunInv, Server!Idle, S!Runs, Server!Runs
<1>4. s_worker[r] = "receive"
  <2>1. s_worker[r] \in {"accept", "handshake", "receive"}
    BY <1>3 DEF Server!Live, Resting, AtRest, S!Quiet, S!Blocked
  <2> QED BY <1>1, <1>2, <2>1 DEF Server!AttributesInv, Server!Before, Server!During,
                                  S!Runs, Server!Runs
<1>5. PICK i \in C!Connections : run[i] = r
  BY <1>4 DEF Resting, LinkInv, Server!Accepted, Server!Joined
<1>6. c_thread[i] # "none" /\ ~ClientGone(i)
  BY <1>4, <1>5, Types DEF Resting, LinkInv, AtRest
<1>7. /\ ~c_destroyed /\ Client!AttemptInv /\ Client!OwnerInv /\ Client!EndOf(i)
  BY <1>6 DEF ClientGone, Resting, BothInv, Client!IInv, Client!DeadInv, Client!FreshInv,
              Client!EndInv, C!Connections, Client!Connections
<1>8. ~Client!FinishAsked(i) /\ c_thread[i] \in {"receive", "done"}
  BY <1>6 DEF Resting, AtRest, C!Quiet, Client!FinishAsked
<1>9. c_thread[i] = "receive"
  <2>1. SUFFICES ASSUME c_thread[i] = "done" PROVE FALSE
    BY <1>8
  <2>2. c_socket[i] = "open"
    BY <1>6, <1>7, <2>1 DEF Client!EndOf, ClientGone, Resting, BothInv, Client!IInv,
         Client!TypeOK, C!Connections, Client!Connections
  <2> QED BY <1>7, <1>8, <2>1, <2>2 DEF Client!OwnerInv, Client!EndOf, C!Connections,
         Client!Connections
<1> QED BY <1>6, <1>7, <1>9 DEF Client!EndOf, ClientGone, Resting

(* When both programs are at rest their windows agree on whether there is  *)
(* a session, for any number of connections, runs, messages and clicks:    *)
(* whichever of gui_client.py:491-535 and gui_server.py:423-560 ended the  *)
(* last one, the other has ended it too.                                   *)
THEOREM Agreement == Spec => []WindowsAgree
<1>1. BothInv /\ LinkInv => WindowsAgree
  <2> SUFFICES ASSUME Resting PROVE c_app.connected = s_app.client_connected
    BY DEF Resting, WindowsAgree
  <2>1. c_app.connected \in BOOLEAN /\ s_app.client_connected \in BOOLEAN
    BY DEF Resting, BothInv, Client!IInv, Client!TypeOK, Server!IInv, Server!TypeOK
  <2> QED BY <2>1, ConnectedServed, ServedConnected
<1> QED BY <1>1, LinkAlways, PTL DEF Spec
=============================================================================
