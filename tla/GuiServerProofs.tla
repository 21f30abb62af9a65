--------------------------- MODULE GuiServerProofs ---------------------------
(***************************************************************************)
(* Proofs about GuiServer, for any number of runs and of messages.         *)
(*                                                                         *)
(* A user who lets a run end before starting the next one has one worker   *)
(* at a time.  RunInv says what the attributes hold at each point of its   *)
(* life, QueueInv in which order its callbacks wait, StatusInv what the    *)
(* window shows.  The buttons and the cause of a wind-up (ButtonsInv,      *)
(* CauseInv) do not depend on the user's patience.                         *)
(***************************************************************************)
EXTENDS GuiServer, FiniteSetTheorems, WellFoundedInduction, SequenceTheorems,
        TLAPS

Optional == Runs \cup {None}
Early == {"create", "store_listener"}
Before == Early \cup {"accept", "check_running", "store_connection"}
During == {"handshake", "store_channel"}
Joined == {"store_connected", "announce", "test", "receive"}
Callback ==
    [name : {"server_started", "handshake_completed", "finish_server", "_update_controls"},
     socket : Optional]
Task ==
    [kind : {"none", "send", "stop"},
     pc : {"none", "waiting", "sending", "update", "shutdown", "unlisten", "done"},
     connection : Optional, channel : Optional, listener : Optional]

TypeOK ==
    /\ app \in [server_socket : Optional, client_connection : Optional, channel : Optional,
                server_running : BOOLEAN, client_connected : BOOLEAN]
    /\ window \in [start : BOOLEAN, stop : BOOLEAN, send : BOOLEAN,
                   status : {"STOPPED", "STARTING", "WAITING", "SECURE CLIENT", "STOPPING"}]
    /\ callbacks \in Seq(Callback)
    /\ worker \in [Runs -> {"none", "finally", "done"} \cup Before \cup During \cup Joined]
    /\ task \in [Tasks -> Task]
    /\ send_lock \in Tasks \cup {None}
    /\ listener \in [Runs -> {"none", "refused", "bound", "closed"}]
    /\ connection \in [Runs -> {"none", "open", "closed", "shut"}]
    /\ destroyed \in BOOLEAN
    /\ history \in [missed_client : BOOLEAN, hasty : BOOLEAN]

Is(c, name) == callbacks[c].name = name
Live(i) == worker[i] \notin {"none", "done"}
Idle == /\ \A i \in Runs : ~Live(i)
        /\ \A c \in DOMAIN callbacks : ~Is(c, "finish_server")

(* finish_server comes from a worker that has ended.                       *)
CauseInv ==
    /\ \A c \in DOMAIN callbacks : Is(c, "finish_server") =>
          \/ callbacks[c].socket \in Runs /\ worker[callbacks[c].socket] = "done"
          \/ /\ callbacks[c].socket = None
             /\ \E j \in Runs : listener[j] = "none" /\ worker[j] = "done"
    /\ \A i \in Runs :
          /\ worker[i] \in {"none", "create"} => listener[i] = "none"
          /\ worker[i] \in (Before \ {"create"}) \cup During \cup Joined =>
                listener[i] \in {"bound", "closed"}
    /\ \A k \in Tasks :
          /\ task[k].kind = "none" => task[k] = NoTask
          /\ task[k].pc = "update" => task[k].kind = "send"
          /\ task[k].pc \in {"shutdown", "unlisten"} => task[k].kind = "stop"

(* Start and Stop follow server_running; the send button follows           *)
(* client_connected as soon as what is pending has run.                    *)
SendPending ==
    \/ \E i \in Runs : worker[i] = "announce"
    \/ \E c \in DOMAIN callbacks : Is(c, "handshake_completed") \/ Is(c, "_update_controls")
    \/ \E k \in Tasks : task[k].kind = "send" /\ Busy(k)
ButtonsInv ==
    /\ window.start <=> ~app.server_running
    /\ window.stop <=> app.server_running
    /\ (window.send <=> app.client_connected) \/ SendPending

(* The life of a run, as the attributes show it.                           *)
RunInv ==
    /\ \A i, j \in Runs : Live(i) /\ Live(j) => i = j
    /\ \A c \in DOMAIN callbacks : Is(c, "finish_server") =>
          /\ \A i \in Runs : ~Live(i)
          /\ \A d \in DOMAIN callbacks : Is(d, "finish_server") => d = c
          /\ callbacks[c].socket \in Runs =>
                app.server_socket = IF listener[callbacks[c].socket] = "refused"
                                    THEN None ELSE callbacks[c].socket
    /\ Idle => app.server_socket = None
    /\ \A i \in Runs : Live(i) =>
          app.server_socket =
              IF worker[i] \in Early \/ listener[i] \in {"none", "refused"} THEN None ELSE i
AttributesInv ==
    /\ app.server_socket = None => app.client_connection = None
    /\ app.channel \in {None, app.client_connection}
    /\ app.client_connected => app.channel # None
    /\ \A i \in Runs :
          /\ worker[i] \in Before => app.client_connection = None
          /\ worker[i] \in During => app.client_connection = i /\ app.channel = None
          /\ worker[i] \in Joined => app.client_connection = i /\ app.channel = i
    /\ \A k \in Tasks : \/ task[k].channel = task[k].connection
                        \/ task[k].kind = "stop" /\ task[k].channel = None

(* server_started, then handshake_completed, then finish_server.           *)
QueueInv ==
    \A c \in DOMAIN callbacks :
        /\ Is(c, "server_started") \/ Is(c, "handshake_completed") =>
              ~Idle /\ \A d \in DOMAIN callbacks : Is(d, "finish_server") => c < d
        /\ Is(c, "server_started") =>
              /\ \A i \in Runs : worker[i] \notin Early
              /\ \A d \in DOMAIN callbacks : Is(d, "handshake_completed") => c < d
        /\ Is(c, "handshake_completed") =>
              \A i \in Runs : Live(i) => worker[i] \in {"test", "receive", "finally"}

StatusInv ==
    /\ \A i \in Runs : worker[i] = "accept" /\ app.server_running =>
          window.status = "WAITING" \/ \E c \in DOMAIN callbacks : Is(c, "server_started")
    /\ \A i \in Runs : worker[i] \in {"announce", "test", "receive"} /\ app.server_running =>
          app.client_connected
    /\ \A i \in Runs : worker[i] \in {"test", "receive"} /\ app.server_running =>
          \/ /\ window.status = "SECURE CLIENT"
             /\ \A c \in DOMAIN callbacks : ~Is(c, "server_started")
          \/ \E c \in DOMAIN callbacks : Is(c, "handshake_completed")
    /\ Idle /\ ~BindRefused => window.status = "STOPPED" /\ app = Stopped

(* A client that Stop has seen is on its way out.                          *)
ServeInv ==
    \A i \in Runs :
        /\ worker[i] = "store_connection" => app.server_running
        /\ worker[i] \in During \cup Joined =>
              \/ app.server_running \/ connection[i] # "open"
              \/ \E k \in Tasks : /\ task[k].kind = "stop" /\ task[k].connection = i
                                  /\ task[k].pc \in {"waiting", "sending", "shutdown"}

DeadInv == /\ \A i \in Runs : connection[i] = "shut" /\ worker[i] = "done"
           /\ \A k \in Tasks : task[k] = NoTask
           /\ ~app.client_connected

PatientInv == RunInv /\ AttributesInv /\ QueueInv /\ StatusInv
IInv ==
    /\ TypeOK
    /\ IF destroyed THEN DeadInv
       ELSE /\ CauseInv /\ ButtonsInv
            /\ ~history.hasty => PatientInv
            /\ Expected => ServeInv
-----------------------------------------------------------------------------
USE GuiServerAssumption

(* Every set of natural numbers that is not empty has a least one.         *)
LEMMA LeastNatural ==
    ASSUME NEW S, S \subseteq Nat, S # {}
    PROVE  \E m \in S : \A n \in S : m <= n
<1>1. PICK m \in S : \A n \in S : <<n, m>> \notin OpToRel(<, Nat)
  BY WFMin, NatLessThanWellFounded
<1>2. \A n \in S : ~(n < m)
  BY <1>1 DEF OpToRel
<1> QED BY <1>2

(* Posting a callback leaves those before it in their places.              *)
LEMMA AppendFacts ==
    ASSUME NEW S, NEW q \in Seq(S), NEW e \in S
    PROVE  LET r == Append(q, e) IN
           /\ r \in Seq(S) /\ DOMAIN q \subseteq Nat
           /\ \E n \in Nat \ DOMAIN q :
                 /\ DOMAIN r = DOMAIN q \cup {n} /\ r[n] = e
                 /\ \A c \in DOMAIN q : r[c] = q[c] /\ c < n
<1> DEFINE r == Append(q, e)
<1>1. /\ r \in Seq(S) /\ Len(r) = Len(q) + 1 /\ Len(q) \in Nat
      /\ DOMAIN r = 1..Len(r) /\ DOMAIN q = 1..Len(q)
      /\ r[Len(q) + 1] = e /\ \A c \in 1..Len(q) : r[c] = q[c]
  BY LenProperties
<1>2. /\ Len(q) + 1 \in Nat \ DOMAIN q
      /\ DOMAIN r = DOMAIN q \cup {Len(q) + 1}
      /\ \A c \in DOMAIN q : r[c] = q[c] /\ c < Len(q) + 1
  BY <1>1
<1> QED BY <1>1, <1>2

(* Running the first callback moves the others up by one place.            *)
LEMMA TailFacts ==
    ASSUME NEW S, NEW q \in Seq(S), q # << >>
    PROVE  /\ Tail(q) \in Seq(S) /\ DOMAIN q \subseteq Nat /\ DOMAIN Tail(q) \subseteq Nat
           /\ 1 \in DOMAIN q /\ Head(q) = q[1] /\ Head(q) \in S
           /\ \A c \in DOMAIN q : ~(c < 1)
           /\ \A c \in DOMAIN Tail(q) : c + 1 \in DOMAIN q /\ Tail(q)[c] = q[c + 1]
           /\ \A c \in DOMAIN q : c = 1 \/ (c - 1 \in DOMAIN Tail(q) /\ Tail(q)[c - 1] = q[c])
<1>1. /\ Tail(q) \in Seq(S) /\ Head(q) \in S /\ Len(q) \in Nat \ {0}
      /\ Len(Tail(q)) = Len(q) - 1 /\ Head(q) = q[1]
      /\ \A c \in 1..Len(Tail(q)) : Tail(q)[c] = q[c + 1]
  BY HeadTailProperties, EmptySeq
<1>2. DOMAIN q = 1..Len(q) /\ DOMAIN Tail(q) = 1..Len(Tail(q))
  BY <1>1, LenProperties
<1> QED BY <1>1, <1>2

LEMMA FirstFacts == ASSUME NEW S, S \subseteq Nat, S # {} PROVE First(S) \in S
BY LeastNatural DEF First

LEMMA InitIInv == Init => IInv
<1> SUFFICES ASSUME Init PROVE IInv
  OBVIOUS
<1>1. callbacks \in Seq(Callback) /\ DOMAIN callbacks = {}
  BY EmptySeq DEF Init
<1>2. TypeOK
  BY <1>1 DEF Init, TypeOK, Optional, Task, NoTask, Window, Stopped
<1>3. CauseInv
  BY <1>1 DEF Init, CauseInv, NoTask, Before, Early, During, Joined
<1>4. ButtonsInv
  BY <1>1 DEF Init, ButtonsInv, Window, Stopped
<1>5. PatientInv
  BY <1>1 DEF Init, PatientInv, RunInv, AttributesInv, QueueInv, StatusInv, NoTask, Live,
     Stopped, Window, Early, Before, During, Joined
<1>6. ServeInv
  BY DEF Init, ServeInv, During, Joined
<1> QED BY <1>2, <1>3, <1>4, <1>5, <1>6 DEF IInv, Init

(* A user who starts a run while nothing is going on stays patient.        *)
LEMMA StartClickedKeeps ==
    ASSUME IInv, ~destroyed, StartClicked PROVE IInv'
<1> DEFINE n == First(NewRuns)
<1>1. TypeOK /\ CauseInv /\ ButtonsInv
  BY DEF IInv
<1>2. n \in Runs /\ worker[n] = "none"
  BY FirstFacts DEF StartClicked, NewRuns, Runs
<1>3. /\ app' = [app EXCEPT !.server_running = TRUE]
      /\ window' = Window(TRUE, app.client_connected, "STARTING")
      /\ worker' = [worker EXCEPT ![n] = "create"]
      /\ history' = [history EXCEPT !.hasty = @ \/ \E i \in Runs \ NewRuns : ~Ended(i)]
      /\ UNCHANGED <<callbacks, task, send_lock, listener, connection, destroyed>>
  BY DEF StartClicked, network
<1>4. /\ app'.server_socket = app.server_socket /\ app'.channel = app.channel
      /\ app'.client_connection = app.client_connection
      /\ app'.client_connected = app.client_connected /\ app'.server_running
      /\ worker'[n] = "create" /\ \A i \in Runs \ {n} : worker'[i] = worker[i]
  BY <1>1, <1>2, <1>3 DEF TypeOK
<1>5. TypeOK'
  BY <1>1, <1>2, <1>3 DEF TypeOK, Window, Before, Early
<1>6. CauseInv'
  <2>1. /\ \A i \in Runs : worker[i] = "done" => worker'[i] = "done"
        /\ \A i \in Runs : \/ worker'[i] = worker[i]
                           \/ worker[i] = "none" /\ worker'[i] = "create"
    BY <1>2, <1>4
  <2>2. \A i \in Runs :
          /\ worker'[i] \in {"none", "create"} => worker[i] \in {"none", "create"}
          /\ worker'[i] \in (Before \ {"create"}) \cup During \cup Joined =>
                worker[i] \in (Before \ {"create"}) \cup During \cup Joined
    BY <2>1 DEF Before, Early, During, Joined
  <2> QED BY <2>1, <2>2, <1>1, <1>3 DEF CauseInv, Is
<1>7. ButtonsInv'
  BY <1>1, <1>3, <1>4 DEF ButtonsInv, Window
<1>8. ASSUME ~history'.hasty PROVE ~history.hasty /\ Idle
  <2>1. ~history.hasty /\ \A i \in Runs \ NewRuns : Ended(i)
    BY <1>1, <1>3, <1>8 DEF TypeOK
  <2>2. \A i \in Runs : ~Live(i)
    BY <2>1 DEF NewRuns, Ended, Live
  <2>3. DOMAIN callbacks = 1..Len(callbacks)
    BY <1>1, LenProperties DEF TypeOK
  <2>4. ASSUME NEW c \in DOMAIN callbacks, Is(c, "finish_server") PROVE FALSE
    <3>1. PICK j \in Runs : worker[j] = "done"
      BY <1>1, <2>4 DEF CauseInv
    <3> QED BY <2>1, <2>3, <2>4, <3>1 DEF NewRuns, Ended, Is
  <2> QED BY <2>1, <2>2, <2>4 DEF Idle
<1>9. ASSUME ~history'.hasty PROVE PatientInv'
  <2>1. Idle /\ RunInv /\ AttributesInv /\ QueueInv /\ StatusInv
    BY <1>8, <1>9 DEF IInv, PatientInv
  <2>2. /\ \A c \in DOMAIN callbacks : ~Is(c, "finish_server")'
        /\ \A c \in DOMAIN callbacks : ~Is(c, "handshake_completed")'
        /\ \A c \in DOMAIN callbacks : ~Is(c, "server_started")'
    BY <2>1, <1>3 DEF Idle, QueueInv, Is
  <2>3. \A i \in Runs : Live(i)' <=> i = n
    BY <2>1, <1>2, <1>4 DEF Idle, Live
  <2>4. app'.server_socket = None /\ ~Idle'
    BY <2>1, <2>3, <1>2, <1>4 DEF RunInv, Idle
  <2>5. RunInv'
    BY <2>2, <2>3, <2>4, <1>3, <1>4 DEF RunInv, Early
  <2>6. AttributesInv'
    BY <2>1, <2>3, <2>4, <1>3, <1>4 DEF AttributesInv, RunInv, Live, Before, Early, During, Joined
  <2>7. QueueInv'
    BY <2>2, <1>3 DEF QueueInv
  <2>8. StatusInv'
    BY <2>3, <2>4, <1>2, <1>3, <1>4 DEF StatusInv, Live
  <2> QED BY <2>5, <2>6, <2>7, <2>8 DEF PatientInv
<1>10. ASSUME Expected' PROVE ServeInv'
  <2>1. Idle
    BY <1>8, <1>10 DEF Expected
  <2> QED BY <2>1, <1>2, <1>4 DEF ServeInv, Idle, Live, During, Joined
<1> QED BY <1>3, <1>5, <1>6, <1>7, <1>9, <1>10 DEF IInv

(* A send_worker or a stop_worker starts.                                  *)
LEMMA NewTaskFacts ==
    ASSUME TypeOK, CauseInv, NEW kind \in {"send", "stop"}, NewTasks # {}, StartTask(kind)
    PROVE  \E n \in Tasks :
              /\ task' \in [Tasks -> Task] /\ task[n] = NoTask
              /\ task'[n] = [kind |-> kind, pc |-> "waiting",
                             connection |-> app.client_connection,
                             channel |-> app.channel, listener |-> app.server_socket]
              /\ \A k \in Tasks \ {n} : task'[k] = task[k]
<1> DEFINE n == First(NewTasks)
<1>1. n \in Tasks /\ task[n].kind = "none" /\ task[n] = NoTask
  BY FirstFacts DEF NewTasks, Tasks, CauseInv
<1> QED BY <1>1 DEF StartTask, TypeOK, Task

LEMMA SendClickedKeeps ==
    ASSUME IInv, ~destroyed, SendClicked PROVE IInv'
<1>1. TypeOK /\ CauseInv /\ ButtonsInv
  BY DEF IInv
<1>2. PICK n \in Tasks :
        /\ task' \in [Tasks -> Task] /\ task[n] = NoTask
        /\ task'[n] = [kind |-> "send", pc |-> "waiting",
                       connection |-> app.client_connection,
                       channel |-> app.channel, listener |-> app.server_socket]
        /\ \A k \in Tasks \ {n} : task'[k] = task[k]
  BY <1>1, NewTaskFacts DEF SendClicked
<1>3. /\ app.client_connected /\ window' = [window EXCEPT !.send = FALSE]
      /\ UNCHANGED <<app, callbacks, worker, send_lock, listener, connection, destroyed, history>>
  BY DEF SendClicked, network
<1>4. /\ window'.start = window.start /\ window'.stop = window.stop
      /\ window'.status = window.status
  BY <1>1, <1>3 DEF TypeOK
<1>5. TypeOK'
  BY <1>1, <1>2, <1>3 DEF TypeOK
<1>6. CauseInv'
  BY <1>1, <1>2, <1>3 DEF CauseInv, Is
<1>7. ButtonsInv'
  <2>1. SendPending'
    BY <1>2 DEF SendPending, Busy
  <2> QED BY <2>1, <1>1, <1>3, <1>4 DEF ButtonsInv
<1>8. ASSUME ~history.hasty PROVE PatientInv'
  <2>1. RunInv /\ AttributesInv /\ QueueInv /\ StatusInv
    BY <1>8 DEF IInv, PatientInv
  <2>2. RunInv'
    BY <2>1, <1>3 DEF RunInv, Is, Live, Idle
  <2>3. AttributesInv'
    BY <2>1, <1>2, <1>3 DEF AttributesInv
  <2>4. QueueInv'
    BY <2>1, <1>3 DEF QueueInv, Is, Live, Idle
  <2>5. StatusInv'
    BY <2>1, <1>3, <1>4 DEF StatusInv, Is, Live, Idle, BindRefused
  <2> QED BY <2>2, <2>3, <2>4, <2>5 DEF PatientInv
<1>9. ASSUME Expected PROVE ServeInv'
  BY <1>2, <1>3, <1>9 DEF IInv, ServeInv, NoTask
<1> QED BY <1>3, <1>5, <1>6, <1>7, <1>8, <1>9 DEF IInv, Expected

LEMMA StopClickedKeeps ==
    ASSUME IInv, ~destroyed, StopClicked PROVE IInv'
<1>1. TypeOK /\ CauseInv /\ ButtonsInv
  BY DEF IInv
<1>2. PICK n \in Tasks :
        /\ task' \in [Tasks -> Task] /\ task[n] = NoTask
        /\ task'[n] = [kind |-> "stop", pc |-> "waiting",
                       connection |-> app.client_connection,
                       channel |-> app.channel, listener |-> app.server_socket]
        /\ \A k \in Tasks \ {n} : task'[k] = task[k]
  BY <1>1, NewTaskFacts DEF StopClicked
<1>3. /\ app.server_running
      /\ app' = [app EXCEPT !.server_running = FALSE, !.client_connected = FALSE]
      /\ window' = Window(FALSE, FALSE, "STOPPING")
      /\ history' = [history EXCEPT !.missed_client =
                       @ \/ \E i \in Runs : worker[i] = "store_connection"]
      /\ UNCHANGED <<callbacks, worker, send_lock, listener, connection, destroyed>>
  BY DEF StopClicked, network
<1>4. /\ app'.server_socket = app.server_socket /\ app'.channel = app.channel
      /\ app'.client_connection = app.client_connection
      /\ ~app'.client_connected /\ ~app'.server_running
      /\ history'.hasty = history.hasty
  BY <1>1, <1>3 DEF TypeOK
<1>5. TypeOK'
  BY <1>1, <1>2, <1>3 DEF TypeOK, Window
<1>6. CauseInv'
  BY <1>1, <1>2, <1>3 DEF CauseInv, Is
<1>7. ButtonsInv'
  BY <1>3, <1>4 DEF ButtonsInv, Window
<1>8. ASSUME ~history.hasty PROVE PatientInv'
  <2>1. RunInv /\ AttributesInv /\ QueueInv /\ StatusInv
    BY <1>8 DEF IInv, PatientInv
  <2>2. RunInv'
    BY <2>1, <1>3, <1>4 DEF RunInv, Is, Live, Idle
  <2>3. AttributesInv'
    BY <2>1, <1>2, <1>3, <1>4 DEF AttributesInv
  <2>4. QueueInv'
    BY <2>1, <1>3 DEF QueueInv, Is, Live, Idle
  <2>5. ~(Idle /\ ~BindRefused)
    <3>1. Stopped.server_running = FALSE
      BY DEF Stopped
    <3> QED BY <3>1, <2>1, <1>3 DEF StatusInv
  <2>6. ~(Idle /\ ~BindRefused)'
    BY <2>5, <1>3 DEF Is, Live, Idle, BindRefused
  <2>7. StatusInv'
    BY <2>6, <1>4 DEF StatusInv
  <2> QED BY <2>2, <2>3, <2>4, <2>7 DEF PatientInv
<1>9. ASSUME Expected' PROVE ServeInv'
  <2>1. /\ ~history.missed_client /\ ~history.hasty
        /\ \A i \in Runs : worker[i] # "store_connection"
    BY <1>1, <1>3, <1>9 DEF Expected, TypeOK
  <2>2. AttributesInv
    BY <2>1 DEF IInv, PatientInv
  <2> QED BY <2>1, <2>2, <1>2, <1>3 DEF ServeInv, AttributesInv
<1> QED BY <1>3, <1>4, <1>5, <1>6, <1>7, <1>8, <1>9 DEF IInv

LEMMA CloseProgramKeeps ==
    ASSUME IInv, CloseProgram PROVE IInv'
<1>1. TypeOK'
  <2>1. << >> \in Seq(Callback)
    BY EmptySeq
  <2> QED BY <2>1 DEF IInv, CloseProgram, TypeOK, Optional, Task, NoTask
<1>2. destroyed' /\ DeadInv'
  BY DEF CloseProgram, DeadInv, IInv, TypeOK
<1> QED BY <1>1, <1>2 DEF IInv
-----------------------------------------------------------------------------
(* Callbacks: the first one is taken off the queue.                        *)
Moved(q, r) ==
    /\ \A c \in DOMAIN r : c + 1 \in DOMAIN q /\ r[c] = q[c + 1]
    /\ \A c \in DOMAIN q : c = 1 \/ (c - 1 \in DOMAIN r /\ r[c - 1] = q[c])

LEMMA RunsFacts ==
    ASSUME TypeOK, NEW name, CallbackRuns(name)
    PROVE  /\ callbacks' \in Seq(Callback) /\ Moved(callbacks, callbacks')
           /\ 1 \in DOMAIN callbacks /\ Head(callbacks) = callbacks[1] /\ Is(1, name)
           /\ DOMAIN callbacks \subseteq Nat /\ DOMAIN callbacks' \subseteq Nat
           /\ Head(callbacks) \in Callback /\ \A c \in DOMAIN callbacks : ~(c < 1)
           /\ UNCHANGED <<worker, task, send_lock, listener, connection, destroyed, history>>
<1>1. /\ callbacks \in Seq(Callback) /\ callbacks # << >> /\ callbacks' = Tail(callbacks)
      /\ Head(callbacks).name = name
      /\ UNCHANGED <<worker, task, send_lock, listener, connection, destroyed, history>>
  BY DEF CallbackRuns, TypeOK, threads, network
<1> QED BY <1>1, TailFacts DEF Is, Moved

LEMMA MovedFacts ==
    ASSUME Moved(callbacks, callbacks'), DOMAIN callbacks \subseteq Nat,
           DOMAIN callbacks' \subseteq Nat
    PROVE  \A name :
             /\ \A c \in DOMAIN callbacks' : Is(c, name)' <=> Is(c + 1, name)
             /\ (\E c \in DOMAIN callbacks' : Is(c, name)') =>
                    \E c \in DOMAIN callbacks : Is(c, name)
             /\ (\E c \in DOMAIN callbacks : Is(c, name)) =>
                    Is(1, name) \/ \E c \in DOMAIN callbacks' : Is(c, name)'
BY DEF Moved, Is

(* What every callback but finish_server leaves alone.                     *)
LEMMA CallbackKeeps ==
    ASSUME IInv, ~destroyed, NEW name, name # "finish_server", CallbackRuns(name),
           UNCHANGED app
    PROVE  /\ CauseInv' /\ (Idle' <=> Idle)
           /\ ~history.hasty => RunInv' /\ AttributesInv' /\ QueueInv'
           /\ Expected => ServeInv'
<1>1. TypeOK /\ CauseInv
  BY DEF IInv
<1>2. /\ Moved(callbacks, callbacks') /\ Is(1, name)
      /\ DOMAIN callbacks \subseteq Nat /\ DOMAIN callbacks' \subseteq Nat
      /\ UNCHANGED <<worker, task, send_lock, listener, connection, destroyed, history>>
  BY <1>1, RunsFacts
<1>3. CauseInv'
  BY <1>1, <1>2 DEF CauseInv, Is, Moved
<1>4. Idle' <=> Idle
  <2>1. ~Is(1, "finish_server")
    BY <1>2 DEF Is
  <2> QED BY <2>1, <1>2, MovedFacts DEF Idle, Live
<1>5. ASSUME ~history.hasty PROVE RunInv' /\ AttributesInv' /\ QueueInv'
  <2>1. RunInv /\ AttributesInv /\ QueueInv
    BY <1>5 DEF IInv, PatientInv
  <2>2. RunInv'
    BY <2>1, <1>2, <1>4 DEF RunInv, Is, Moved, Live
  <2>3. AttributesInv'
    BY <2>1, <1>2 DEF AttributesInv
  <2>4. QueueInv'
    BY <2>1, <1>2, <1>4 DEF QueueInv, Is, Moved, Live
  <2> QED BY <2>2, <2>3, <2>4
<1>6. ASSUME Expected PROVE ServeInv'
  BY <1>2, <1>6 DEF IInv, ServeInv
<1> QED BY <1>3, <1>4, <1>5, <1>6

LEMMA ServerStartedKeeps ==
    ASSUME IInv, ~destroyed, ServerStarted PROVE IInv'
<1>1. TypeOK /\ CauseInv /\ ButtonsInv
  BY DEF IInv
<1>2. /\ callbacks' \in Seq(Callback) /\ Moved(callbacks, callbacks')
      /\ 1 \in DOMAIN callbacks /\ Is(1, "server_started")
      /\ DOMAIN callbacks \subseteq Nat /\ DOMAIN callbacks' \subseteq Nat
      /\ UNCHANGED <<worker, task, send_lock, listener, connection, destroyed, history>>
  BY <1>1, RunsFacts DEF ServerStarted
<1>3. app' = app /\ window' = Refreshed("WAITING")
  BY DEF ServerStarted
<1>4. /\ CauseInv' /\ (Idle' <=> Idle)
      /\ ~history.hasty => RunInv' /\ AttributesInv' /\ QueueInv'
      /\ Expected => ServeInv'
  BY <1>3, CallbackKeeps DEF ServerStarted
<1>5. TypeOK'
  BY <1>1, <1>2, <1>3 DEF TypeOK, Refreshed, Window
<1>6. ButtonsInv'
  BY <1>3 DEF ButtonsInv, Refreshed, Window
<1>7. ASSUME ~history.hasty PROVE StatusInv'
  <2>1. QueueInv /\ StatusInv
    BY <1>7 DEF IInv, PatientInv
  <2>2. ~Idle'
    BY <2>1, <1>2, <1>4 DEF QueueInv
  <2>3. window'.status = "WAITING"
    BY <1>3 DEF Refreshed, Window
  <2>4. ASSUME NEW i \in Runs, worker[i] \in {"test", "receive"}, app.server_running
        PROVE  \/ /\ window'.status = "SECURE CLIENT"
                  /\ \A c \in DOMAIN callbacks' : ~Is(c, "server_started")'
               \/ \E c \in DOMAIN callbacks' : Is(c, "handshake_completed")'
    <3>1. \E c \in DOMAIN callbacks : Is(c, "handshake_completed")
      BY <2>1, <2>4, <1>2 DEF StatusInv
    <3> QED BY <3>1, <1>2, MovedFacts DEF Is
  <2> QED BY <2>1, <2>2, <2>3, <2>4, <1>2, <1>3 DEF StatusInv
<1> QED BY <1>2, <1>4, <1>5, <1>6, <1>7 DEF IInv, PatientInv, Expected

LEMMA HandshakeCompletedKeeps ==
    ASSUME IInv, ~destroyed, HandshakeCompleted PROVE IInv'
<1>1. TypeOK /\ CauseInv /\ ButtonsInv
  BY DEF IInv
<1>2. /\ callbacks' \in Seq(Callback) /\ Moved(callbacks, callbacks')
      /\ 1 \in DOMAIN callbacks /\ Is(1, "handshake_completed")
      /\ DOMAIN callbacks \subseteq Nat /\ DOMAIN callbacks' \subseteq Nat
      /\ UNCHANGED <<worker, task, send_lock, listener, connection, destroyed, history>>
  BY <1>1, RunsFacts DEF HandshakeCompleted
<1>3. app' = app /\ window' = Refreshed("SECURE CLIENT")
  BY DEF HandshakeCompleted
<1>4. /\ CauseInv' /\ (Idle' <=> Idle)
      /\ ~history.hasty => RunInv' /\ AttributesInv' /\ QueueInv'
      /\ Expected => ServeInv'
  BY <1>3, CallbackKeeps DEF HandshakeCompleted
<1>5. TypeOK'
  BY <1>1, <1>2, <1>3 DEF TypeOK, Refreshed, Window
<1>6. ButtonsInv'
  BY <1>3 DEF ButtonsInv, Refreshed, Window
<1>7. ASSUME ~history.hasty PROVE StatusInv'
  <2>1. QueueInv /\ StatusInv
    BY <1>7 DEF IInv, PatientInv
  <2>2. ~Idle'
    BY <2>1, <1>2, <1>4 DEF QueueInv
  <2>3. window'.status = "SECURE CLIENT"
    BY <1>3 DEF Refreshed, Window
  <2>4. \A i \in Runs : worker[i] # "accept"
    BY <2>1, <1>2 DEF QueueInv, Live
  <2>5. \A c \in DOMAIN callbacks' : ~Is(c, "server_started")'
    <3>1. \A c \in DOMAIN callbacks : ~Is(c, "server_started")
      BY <2>1, <1>2 DEF QueueInv
    <3> QED BY <3>1, <1>2, MovedFacts
  <2> QED BY <2>1, <2>2, <2>3, <2>4, <2>5, <1>2, <1>3 DEF StatusInv
<1> QED BY <1>2, <1>4, <1>5, <1>6, <1>7 DEF IInv, PatientInv, Expected

LEMMA RefreshKeeps ==
    ASSUME IInv, ~destroyed, Refresh PROVE IInv'
<1>1. TypeOK /\ CauseInv /\ ButtonsInv
  BY DEF IInv
<1>2. /\ callbacks' \in Seq(Callback) /\ Moved(callbacks, callbacks')
      /\ 1 \in DOMAIN callbacks /\ Is(1, "_update_controls")
      /\ DOMAIN callbacks \subseteq Nat /\ DOMAIN callbacks' \subseteq Nat
      /\ UNCHANGED <<worker, task, send_lock, listener, connection, destroyed, history>>
  BY <1>1, RunsFacts DEF Refresh
<1>3. app' = app /\ window' = Refreshed(window.status)
  BY DEF Refresh
<1>4. /\ CauseInv' /\ (Idle' <=> Idle)
      /\ ~history.hasty => RunInv' /\ AttributesInv' /\ QueueInv'
      /\ Expected => ServeInv'
  BY <1>3, CallbackKeeps DEF Refresh
<1>5. TypeOK' /\ window'.status = window.status
  BY <1>1, <1>2, <1>3 DEF TypeOK, Refreshed, Window
<1>6. ButtonsInv'
  BY <1>3 DEF ButtonsInv, Refreshed, Window
<1>7. ASSUME ~history.hasty PROVE StatusInv'
  <2>1. StatusInv
    BY <1>7 DEF IInv, PatientInv
  <2>2. /\ (\E c \in DOMAIN callbacks' : Is(c, "server_started")')
             <=> \E c \in DOMAIN callbacks : Is(c, "server_started")
        /\ (\E c \in DOMAIN callbacks' : Is(c, "handshake_completed")')
             <=> \E c \in DOMAIN callbacks : Is(c, "handshake_completed")
    <3>1. ~Is(1, "server_started") /\ ~Is(1, "handshake_completed")
      BY <1>2 DEF Is
    <3> QED BY <3>1, <1>2, MovedFacts
  <2> QED BY <2>1, <2>2, <1>2, <1>3, <1>4, <1>5 DEF StatusInv, BindRefused
<1> QED BY <1>2, <1>4, <1>5, <1>6, <1>7 DEF IInv, PatientInv, Expected

LEMMA FinishServerKeeps ==
    ASSUME IInv, ~destroyed, FinishServer PROVE IInv'
<1> DEFINE s == callbacks[1].socket
<1>1. TypeOK /\ CauseInv /\ ButtonsInv
  BY DEF IInv
<1>2. /\ callbacks' \in Seq(Callback) /\ Moved(callbacks, callbacks')
      /\ 1 \in DOMAIN callbacks /\ Is(1, "finish_server") /\ Head(callbacks) = callbacks[1]
      /\ DOMAIN callbacks \subseteq Nat /\ DOMAIN callbacks' \subseteq Nat
      /\ UNCHANGED <<worker, task, send_lock, listener, connection, destroyed, history>>
  BY <1>1, RunsFacts DEF FinishServer
<1>3. \/ /\ CurrentSocket(s)
         /\ app' = Stopped /\ window' = Window(FALSE, FALSE, "STOPPED")
      \/ ~CurrentSocket(s) /\ UNCHANGED <<app, window>>
  BY <1>2 DEF FinishServer
<1>4. TypeOK'
  <2>1. CASE CurrentSocket(s)
    <3>1. app' = Stopped /\ window' = Window(FALSE, FALSE, "STOPPED")
      BY <1>3, <2>1
    <3> QED BY <1>1, <1>2, <3>1 DEF TypeOK, Window, Stopped, Optional
  <2>2. CASE ~CurrentSocket(s)
    BY <1>1, <1>2, <1>3, <2>2 DEF TypeOK
  <2> QED BY <2>1, <2>2
<1>5. CauseInv'
  BY <1>1, <1>2 DEF CauseInv, Is, Moved
<1>6. ButtonsInv'
  <2>1. CASE CurrentSocket(s)
    <3>1. app' = Stopped /\ window' = Window(FALSE, FALSE, "STOPPED")
      BY <1>3, <2>1
    <3> QED BY <3>1 DEF ButtonsInv, Window, Stopped
  <2>2. CASE ~CurrentSocket(s)
    <3>1. SendPending => SendPending'
      <4>1. ~Is(1, "handshake_completed") /\ ~Is(1, "_update_controls")
        BY <1>2 DEF Is
      <4> QED BY <4>1, <1>2, MovedFacts DEF SendPending, Busy
    <3> QED BY <1>1, <1>3, <2>2, <3>1 DEF ButtonsInv
  <2> QED BY <2>1, <2>2
<1>7. ASSUME ~history.hasty PROVE PatientInv'
  <2>1. RunInv /\ AttributesInv /\ QueueInv /\ StatusInv
    BY <1>7 DEF IInv, PatientInv
  <2>2. /\ \A i \in Runs : ~Live(i)
        /\ \A c \in DOMAIN callbacks' : /\ ~Is(c, "finish_server")'
                                        /\ ~Is(c, "server_started")'
                                        /\ ~Is(c, "handshake_completed")'
    <3>1. \A c \in DOMAIN callbacks : Is(c, "finish_server") => c = 1
      BY <2>1, <1>2 DEF RunInv
    <3>2. \A c \in DOMAIN callbacks : ~Is(c, "server_started") /\ ~Is(c, "handshake_completed")
      <4>1. \A c \in DOMAIN callbacks : ~(c < 1)
        BY <1>1, RunsFacts DEF FinishServer
      <4> QED BY <4>1, <2>1, <1>2 DEF QueueInv
    <3> QED BY <3>1, <3>2, <2>1, <1>2 DEF RunInv, Is, Moved
  <2>3. /\ app'.server_socket = None /\ app'.client_connection = None
        /\ app'.channel = None /\ ~app'.client_connected
    <3>1. CASE CurrentSocket(s)
      BY <1>3, <3>1 DEF Stopped
    <3>2. CASE ~CurrentSocket(s)
      <4>1. s \in Runs
        BY <1>1, <1>2, <3>2 DEF CauseInv, CurrentSocket
      <4>2. app.server_socket = None
        BY <2>1, <4>1, <1>2, <3>2 DEF RunInv, CurrentSocket
      <4> QED BY <2>1, <4>2, <1>3, <3>2 DEF AttributesInv
    <3> QED BY <3>1, <3>2
  <2>4. ~BindRefused => app' = Stopped /\ window' = Window(FALSE, FALSE, "STOPPED")
    <3> SUFFICES ASSUME ~BindRefused, ~CurrentSocket(s) PROVE FALSE
      BY <1>3
    <3>1. s \in Runs
      BY <1>1, <1>2 DEF CauseInv, CurrentSocket
    <3> QED BY <2>1, <3>1, <1>2 DEF RunInv, CurrentSocket, BindRefused
  <2>5. \A i \in Runs : worker[i] \notin {"finally"} \cup Before \cup During \cup Joined
    BY <2>2 DEF Live, Before, Early, During, Joined
  <2>6. RunInv'
    BY <2>2, <2>3, <1>2 DEF RunInv, Live
  <2>7. AttributesInv'
    BY <2>1, <2>3, <2>5, <1>2 DEF AttributesInv
  <2>8. QueueInv'
    BY <2>2 DEF QueueInv
  <2>9. StatusInv'
    <3>1. \A i \in Runs : worker'[i] \notin {"accept", "announce", "test", "receive"}
      BY <2>5, <1>2 DEF Before, Joined
    <3>2. ~BindRefused' => window'.status = "STOPPED" /\ app' = Stopped
      BY <2>4, <1>2 DEF Window, BindRefused
    <3>3. Stopped' = Stopped
      BY DEF Stopped
    <3> QED BY <3>1, <3>2, <3>3 DEF StatusInv
  <2> QED BY <2>6, <2>7, <2>8, <2>9 DEF PatientInv
<1>8. ASSUME Expected PROVE ServeInv'
  <2>1. RunInv
    BY <1>8 DEF IInv, PatientInv, Expected
  <2>2. \A i \in Runs : ~Live(i)
    BY <2>1, <1>2 DEF RunInv
  <2> QED BY <2>2, <1>2 DEF ServeInv, Live, During, Joined
<1> QED BY <1>2, <1>4, <1>5, <1>6, <1>7, <1>8 DEF IInv, Expected
-----------------------------------------------------------------------------
(* server_worker.  The steps that store and post nothing: from where to    *)
(* where they lead, and what they may do to the sockets of the run.        *)
Moves == {<<"create", "store_listener">>, <<"create", "finally">>,
          <<"accept", "check_running">>, <<"accept", "finally">>,
          <<"check_running", "store_connection">>, <<"check_running", "finally">>,
          <<"handshake", "store_channel">>, <<"handshake", "finally">>,
          <<"test", "receive">>, <<"test", "finally">>,
          <<"receive", "test">>, <<"receive", "finally">>}

LEMMA AttributesKept ==
    ASSUME AttributesInv, UNCHANGED <<app, task>>,
           \A j \in Runs : /\ worker'[j] \in Before => worker[j] \in Before
                           /\ worker'[j] \in During => worker[j] \in During
                           /\ worker'[j] \in Joined => worker[j] \in Joined
    PROVE  AttributesInv'
BY DEF AttributesInv

LEMMA QueueKept ==
    ASSUME QueueInv, UNCHANGED callbacks, ~Idle',
           \A c, name : Is(c, name) <=> Is(c, name)',
           \A j \in Runs : worker'[j] \in Early => worker[j] \in Early,
           \A j \in Runs : /\ Live(j)' => Live(j)
                           /\ worker[j] \in {"test", "receive", "finally"} =>
                                worker'[j] \in {"test", "receive", "finally"}
    PROVE  QueueInv'
BY DEF QueueInv

LEMMA MoveKeeps ==
    ASSUME IInv, ~destroyed, NEW i \in Runs, NEW next, <<worker[i], next>> \in Moves,
           GoOn(i, next), UNCHANGED <<app, callbacks>>,
           next = "store_connection" => app.server_running,
           listener' \in [Runs -> {"none", "refused", "bound", "closed"}],
           \A j \in Runs \ {i} : listener'[j] = listener[j],
           worker[i] = "create" =>
               listener'[i] \in IF next = "finally" THEN {"none", "refused"} ELSE {"bound"},
           worker[i] # "create" => listener'[i] = listener[i],
           connection' \in [Runs -> {"none", "open", "closed", "shut"}],
           \A j \in Runs : worker[j] # "accept" => connection'[j] = connection[j]
    PROVE  IInv'
<1>1. TypeOK /\ CauseInv /\ ButtonsInv
  BY DEF IInv
<1>2. /\ worker'[i] = next /\ \A j \in Runs \ {i} : worker'[j] = worker[j]
      /\ worker' = [worker EXCEPT ![i] = next]
      /\ UNCHANGED <<window, task, send_lock, destroyed, history>>
  BY <1>1 DEF GoOn, TypeOK
<1>3. /\ Live(i) /\ \A j \in Runs : Live(j) <=> Live(j)'
      /\ worker[i] # "announce" /\ next # "announce" /\ next # "accept" /\ next # "create"
      /\ next \in {"test", "receive"} => worker[i] \in {"test", "receive"}
      /\ next = "store_listener" => worker[i] = "create"
      /\ worker[i] \in {"test", "receive"} => next \in {"test", "receive", "finally"}
  BY <1>2 DEF Moves, Live
<1>4. \/ worker[i] = "create" /\ next \in {"store_listener", "finally"}
      \/ worker[i] \in Before \ {"create"} /\ next = "finally"
      \/ worker[i] \in {"accept", "check_running"} /\ next \in Before \ Early
      \/ worker[i] \in During /\ next \in During \cup {"finally"}
      \/ worker[i] \in Joined /\ next \in Joined \cup {"finally"}
  BY DEF Moves, Before, Early, During, Joined
<1>5. TypeOK'
  <2>1. next \in {"finally"} \cup Before \cup During \cup Joined
    BY <1>4 DEF Before, Early
  <2>2. worker' \in [Runs -> {"none", "finally", "done"} \cup Before \cup During \cup Joined]
    BY <2>1, <1>1, <1>2 DEF TypeOK
  <2> QED BY <2>2, <1>1, <1>2 DEF TypeOK
<1>6. CauseInv'
  <2>1. \A j \in Runs : worker[j] = "done" => worker'[j] = "done" /\ listener'[j] = listener[j]
    BY <1>2, <1>3 DEF Live
  <2>2. \A j \in Runs :
          /\ worker'[j] \in {"none", "create"} => listener'[j] = "none"
          /\ worker'[j] \in (Before \ {"create"}) \cup During \cup Joined =>
                listener'[j] \in {"bound", "closed"}
    <3>1. next \notin {"none", "create"}
      BY <1>4 DEF Before, Early, During, Joined
    <3>2. next \in (Before \ {"create"}) \cup During \cup Joined =>
              listener'[i] \in {"bound", "closed"}
      BY <1>1, <1>4 DEF CauseInv, Before, Early, During, Joined
    <3> QED BY <3>1, <3>2, <1>1, <1>2 DEF CauseInv
  <2> QED BY <2>1, <2>2, <1>1, <1>2 DEF CauseInv, Is
<1>7. ButtonsInv'
  <2>1. SendPending => SendPending'
    BY <1>2, <1>3 DEF SendPending, Is, Busy
  <2> QED BY <2>1, <1>1, <1>2 DEF ButtonsInv
<1>8. ASSUME ~history.hasty PROVE PatientInv'
  <2>1. RunInv /\ AttributesInv /\ QueueInv /\ StatusInv
    BY <1>8 DEF IInv, PatientInv
  <2>2. /\ \A c \in DOMAIN callbacks : ~Is(c, "finish_server")
        /\ ~Idle /\ ~Idle' /\ \A c, name : Is(c, name) <=> Is(c, name)'
    BY <2>1, <1>3 DEF RunInv, Idle, Is
  <2>3. /\ \A j \in Runs : Live(j) => j = i
        /\ \A j \in Runs \ {i} : worker'[j] \in {"none", "done"}
    BY <2>1, <1>2, <1>3 DEF RunInv, Live
  <2>4. RunInv'
    <3>1. app.server_socket =
             IF next \in Early \/ listener'[i] \in {"none", "refused"} THEN None ELSE i
      <4>1. CASE worker[i] = "create"
        <5>1. app.server_socket = None
          BY <2>1, <4>1, <1>3 DEF RunInv, Early
        <5>2. CASE next = "finally"
          BY <5>1, <5>2, <4>1
        <5>3. CASE next = "store_listener"
          BY <5>1, <5>3 DEF Early
        <5> QED BY <4>1, <5>2, <5>3, <1>4 DEF Before, Early, During, Joined
      <4>2. CASE worker[i] # "create"
        <5>1. worker[i] \notin Early /\ next \notin Early
          BY <4>2, <1>4 DEF Moves, Before, Early, During, Joined
        <5> QED BY <2>1, <4>2, <5>1, <1>3 DEF RunInv
      <4> QED BY <4>1, <4>2
    <3> QED BY <2>1, <2>2, <2>3, <3>1, <1>2, <1>3 DEF RunInv
  <2>5. AttributesInv'
    <3>1. /\ next \in Before => worker[i] \in Before
          /\ next \in During => worker[i] \in During
          /\ next \in Joined => worker[i] \in Joined
      BY <1>4 DEF Before, Early, During, Joined
    <3>2. \A j \in Runs : /\ worker'[j] \in Before => worker[j] \in Before
                          /\ worker'[j] \in During => worker[j] \in During
                          /\ worker'[j] \in Joined => worker[j] \in Joined
      BY <3>1, <1>2
    <3>3. AttributesInv /\ app' = app /\ task' = task
      BY <2>1, <1>2
    <3> QED BY <3>2, <3>3, AttributesKept
  <2>6. QueueInv'
    <3>1. \A j \in Runs : worker'[j] \in Early => worker[j] \in Early
      BY <1>2, <1>4 DEF Before, Early, During, Joined
    <3>2. \A j \in Runs : /\ Live(j)' => Live(j)
                          /\ worker[j] \in {"test", "receive", "finally"} =>
                               worker'[j] \in {"test", "receive", "finally"}
      BY <1>2, <1>3, <1>4 DEF Before, Early, During, Joined, Moves
    <3> QED BY <2>1, <2>2, <3>1, <3>2, QueueKept
  <2>7. StatusInv'
    BY <2>1, <2>2, <1>2, <1>3 DEF StatusInv
  <2> QED BY <2>4, <2>5, <2>6, <2>7 DEF PatientInv
<1>9. ASSUME Expected PROVE ServeInv'
  <2>1. ServeInv
    BY <1>9 DEF IInv
  <2>2. /\ next \in During \cup Joined => worker[i] \in During \cup Joined
        /\ "accept" \notin During \cup Joined
    BY <1>4 DEF Before, Early, During, Joined
  <2> QED BY <2>1, <2>2, <1>2 DEF ServeInv
<1> QED BY <1>2, <1>5, <1>6, <1>7, <1>8, <1>9 DEF IInv, Expected

(* A step that stores an attribute and posts nothing.                      *)
LEMMA StoreFacts ==
    ASSUME IInv, ~destroyed, NEW i \in Runs, NEW next, GoOn(i, next),
           worker[i] \in {"store_connection", "store_channel", "store_connected"},
           next \in {"handshake", "store_connected", "announce"},
           UNCHANGED <<callbacks, listener, connection>>,
           app'.server_socket = app.server_socket
    PROVE  /\ worker' = [worker EXCEPT ![i] = next]
           /\ worker'[i] = next /\ \A j \in Runs \ {i} : worker'[j] = worker[j]
           /\ UNCHANGED <<window, task, send_lock, destroyed, history>>
           /\ CauseInv' /\ (SendPending => SendPending')
           /\ ~history.hasty => /\ RunInv' /\ QueueInv' /\ ~Idle'
                                /\ \A j \in Runs \ {i} : worker[j] \in {"none", "done"}
<1>1. TypeOK /\ CauseInv
  BY DEF IInv
<1>2. /\ worker' = [worker EXCEPT ![i] = next]
      /\ worker'[i] = next /\ \A j \in Runs \ {i} : worker'[j] = worker[j]
      /\ UNCHANGED <<window, task, send_lock, destroyed, history>>
  BY <1>1 DEF GoOn, TypeOK
<1>3. /\ Live(i) /\ \A j \in Runs : Live(j) <=> Live(j)'
      /\ worker[i] \notin Early /\ next \notin Early /\ listener[i] \in {"bound", "closed"}
  BY <1>1, <1>2 DEF Live, Early, CauseInv, Before, During, Joined
<1>4. CauseInv'
  <2>1. /\ next \notin {"none", "create"}
        /\ \A j \in Runs : worker[j] = "done" => worker'[j] = "done"
    BY <1>2, <1>3 DEF Live
  <2> QED BY <2>1, <1>1, <1>2, <1>3 DEF CauseInv, Is
<1>5. SendPending => SendPending'
  BY <1>2 DEF SendPending, Is, Busy
<1>6. ASSUME ~history.hasty
      PROVE  /\ RunInv' /\ QueueInv' /\ ~Idle'
             /\ \A j \in Runs \ {i} : worker[j] \in {"none", "done"}
  <2>1. RunInv /\ QueueInv
    BY <1>6 DEF IInv, PatientInv
  <2>2. /\ \A c \in DOMAIN callbacks : ~Is(c, "finish_server") /\ ~Is(c, "handshake_completed")
        /\ ~Idle /\ ~Idle' /\ \A c, name : Is(c, name) <=> Is(c, name)'
        /\ \A j \in Runs : Live(j) => j = i
    BY <2>1, <1>3 DEF RunInv, QueueInv, Idle, Is
  <2>3. RunInv'
    BY <2>1, <2>2, <1>2, <1>3 DEF RunInv
  <2>4. QueueInv'
    BY <2>1, <2>2, <1>2, <1>3 DEF QueueInv
  <2> QED BY <2>2, <2>3, <2>4 DEF Live
<1> QED BY <1>2, <1>4, <1>5, <1>6

LEMMA StoreConnectionKeeps ==
    ASSUME IInv, ~destroyed, NEW i \in Runs, StoreConnection(i) PROVE IInv'
<1>1. TypeOK /\ CauseInv /\ ButtonsInv
  BY DEF IInv
<1>2. /\ worker[i] = "store_connection" /\ GoOn(i, "handshake")
      /\ app' = [app EXCEPT !.client_connection = i]
      /\ UNCHANGED <<callbacks, listener, connection>>
  BY DEF StoreConnection, Store, network
<1>3. /\ app'.client_connection = i /\ app'.server_socket = app.server_socket
      /\ app'.channel = app.channel /\ app'.server_running = app.server_running
      /\ app'.client_connected = app.client_connected
  BY <1>1, <1>2 DEF TypeOK
<1>4. /\ worker' = [worker EXCEPT ![i] = "handshake"]
      /\ worker'[i] = "handshake" /\ \A j \in Runs \ {i} : worker'[j] = worker[j]
      /\ UNCHANGED <<window, task, send_lock, destroyed, history>>
      /\ CauseInv' /\ (SendPending => SendPending')
      /\ ~history.hasty => /\ RunInv' /\ QueueInv' /\ ~Idle'
                           /\ \A j \in Runs \ {i} : worker[j] \in {"none", "done"}
  BY <1>2, <1>3, StoreFacts
<1>5. TypeOK'
  BY <1>1, <1>2, <1>4 DEF TypeOK, During, Optional
<1>6. ButtonsInv'
  BY <1>1, <1>3, <1>4 DEF ButtonsInv
<1>7. ASSUME ~history.hasty PROVE AttributesInv' /\ StatusInv'
  <2>1. RunInv /\ AttributesInv /\ StatusInv
    BY <1>7 DEF IInv, PatientInv
  <2>2. /\ app.client_connection = None /\ app.channel = None /\ ~app.client_connected
        /\ app.server_socket = i
    BY <2>1, <1>1, <1>2
       DEF AttributesInv, RunInv, CauseInv, Live, Before, Early, During, Joined
  <2>3. AttributesInv'
    BY <2>1, <2>2, <1>3, <1>4, <1>7 DEF AttributesInv, Before, Early, During, Joined, Runs
  <2>4. StatusInv'
    BY <2>1, <1>2, <1>3, <1>4, <1>7 DEF StatusInv, Is
  <2> QED BY <2>3, <2>4
<1>8. ASSUME Expected PROVE ServeInv'
  BY <1>2, <1>3, <1>4, <1>8 DEF IInv, ServeInv, During, Joined
<1> QED BY <1>4, <1>5, <1>6, <1>7, <1>8 DEF IInv, PatientInv, Expected

LEMMA StoreChannelKeeps ==
    ASSUME IInv, ~destroyed, NEW i \in Runs, StoreChannel(i) PROVE IInv'
<1>1. TypeOK /\ CauseInv /\ ButtonsInv
  BY DEF IInv
<1>2. PICK next \in {"store_connected", "announce"} :
        /\ GoOn(i, next) /\ UNCHANGED <<callbacks, listener, connection>>
        /\ \/ /\ worker[i] = "store_channel" /\ next = "store_connected"
              /\ app' = [app EXCEPT !.channel = i]
           \/ /\ worker[i] = "store_connected" /\ next = "announce"
              /\ app' = [app EXCEPT !.client_connected = TRUE]
  BY DEF StoreChannel, Store, network
<1>3. /\ app'.client_connection = app.client_connection
      /\ app'.server_socket = app.server_socket
      /\ app'.server_running = app.server_running
      /\ next = "store_connected" =>
            app'.channel = i /\ (app'.client_connected <=> app.client_connected)
      /\ next = "announce" => app'.channel = app.channel /\ app'.client_connected
  BY <1>1, <1>2 DEF TypeOK
<1>4. /\ worker' = [worker EXCEPT ![i] = next]
      /\ worker'[i] = next /\ \A j \in Runs \ {i} : worker'[j] = worker[j]
      /\ UNCHANGED <<window, task, send_lock, destroyed, history>>
      /\ CauseInv' /\ (SendPending => SendPending')
      /\ ~history.hasty => /\ RunInv' /\ QueueInv' /\ ~Idle'
                           /\ \A j \in Runs \ {i} : worker[j] \in {"none", "done"}
  BY <1>2, <1>3, StoreFacts
<1>5. TypeOK'
  BY <1>1, <1>2, <1>4 DEF TypeOK, Joined, Optional
<1>6. ButtonsInv'
  <2>1. next = "announce" => SendPending'
    BY <1>4 DEF SendPending
  <2> QED BY <2>1, <1>1, <1>2, <1>3, <1>4 DEF ButtonsInv
<1>7. ASSUME ~history.hasty PROVE AttributesInv' /\ StatusInv'
  <2>1. RunInv /\ AttributesInv /\ StatusInv
    BY <1>7 DEF IInv, PatientInv
  <2>2. /\ app.client_connection = i /\ app.server_socket = i
        /\ next = "announce" => app.channel = i
    BY <2>1, <1>1, <1>2
       DEF AttributesInv, RunInv, CauseInv, Live, Before, Early, During, Joined
  <2>3. AttributesInv'
    BY <2>1, <2>2, <1>2, <1>3, <1>4, <1>7 DEF AttributesInv, Before, Early, During, Joined, Runs
  <2>4. StatusInv'
    BY <2>1, <1>2, <1>3, <1>4, <1>7 DEF StatusInv, Is
  <2> QED BY <2>3, <2>4
<1>8. ASSUME Expected PROVE ServeInv'
  BY <1>2, <1>3, <1>4, <1>8 DEF IInv, ServeInv, During, Joined
<1> QED BY <1>4, <1>5, <1>6, <1>7, <1>8 DEF IInv, PatientInv, Expected
-----------------------------------------------------------------------------
(* The steps of server_worker that post a callback.                        *)
Posted(n, name, i) ==
    /\ n \in Nat \ DOMAIN callbacks /\ DOMAIN callbacks' = DOMAIN callbacks \cup {n}
    /\ callbacks'[n] = [name |-> name, socket |-> i]
    /\ \A c \in DOMAIN callbacks : callbacks'[c] = callbacks[c] /\ c < n /\ c \in Nat

LEMMA PostFacts ==
    ASSUME TypeOK, NEW i \in Optional,
           NEW name \in {"server_started", "handshake_completed", "finish_server",
                         "_update_controls"},
           Post(name, i)
    PROVE  callbacks' \in Seq(Callback) /\ \E n : Posted(n, name, i)
<1> DEFINE e == [name |-> name, socket |-> i]
<1>1. callbacks \in Seq(Callback) /\ e \in Callback /\ callbacks' = Append(callbacks, e)
  BY DEF TypeOK, Callback, Post
<1> QED BY <1>1, AppendFacts DEF Posted

LEMMA PostedFacts ==
    ASSUME NEW n, NEW name, NEW i, Posted(n, name, i)
    PROVE  /\ \A c \in DOMAIN callbacks : \A nm : Is(c, nm) <=> Is(c, nm)'
           /\ \A nm : Is(n, nm)' <=> nm = name
           /\ \A nm : (\E c \in DOMAIN callbacks' : Is(c, nm)')
                        <=> nm = name \/ \E c \in DOMAIN callbacks : Is(c, nm)
BY DEF Posted, Is

LEMMA StoreListenerKeeps ==
    ASSUME IInv, ~destroyed, NEW i \in Runs, StoreListener(i) PROVE IInv'
<1>1. TypeOK /\ CauseInv /\ ButtonsInv
  BY DEF IInv
<1>2. /\ worker[i] = "store_listener" /\ worker' = [worker EXCEPT ![i] = "accept"]
      /\ app' = [app EXCEPT !.server_socket = i]
      /\ UNCHANGED <<window, task, send_lock, listener, connection, destroyed, history>>
  BY DEF StoreListener, Store, GoOn, network
<1>3. /\ app'.server_socket = i /\ app'.client_connection = app.client_connection
      /\ app'.channel = app.channel /\ app'.server_running = app.server_running
      /\ app'.client_connected = app.client_connected
      /\ worker'[i] = "accept" /\ \A j \in Runs \ {i} : worker'[j] = worker[j]
      /\ listener[i] \in {"bound", "closed"}
  BY <1>1, <1>2 DEF TypeOK, CauseInv, Before, Early
<1>4. callbacks' \in Seq(Callback) /\ \E n : Posted(n, "server_started", None)
  BY <1>1, PostFacts DEF StoreListener, Optional
<1>5. PICK n : Posted(n, "server_started", None)
  BY <1>4
<1>6. /\ \A c \in DOMAIN callbacks : \A name : Is(c, name) <=> Is(c, name)'
      /\ \A name : Is(n, name)' <=> name = "server_started"
      /\ \A name : (\E c \in DOMAIN callbacks' : Is(c, name)')
                      <=> name = "server_started" \/ \E c \in DOMAIN callbacks : Is(c, name)
  BY <1>5, PostedFacts
<1>7. TypeOK'
  BY <1>1, <1>2, <1>4 DEF TypeOK, Optional, Before
<1>8. CauseInv'
  <2>1. \A j \in Runs : worker[j] = "done" => worker'[j] = "done"
    BY <1>2, <1>3
  <2>2. \A c \in DOMAIN callbacks' : Is(c, "finish_server")' =>
           c \in DOMAIN callbacks /\ Is(c, "finish_server") /\ callbacks'[c] = callbacks[c]
    BY <1>5, <1>6 DEF Posted
  <2>3. \A j \in Runs :
          /\ worker'[j] \in {"none", "create"} => listener'[j] = "none"
          /\ worker'[j] \in (Before \ {"create"}) \cup During \cup Joined =>
                listener'[j] \in {"bound", "closed"}
    BY <1>1, <1>2, <1>3 DEF CauseInv
  <2> QED BY <2>1, <2>2, <2>3, <1>1, <1>2 DEF CauseInv
<1>9. ButtonsInv'
  <2>1. SendPending => SendPending'
    BY <1>2, <1>3, <1>6 DEF SendPending, Busy
  <2> QED BY <2>1, <1>1, <1>2, <1>3 DEF ButtonsInv
<1>10. ASSUME ~history.hasty PROVE PatientInv'
  <2>1. RunInv /\ AttributesInv /\ QueueInv /\ StatusInv
    BY <1>10 DEF IInv, PatientInv
  <2>2. /\ Live(i) /\ Live(i)' /\ ~Idle /\ ~Idle'
        /\ \A j \in Runs \ {i} : worker[j] \in {"none", "done"}
        /\ \A c \in DOMAIN callbacks : ~Is(c, "finish_server") /\ ~Is(c, "handshake_completed")
    BY <2>1, <1>2, <1>3 DEF RunInv, QueueInv, Live, Idle
  <2>3. app.client_connection = None /\ app.channel = None /\ ~app.client_connected
    BY <2>1, <1>2 DEF AttributesInv, Before, Early
  <2>4. RunInv'
    BY <2>2, <1>2, <1>3, <1>6 DEF RunInv, Live, Early
  <2>5. AttributesInv'
    BY <2>1, <2>2, <2>3, <1>2, <1>3 DEF AttributesInv, Before, Early, During, Joined
  <2>6. QueueInv'
    BY <2>2, <1>3, <1>6 DEF QueueInv, Early
  <2>7. StatusInv'
    BY <2>2, <1>3, <1>6 DEF StatusInv
  <2> QED BY <2>4, <2>5, <2>6, <2>7 DEF PatientInv
<1>11. ASSUME Expected PROVE ServeInv'
  BY <1>2, <1>3, <1>11 DEF IInv, ServeInv, During, Joined
<1> QED BY <1>2, <1>7, <1>8, <1>9, <1>10, <1>11 DEF IInv, Expected

LEMMA AnnounceKeeps ==
    ASSUME IInv, ~destroyed, NEW i \in Runs, Announce(i) PROVE IInv'
<1>1. TypeOK /\ CauseInv /\ ButtonsInv
  BY DEF IInv
<1>2. /\ worker[i] = "announce" /\ worker' = [worker EXCEPT ![i] = "test"]
      /\ UNCHANGED <<app, window, task, send_lock, listener, connection, destroyed, history>>
  BY DEF Announce, GoOn, network
<1>3. worker'[i] = "test" /\ \A j \in Runs \ {i} : worker'[j] = worker[j]
  BY <1>1, <1>2 DEF TypeOK
<1>4. callbacks' \in Seq(Callback) /\ \E n : Posted(n, "handshake_completed", None)
  BY <1>1, PostFacts DEF Announce, Optional
<1>5. PICK n : Posted(n, "handshake_completed", None)
  BY <1>4
<1>6. /\ \A c \in DOMAIN callbacks : \A name : Is(c, name) <=> Is(c, name)'
      /\ \A name : Is(n, name)' <=> name = "handshake_completed"
      /\ \A name : (\E c \in DOMAIN callbacks' : Is(c, name)')
                      <=> name = "handshake_completed" \/ \E c \in DOMAIN callbacks : Is(c, name)
  BY <1>5, PostedFacts
<1>7. TypeOK'
  BY <1>1, <1>2, <1>4 DEF TypeOK, Joined
<1>8. CauseInv'
  <2>1. \A j \in Runs : worker[j] = "done" => worker'[j] = "done"
    BY <1>2, <1>3
  <2>2. \A c \in DOMAIN callbacks' : Is(c, "finish_server")' =>
           c \in DOMAIN callbacks /\ Is(c, "finish_server") /\ callbacks'[c] = callbacks[c]
    BY <1>5, <1>6 DEF Posted
  <2>3. \A j \in Runs :
          /\ worker'[j] \in {"none", "create"} => listener'[j] = "none"
          /\ worker'[j] \in (Before \ {"create"}) \cup During \cup Joined =>
                listener'[j] \in {"bound", "closed"}
    BY <1>1, <1>2, <1>3 DEF CauseInv, Joined
  <2> QED BY <2>1, <2>2, <2>3, <1>1, <1>2 DEF CauseInv
<1>9. ButtonsInv'
  <2>1. SendPending'
    BY <1>6 DEF SendPending
  <2> QED BY <2>1, <1>1, <1>2 DEF ButtonsInv
<1>10. ASSUME ~history.hasty PROVE PatientInv'
  <2>1. RunInv /\ AttributesInv /\ QueueInv /\ StatusInv
    BY <1>10 DEF IInv, PatientInv
  <2>2. /\ Live(i) /\ Live(i)' /\ ~Idle /\ ~Idle'
        /\ \A j \in Runs \ {i} : worker[j] \in {"none", "done"}
        /\ \A c \in DOMAIN callbacks : ~Is(c, "finish_server") /\ ~Is(c, "handshake_completed")
    BY <2>1, <1>2, <1>3 DEF RunInv, QueueInv, Live, Idle
  <2>3. RunInv'
    BY <2>1, <2>2, <1>2, <1>3, <1>6 DEF RunInv, Live, Early
  <2>4. AttributesInv'
    <3>1. \A j \in Runs : /\ worker'[j] \in Before => worker[j] \in Before
                          /\ worker'[j] \in During => worker[j] \in During
                          /\ worker'[j] \in Joined => worker[j] \in Joined
      BY <1>2, <1>3 DEF Before, Early, During, Joined
    <3> QED BY <2>1, <3>1, <1>2, AttributesKept
  <2>5. QueueInv'
    <3>1. \A c \in DOMAIN callbacks' : c \in DOMAIN callbacks \/ c = n
      BY <1>5 DEF Posted
    <3>2. \A c \in DOMAIN callbacks : c < n
      BY <1>5 DEF Posted
    <3>3. \A c \in DOMAIN callbacks' : ~Is(c, "finish_server")'
      BY <2>2, <3>1, <1>6
    <3>4. \A j \in Runs : worker'[j] \notin Early /\ (Live(j)' => j = i)
      BY <2>2, <1>3 DEF Early, Live
    <3> QED BY <2>1, <2>2, <3>1, <3>2, <3>3, <3>4, <1>3, <1>6 DEF QueueInv
  <2>6. StatusInv'
    BY <2>1, <2>2, <1>2, <1>3, <1>6 DEF StatusInv
  <2> QED BY <2>3, <2>4, <2>5, <2>6 DEF PatientInv
<1>11. ASSUME Expected PROVE ServeInv'
  BY <1>2, <1>3, <1>11 DEF IInv, ServeInv, During, Joined
<1> QED BY <1>2, <1>7, <1>8, <1>9, <1>10, <1>11 DEF IInv, Expected

LEMMA FinallyKeeps ==
    ASSUME IInv, ~destroyed, NEW i \in Runs, Finally(i) PROVE IInv'
<1> DEFINE s == IF listener[i] = "none" THEN None ELSE i
<1>1. TypeOK /\ CauseInv /\ ButtonsInv
  BY DEF IInv
<1>2. /\ worker[i] = "finally" /\ worker' = [worker EXCEPT ![i] = "done"]
      /\ listener' = Unlisten(i) /\ connection' = CloseOnly(i)
      /\ UNCHANGED <<app, window, task, send_lock, destroyed, history>>
  BY DEF Finally, GoOn
<1>3. /\ worker'[i] = "done" /\ \A j \in Runs \ {i} : worker'[j] = worker[j]
      /\ listener' \in [Runs -> {"none", "refused", "bound", "closed"}]
      /\ connection' \in [Runs -> {"none", "open", "closed", "shut"}]
      /\ \A j \in Runs : /\ listener'[j] = "none" <=> listener[j] = "none"
                         /\ listener'[j] = "refused" <=> listener[j] = "refused"
                         /\ listener[j] \in {"bound", "closed"} =>
                                listener'[j] \in {"bound", "closed"}
      /\ \A j \in Runs \ {i} : connection'[j] = connection[j]
  BY <1>1, <1>2 DEF TypeOK, Unlisten, CloseOnly
<1>4. callbacks' \in Seq(Callback) /\ \E n : Posted(n, "finish_server", s)
  BY <1>1, PostFacts DEF Finally, Optional
<1>5. PICK n : Posted(n, "finish_server", s)
  BY <1>4
<1> HIDE DEF s
<1>6. /\ \A c \in DOMAIN callbacks : \A name : Is(c, name) <=> Is(c, name)'
      /\ \A name : Is(n, name)' <=> name = "finish_server"
      /\ \A name : (\E c \in DOMAIN callbacks' : Is(c, name)')
                      <=> name = "finish_server" \/ \E c \in DOMAIN callbacks : Is(c, name)
      /\ \A c \in DOMAIN callbacks' : c \in DOMAIN callbacks \/ c = n
      /\ \A c \in DOMAIN callbacks : c < n /\ callbacks'[c] = callbacks[c]
      /\ callbacks'[n].socket = s /\ n \in DOMAIN callbacks'
  BY <1>5, PostedFacts DEF Posted
<1>7. TypeOK'
  BY <1>1, <1>2, <1>3, <1>4 DEF TypeOK
<1>8. CauseInv'
  <2>1. \A j \in Runs : worker[j] = "done" => worker'[j] = "done"
    BY <1>2, <1>3
  <2>2. \/ s \in Runs /\ worker'[s] = "done"
        \/ s = None /\ \E j \in Runs : listener'[j] = "none" /\ worker'[j] = "done"
    BY <1>3 DEF s
  <2>3. \A c \in DOMAIN callbacks' : Is(c, "finish_server")' =>
          \/ callbacks'[c].socket \in Runs /\ worker'[callbacks'[c].socket] = "done"
          \/ /\ callbacks'[c].socket = None
             /\ \E j \in Runs : listener'[j] = "none" /\ worker'[j] = "done"
    <3> TAKE c \in DOMAIN callbacks'
    <3>1. CASE c = n
      BY <2>2, <3>1, <1>6
    <3>2. CASE c \in DOMAIN callbacks
      BY <2>1, <3>2, <1>1, <1>3, <1>6 DEF CauseInv
    <3> QED BY <3>1, <3>2, <1>6
  <2>4. \A j \in Runs :
          /\ worker'[j] \in {"none", "create"} => listener'[j] = "none"
          /\ worker'[j] \in (Before \ {"create"}) \cup During \cup Joined =>
                listener'[j] \in {"bound", "closed"}
    BY <1>1, <1>3 DEF CauseInv, Before, Early, During, Joined
  <2> QED BY <2>3, <2>4, <1>1, <1>2 DEF CauseInv
<1>9. ButtonsInv'
  <2>1. SendPending => SendPending'
    BY <1>2, <1>3, <1>6 DEF SendPending, Busy
  <2> QED BY <2>1, <1>1, <1>2 DEF ButtonsInv
<1>10. ASSUME ~history.hasty PROVE PatientInv'
  <2>1. RunInv /\ AttributesInv /\ QueueInv /\ StatusInv
    BY <1>10 DEF IInv, PatientInv
  <2>2. /\ \A j \in Runs : ~Live(j)' /\ ~Idle'
        /\ \A j \in Runs : worker'[j] \in {"none", "done"}
        /\ \A c \in DOMAIN callbacks : ~Is(c, "finish_server")
        /\ ~Idle
    BY <2>1, <1>2, <1>3, <1>6 DEF RunInv, Live, Idle
  <2>3. s \in Runs => app.server_socket = IF listener[s] = "refused" THEN None ELSE s
    <3>1. app.server_socket = IF listener[i] \in {"none", "refused"} THEN None ELSE i
      BY <2>1, <1>2 DEF RunInv, Live, Early
    <3> QED BY <3>1 DEF s, Runs
  <2>4. RunInv'
    <3>1. \A c \in DOMAIN callbacks' : Is(c, "finish_server")' => c = n
      BY <2>2, <1>6
    <3> QED BY <2>2, <2>3, <3>1, <1>2, <1>3, <1>6 DEF RunInv
  <2>5. AttributesInv'
    <3>1. \A j \in Runs : worker'[j] \notin Before \cup During \cup Joined
      BY <2>2 DEF Before, Early, During, Joined
    <3> QED BY <2>1, <3>1, <1>2, AttributesKept
  <2>6. QueueInv'
    BY <2>1, <2>2, <1>6 DEF QueueInv, Early
  <2>7. StatusInv'
    BY <2>2 DEF StatusInv
  <2> QED BY <2>4, <2>5, <2>6, <2>7 DEF PatientInv
<1>11. ASSUME Expected PROVE ServeInv'
  BY <1>2, <1>3, <1>11 DEF IInv, ServeInv, During, Joined
<1> QED BY <1>2, <1>7, <1>8, <1>9, <1>10, <1>11 DEF IInv, Expected
-----------------------------------------------------------------------------
(* send_worker and stop_worker.                                            *)
Matches(k) == \/ task[k].channel = task[k].connection
              \/ task[k].kind = "stop" /\ task[k].channel = None

LEMMA TaskGoesOnFacts ==
    ASSUME TypeOK, CauseInv, NEW k \in Tasks, Busy(k),
           NEW next \in {"sending", "update", "shutdown", "unlisten", "done"},
           TaskGoesOn(k, next),
           next = "update" => task[k].kind = "send",
           next \in {"shutdown", "unlisten"} => task[k].kind = "stop"
    PROVE  /\ task' \in [Tasks -> Task] /\ task'[k].pc = next
           /\ task'[k].kind = task[k].kind /\ task[k].kind \in {"send", "stop"}
           /\ next # "done" => task'[k].connection = task[k].connection
           /\ \A m \in Tasks \ {k} : task'[m] = task[m]
           /\ \A m \in Tasks :
                 /\ task'[m].kind = "none" => task'[m] = NoTask
                 /\ task'[m].pc = "update" => task'[m].kind = "send"
                 /\ task'[m].pc \in {"shutdown", "unlisten"} => task'[m].kind = "stop"
                 /\ Matches(m) => Matches(m)'
           /\ UNCHANGED <<app, window, worker, destroyed, history>>
<1>1. task[k] \in Task /\ task[k].kind \in {"send", "stop"}
  <2>1. task[k] \in Task
    BY DEF TypeOK
  <2> QED BY <2>1 DEF CauseInv, Busy, NoTask, Task
<1>2. /\ task' \in [Tasks -> Task]
      /\ \A m \in Tasks \ {k} : task'[m] = task[m]
      /\ UNCHANGED <<app, window, worker, destroyed, history>>
  BY <1>1 DEF TypeOK, TaskGoesOn, NoTask, Task, Optional
<1>3. CASE next = "done"
  <2>1. task'[k] = [NoTask EXCEPT !.kind = task[k].kind, !.pc = "done"]
    BY <1>3 DEF TypeOK, TaskGoesOn
  <2>2. /\ task'[k].kind = task[k].kind /\ task'[k].pc = "done"
        /\ task'[k].channel = None /\ task'[k].connection = None
    BY <2>1 DEF NoTask
  <2> QED BY <2>2, <1>1, <1>2, <1>3 DEF CauseInv, Matches
<1>4. CASE next # "done"
  <2>1. task'[k] = [task[k] EXCEPT !.pc = next]
    BY <1>4 DEF TypeOK, TaskGoesOn
  <2>2. /\ task'[k].kind = task[k].kind /\ task'[k].pc = next
        /\ task'[k].channel = task[k].channel /\ task'[k].connection = task[k].connection
    BY <2>1, <1>1 DEF Task
  <2> QED BY <2>2, <1>1, <1>2, <1>4 DEF CauseInv, Matches
<1> QED BY <1>3, <1>4

(* What a step of a task leaves alone, whether it posts anything or not.   *)
LEMMA TaskKeeps ==
    ASSUME IInv, ~destroyed, NEW k \in Tasks, Busy(k),
           NEW next \in {"sending", "update", "shutdown", "unlisten", "done"},
           TaskGoesOn(k, next), callbacks' = callbacks,
           next = "update" => task[k].kind = "send",
           next \in {"shutdown", "unlisten", "done"} => task[k].kind = "stop",
           next = "unlisten" /\ task[k].connection \in Runs =>
               connection'[task[k].connection] # "open",
           next = "done" => task[k].pc = "unlisten",
           send_lock' \in Tasks \cup {None},
           listener' \in [Runs -> {"none", "refused", "bound", "closed"}],
           connection' \in [Runs -> {"none", "open", "closed", "shut"}],
           \A j \in Runs : /\ listener'[j] = "none" <=> listener[j] = "none"
                           /\ listener'[j] = "refused" <=> listener[j] = "refused"
                           /\ listener[j] \in {"bound", "closed"} =>
                                  listener'[j] \in {"bound", "closed"},
           \A j \in Runs : connection'[j] = "open" => connection[j] = "open"
    PROVE  IInv'
<1>1. TypeOK /\ CauseInv /\ ButtonsInv
  BY DEF IInv
<1>2. /\ task' \in [Tasks -> Task] /\ task'[k].pc = next
      /\ task'[k].kind = task[k].kind /\ task[k].kind \in {"send", "stop"}
      /\ next # "done" => task'[k].connection = task[k].connection
      /\ \A m \in Tasks \ {k} : task'[m] = task[m]
      /\ \A m \in Tasks :
            /\ task'[m].kind = "none" => task'[m] = NoTask
            /\ task'[m].pc = "update" => task'[m].kind = "send"
            /\ task'[m].pc \in {"shutdown", "unlisten"} => task'[m].kind = "stop"
            /\ Matches(m) => Matches(m)'
      /\ UNCHANGED <<app, window, worker, destroyed, history>>
  BY <1>1, TaskGoesOnFacts
<1>3. TypeOK'
  BY <1>1, <1>2 DEF TypeOK
<1>4. CauseInv'
  <2>1. /\ \A c \in DOMAIN callbacks : Is(c, "finish_server") =>
              \/ callbacks[c].socket \in Runs /\ worker[callbacks[c].socket] = "done"
              \/ /\ callbacks[c].socket = None
                 /\ \E j \in Runs : listener'[j] = "none" /\ worker[j] = "done"
        /\ \A j \in Runs :
              /\ worker[j] \in {"none", "create"} => listener'[j] = "none"
              /\ worker[j] \in (Before \ {"create"}) \cup During \cup Joined =>
                    listener'[j] \in {"bound", "closed"}
    BY <1>1 DEF CauseInv
  <2> QED BY <2>1, <1>2 DEF CauseInv, Is
<1>5. ButtonsInv'
  <2>1. SendPending => SendPending'
    BY <1>2 DEF SendPending, Is, Busy
  <2> QED BY <2>1, <1>1, <1>2 DEF ButtonsInv
<1>6. ASSUME ~history.hasty PROVE PatientInv'
  <2>1. RunInv /\ AttributesInv /\ QueueInv /\ StatusInv
    BY <1>6 DEF IInv, PatientInv
  <2>2. /\ \A j \in Runs : Live(j)' <=> Live(j)
        /\ \A c, name : Is(c, name)' <=> Is(c, name)
        /\ Idle' <=> Idle
    BY <1>2 DEF Live, Is, Idle
  <2>3. RunInv'
    BY <2>1, <2>2, <1>2 DEF RunInv
  <2>4. AttributesInv'
    BY <2>1, <1>2 DEF AttributesInv, Matches
  <2>5. QueueInv'
    BY <2>1, <2>2, <1>2 DEF QueueInv
  <2>6. StatusInv'
    <3>1. BindRefused' <=> BindRefused
      BY DEF BindRefused
    <3> QED BY <2>1, <2>2, <3>1, <1>2 DEF StatusInv
  <2> QED BY <2>3, <2>4, <2>5, <2>6 DEF PatientInv
<1>7. ASSUME Expected PROVE ServeInv'
  <2>1. ServeInv
    BY <1>7 DEF IInv
  <2>2. ASSUME NEW j \in Runs, NEW m \in Tasks, task[m].kind = "stop", task[m].connection = j,
               task[m].pc \in {"waiting", "sending", "shutdown"}, connection'[j] = "open"
        PROVE  /\ task'[m].kind = "stop" /\ task'[m].connection = j
               /\ task'[m].pc \in {"waiting", "sending", "shutdown"}
    <3>1. CASE m # k
      BY <2>2, <3>1, <1>2
    <3>2. CASE m = k
      <4>1. next \in {"sending", "shutdown"}
        BY <2>2, <3>2
      <4> QED BY <2>2, <3>2, <4>1, <1>2
    <3> QED BY <3>1, <3>2
  <2> QED BY <2>1, <2>2, <1>2 DEF ServeInv
<1> QED BY <1>2, <1>3, <1>4, <1>5, <1>6, <1>7 DEF IInv, Expected

LEMMA TaskMovesKeeps ==
    ASSUME IInv, ~destroyed, NEW k \in Tasks,
           \/ SkipClose(k) \/ AcquireLock(k) \/ SendReturns(k) \/ SendRaises(k)
           \/ ShutdownAndClose(k) \/ StopListening(k)
    PROVE  IInv'
<1>1. TypeOK /\ CauseInv /\ task[k] \in Task
  BY DEF IInv, TypeOK
<1>2. CASE SkipClose(k)
  <2>1. /\ Busy(k) /\ task[k].kind = "stop" /\ TaskGoesOn(k, "shutdown")
        /\ UNCHANGED <<callbacks, send_lock, listener, connection>>
    BY <1>2 DEF SkipClose, Busy, network
  <2> QED BY <2>1, <1>1, TaskKeeps DEF TypeOK
<1>3. CASE AcquireLock(k)
  <2>1. /\ Busy(k) /\ TaskGoesOn(k, "sending") /\ send_lock' = k
        /\ UNCHANGED <<callbacks, listener, connection>>
    BY <1>3 DEF AcquireLock, Busy, network
  <2> QED BY <2>1, <1>1, TaskKeeps DEF TypeOK
<1>4. CASE SendReturns(k) \/ SendRaises(k)
  <2>1. /\ Busy(k) /\ send_lock' = None /\ TaskGoesOn(k, AfterSend(task[k].kind))
        /\ UNCHANGED <<callbacks, listener, connection>>
    BY <1>4 DEF SendReturns, SendRaises, Busy, network
  <2>2. task[k].kind \in {"send", "stop"}
    BY <2>1, <1>1 DEF CauseInv, Busy, NoTask, Task
  <2>3. CASE task[k].kind = "send"
    <3>1. TaskGoesOn(k, "update")
      BY <2>1, <2>3 DEF AfterSend
    <3> QED BY <2>1, <2>3, <3>1, <1>1, TaskKeeps DEF TypeOK
  <2>4. CASE task[k].kind = "stop"
    <3>1. TaskGoesOn(k, "shutdown")
      BY <2>1, <2>4 DEF AfterSend
    <3> QED BY <2>1, <2>4, <3>1, <1>1, TaskKeeps DEF TypeOK
  <2> QED BY <2>2, <2>3, <2>4
<1>5. CASE ShutdownAndClose(k)
  <2>1. /\ Busy(k) /\ task[k].kind = "stop" /\ TaskGoesOn(k, "unlisten")
        /\ connection' = IF task[k].connection = None THEN connection
                         ELSE ShutDown(task[k].connection)
        /\ UNCHANGED <<callbacks, send_lock, listener>>
    BY <1>1, <1>5 DEF ShutdownAndClose, Busy, CauseInv
  <2>2. /\ connection' \in [Runs -> {"none", "open", "closed", "shut"}]
        /\ \A j \in Runs : connection'[j] = "open" => connection[j] = "open"
        /\ task[k].connection \in Runs => connection'[task[k].connection] # "open"
    <3> DEFINE i == task[k].connection
    <3>1. CASE i \in Runs
      <4>1. connection' = [connection EXCEPT ![i] = IF @ = "open" THEN "shut" ELSE @]
        BY <2>1, <3>1 DEF ShutDown, Runs
      <4> HIDE DEF i
      <4>2. connection' \in [Runs -> {"none", "open", "closed", "shut"}]
        BY <4>1, <1>1 DEF TypeOK
      <4>3. connection'[i] # "open" /\ \A j \in Runs \ {i} : connection'[j] = connection[j]
        BY <3>1, <4>1, <1>1 DEF TypeOK
      <4> QED BY <4>2, <4>3 DEF i
    <3>2. CASE i = None
      <4>1. connection' = connection /\ i \notin Runs
        BY <2>1, <3>2 DEF Runs
      <4> QED BY <4>1, <1>1 DEF TypeOK
    <3> QED BY <3>1, <3>2, <1>1 DEF Task, Optional
  <2> QED BY <2>1, <2>2, <1>1, TaskKeeps DEF TypeOK
<1>6. CASE StopListening(k)
  <2>1. /\ Busy(k) /\ task[k].kind = "stop" /\ TaskGoesOn(k, "done")
        /\ task[k].pc = "unlisten"
        /\ listener' = IF task[k].listener = None THEN listener
                       ELSE Unlisten(task[k].listener)
        /\ UNCHANGED <<callbacks, send_lock, connection>>
    BY <1>1, <1>6 DEF StopListening, Busy, CauseInv
  <2>2. /\ listener' \in [Runs -> {"none", "refused", "bound", "closed"}]
        /\ \A j \in Runs : /\ listener'[j] = "none" <=> listener[j] = "none"
                           /\ listener'[j] = "refused" <=> listener[j] = "refused"
                           /\ listener[j] \in {"bound", "closed"} =>
                                  listener'[j] \in {"bound", "closed"}
    <3>1. CASE task[k].listener \in Runs
      BY <2>1, <3>1, <1>1 DEF TypeOK, Unlisten, Runs
    <3>2. CASE task[k].listener = None
      BY <2>1, <3>2, <1>1 DEF TypeOK
    <3> QED BY <3>1, <3>2, <1>1 DEF Task, Optional
  <2> QED BY <2>1, <2>2, <1>1, TaskKeeps DEF TypeOK
<1> QED BY <1>2, <1>3, <1>4, <1>5, <1>6

LEMMA SendFinallyKeeps ==
    ASSUME IInv, ~destroyed, NEW k \in Tasks, SendFinally(k) PROVE IInv'
<1>1. TypeOK /\ CauseInv /\ ButtonsInv
  BY DEF IInv
<1>2. /\ Busy(k) /\ task[k].kind = "send" /\ TaskGoesOn(k, "done")
      /\ UNCHANGED <<send_lock, listener, connection>>
  BY <1>1 DEF SendFinally, Busy, CauseInv, network
<1>3. /\ task' \in [Tasks -> Task] /\ task'[k].pc = "done"
      /\ task'[k].kind = task[k].kind
      /\ \A m \in Tasks \ {k} : task'[m] = task[m]
      /\ \A m \in Tasks :
            /\ task'[m].kind = "none" => task'[m] = NoTask
            /\ task'[m].pc = "update" => task'[m].kind = "send"
            /\ task'[m].pc \in {"shutdown", "unlisten"} => task'[m].kind = "stop"
            /\ Matches(m) => Matches(m)'
      /\ UNCHANGED <<app, window, worker, destroyed, history>>
  BY <1>1, <1>2, TaskGoesOnFacts
<1>4. callbacks' \in Seq(Callback) /\ \E n : Posted(n, "_update_controls", None)
  BY <1>1, PostFacts DEF SendFinally, Optional
<1>5. PICK n : Posted(n, "_update_controls", None)
  BY <1>4
<1>6. /\ \A c \in DOMAIN callbacks : \A name : Is(c, name) <=> Is(c, name)'
      /\ \A name : Is(n, name)' <=> name = "_update_controls"
      /\ \A name : (\E c \in DOMAIN callbacks' : Is(c, name)')
                      <=> name = "_update_controls" \/ \E c \in DOMAIN callbacks : Is(c, name)
      /\ \A c \in DOMAIN callbacks' : c \in DOMAIN callbacks \/ c = n
      /\ \A c \in DOMAIN callbacks : callbacks'[c] = callbacks[c] /\ c \in DOMAIN callbacks'
  BY <1>5, PostedFacts DEF Posted
<1>7. TypeOK'
  BY <1>1, <1>2, <1>3, <1>4 DEF TypeOK
<1>8. CauseInv'
  <2>1. \A c \in DOMAIN callbacks' : Is(c, "finish_server")' =>
           c \in DOMAIN callbacks /\ Is(c, "finish_server") /\ callbacks'[c] = callbacks[c]
    BY <1>6
  <2> QED BY <2>1, <1>1, <1>2, <1>3 DEF CauseInv
<1>9. ButtonsInv'
  <2>1. SendPending'
    BY <1>6 DEF SendPending
  <2> QED BY <2>1, <1>1, <1>3 DEF ButtonsInv
<1>10. ASSUME ~history.hasty PROVE PatientInv'
  <2>1. RunInv /\ AttributesInv /\ QueueInv /\ StatusInv
    BY <1>10 DEF IInv, PatientInv
  <2>2. /\ \A j \in Runs : Live(j)' <=> Live(j)
        /\ Idle' <=> Idle
    BY <1>3, <1>6 DEF Live, Idle
  <2>3. \A c \in DOMAIN callbacks' : \A name :
           Is(c, name)' /\ name # "_update_controls" => c \in DOMAIN callbacks /\ Is(c, name)
    BY <1>6
  <2>4. RunInv'
    BY <2>1, <2>2, <2>3, <1>2, <1>3, <1>6 DEF RunInv
  <2>5. AttributesInv'
    BY <2>1, <1>3 DEF AttributesInv, Matches
  <2>6. QueueInv'
    BY <2>1, <2>2, <2>3, <1>3, <1>6 DEF QueueInv
  <2>7. StatusInv'
    <3>1. BindRefused' <=> BindRefused
      BY <1>2 DEF BindRefused
    <3> QED BY <2>1, <2>2, <2>3, <3>1, <1>3, <1>6 DEF StatusInv
  <2> QED BY <2>4, <2>5, <2>6, <2>7 DEF PatientInv
<1>11. ASSUME Expected PROVE ServeInv'
  <2>1. ServeInv
    BY <1>11 DEF IInv
  <2> QED BY <2>1, <1>2, <1>3 DEF ServeInv
<1> QED BY <1>3, <1>7, <1>8, <1>9, <1>10, <1>11 DEF IInv, Expected
-----------------------------------------------------------------------------
LEMMA WorkerStepKeeps ==
    ASSUME IInv, ~destroyed, NEW i \in Runs,
           \/ WorkerStep(i) \/ Accept(i) \/ AcceptFails(i) \/ HandshakeSucceeds(i)
           \/ HandshakeFails(i) \/ ReceiveRaises(i)
           \/ \E type \in {"chat", "close"} : ReceiveMessage(i, type)
    PROVE  IInv'
<1>1. /\ listener \in [Runs -> {"none", "refused", "bound", "closed"}]
      /\ connection \in [Runs -> {"none", "open", "closed", "shut"}]
      /\ worker[i] = "create" => listener[i] = "none"
  BY DEF IInv, TypeOK, CauseInv
<1>2. CASE CreateListener(i)
  <2>1. PICK next \in {"store_listener", "finally"} :
          /\ GoOn(i, next) /\ worker[i] = "create"
          /\ UNCHANGED <<app, callbacks, connection>>
          /\ \/ next = "store_listener" /\ listener' = [listener EXCEPT ![i] = "bound"]
             \/ next = "finally" /\ listener' = [listener EXCEPT ![i] = "refused"]
             \/ next = "finally" /\ listener' = listener
    BY <1>2 DEF CreateListener
  <2>2. /\ listener' \in [Runs -> {"none", "refused", "bound", "closed"}]
        /\ \A j \in Runs \ {i} : listener'[j] = listener[j]
        /\ listener'[i] \in IF next = "finally" THEN {"none", "refused"} ELSE {"bound"}
    BY <1>1, <2>1
  <2>3. <<worker[i], next>> \in Moves
    BY <2>1 DEF Moves
  <2> QED BY <1>1, <2>1, <2>2, <2>3, MoveKeeps
<1>3. CASE Accept(i)
  <2>1. /\ worker[i] = "accept" /\ GoOn(i, "check_running")
        /\ UNCHANGED <<app, callbacks, listener>>
        /\ connection' = [connection EXCEPT ![i] = "open"]
    BY <1>3 DEF Accept
  <2>2. /\ connection' \in [Runs -> {"none", "open", "closed", "shut"}]
        /\ \A j \in Runs : worker[j] # "accept" => connection'[j] = connection[j]
    BY <1>1, <2>1
  <2>3. <<worker[i], "check_running">> \in Moves
    BY <2>1 DEF Moves
  <2> QED BY <1>1, <2>1, <2>2, <2>3, MoveKeeps
<1>4. CASE \/ AcceptFails(i) \/ CheckRunning(i) \/ HandshakeSucceeds(i) \/ HandshakeFails(i)
           \/ LoopTest(i) \/ ReceiveRaises(i)
           \/ \E type \in {"chat", "close"} : ReceiveMessage(i, type)
  <2>1. PICK next : /\ GoOn(i, next) /\ <<worker[i], next>> \in Moves
                    /\ next = "store_connection" => app.server_running
                    /\ UNCHANGED <<app, callbacks, listener, connection>>
                    /\ worker[i] # "create"
    <3>1. CASE AcceptFails(i) \/ HandshakeFails(i) \/ ReceiveRaises(i)
      BY <3>1 DEF AcceptFails, HandshakeFails, ReceiveRaises, Moves, network
    <3>2. CASE CheckRunning(i)
      BY <3>2 DEF CheckRunning, StillWanted, Moves, network
    <3>3. CASE HandshakeSucceeds(i)
      BY <3>3 DEF HandshakeSucceeds, Moves, network
    <3>4. CASE LoopTest(i)
      BY <3>4 DEF LoopTest, Moves, network
    <3>5. CASE \E type \in {"chat", "close"} : ReceiveMessage(i, type)
      BY <3>5 DEF ReceiveMessage, Moves, network
    <3> QED BY <1>4, <3>1, <3>2, <3>3, <3>4, <3>5
  <2> QED BY <1>1, <2>1, MoveKeeps
<1> QED BY <1>2, <1>3, <1>4, StoreListenerKeeps, StoreConnectionKeeps, StoreChannelKeeps,
           AnnounceKeeps, FinallyKeeps DEF WorkerStep

LEMMA NextIInv == IInv /\ [Next]_vars => IInv'
<1> SUFFICES ASSUME IInv, [Next]_vars PROVE IInv'
  OBVIOUS
<1>1. CASE UNCHANGED vars
  <2>1. /\ UNCHANGED <<app, window, callbacks, worker, task>>
        /\ UNCHANGED <<send_lock, listener, connection, destroyed, history>>
    BY <1>1 DEF vars, threads, network
  <2>2. /\ TypeOK' <=> TypeOK
        /\ DeadInv' <=> DeadInv
    BY <2>1 DEF TypeOK, DeadInv
  <2>3. /\ \A i \in Runs : Live(i)' <=> Live(i)
        /\ \A c, name : Is(c, name)' <=> Is(c, name)
        /\ (Idle' <=> Idle) /\ (SendPending' <=> SendPending)
    BY <2>1 DEF Live, Is, Idle, SendPending, Busy
  <2>4. CauseInv' <=> CauseInv
    BY <2>1, <2>3 DEF CauseInv
  <2>5. ButtonsInv' <=> ButtonsInv
    BY <2>1, <2>3 DEF ButtonsInv
  <2>6. RunInv' <=> RunInv
    BY <2>1, <2>3 DEF RunInv
  <2>7. AttributesInv' <=> AttributesInv
    BY <2>1 DEF AttributesInv
  <2>8. QueueInv' <=> QueueInv
    BY <2>1, <2>3 DEF QueueInv
  <2>9. StatusInv' <=> StatusInv
    BY <2>1, <2>3 DEF StatusInv, BindRefused
  <2>10. ServeInv' <=> ServeInv
    BY <2>1 DEF ServeInv
  <2> QED BY <2>1, <2>2, <2>4, <2>5, <2>6, <2>7, <2>8, <2>9, <2>10
          DEF IInv, PatientInv, Expected
<1>2. CASE ~destroyed /\ (StartClicked \/ SendClicked \/ StopClicked \/ CloseProgram)
  BY <1>2, StartClickedKeeps, SendClickedKeeps, StopClickedKeeps, CloseProgramKeeps
<1>3. CASE ~destroyed /\ RunCallback
  BY <1>3, ServerStartedKeeps, HandshakeCompletedKeeps, FinishServerKeeps, RefreshKeeps
     DEF RunCallback
<1>4. CASE /\ ~destroyed
           /\ \E i \in Runs :
                 \/ WorkerStep(i) \/ Accept(i) \/ AcceptFails(i) \/ HandshakeSucceeds(i)
                 \/ HandshakeFails(i) \/ ReceiveRaises(i)
                 \/ \E type \in {"chat", "close"} : ReceiveMessage(i, type)
  BY <1>4, WorkerStepKeeps
<1>5. CASE /\ ~destroyed
           /\ \E k \in Tasks : TaskStep(k) \/ SendReturns(k) \/ SendRaises(k)
  BY <1>5, TaskMovesKeeps, SendFinallyKeeps DEF TaskStep
<1> QED BY <1>1, <1>2, <1>3, <1>4, <1>5 DEF Next, OwnStep

LEMMA IInvAlways == Spec => []IInv
BY InitIInv, NextIInv, PTL DEF Spec
-----------------------------------------------------------------------------
(* Type correctness: in every reachable state of the server of             *)
(* gui_server.py the variables hold what the model says they hold.         *)
THEOREM TypesHold == Spec => []TypeOK
BY IInvAlways, PTL DEF IInv

(* However the stores of server_worker (gui_server.py:389-407), the clicks *)
(* and the callbacks interleave, with any number of runs and of messages,  *)
(* a message is encrypted with the channel of its own connection, and Stop *)
(* sends CLOSE with that one or not at all, as long as the user lets one   *)
(* run end before starting the next.                                       *)
THEOREM MatchHolds == Spec => []ConnectionAndChannelMatch
<1>1. IInv => ConnectionAndChannelMatch
  BY DEF IInv, DeadInv, NoTask, PatientInv, AttributesInv, ConnectionAndChannelMatch
<1> QED BY <1>1, IInvAlways, PTL

(* Once a stop has run its course no client is being served any more, not  *)
(* even one that was let in while the stop was under way (the test at      *)
(* gui_server.py:386 and the shutdown in stop_worker).                     *)
THEOREM NobodyServed == Spec => []StoppedServesNobody
<1>1. IInv => StoppedServesNobody
  <2> SUFFICES ASSUME IInv, Quiet, ~app.server_running, Expected, NEW i \in Serving
               PROVE  FALSE
    BY DEF StoppedServesNobody
  <2>1. /\ i \in Runs /\ connection[i] = "open"
        /\ worker[i] \in {"handshake", "receive"}
    BY DEF Serving, Quiet, Blocked
  <2>2. ~destroyed
    BY <2>1 DEF IInv, DeadInv
  <2>3. ServeInv
    BY <2>2 DEF IInv
  <2>4. PICK k \in Tasks : task[k].pc \in {"waiting", "sending", "shutdown"}
    BY <2>1, <2>3 DEF ServeInv, During, Joined
  <2> QED BY <2>4 DEF Quiet, Busy
<1> QED BY <1>1, IInvAlways, PTL

(* When every thread waits for its client or has ended, the buttons and    *)
(* the status say which (_update_controls, gui_server.py:327-338, and the  *)
(* callbacks that call it), unless the bind was refused.                   *)
THEOREM WindowTrue == Spec => []WindowTellsTheTruth
<1>1. IInv => WindowTellsTheTruth
  <2> SUFFICES ASSUME IInv, Quiet, ~destroyed, Expected
               PROVE  /\ window = Refreshed(window.status)
                      /\ \A i \in Runs : (worker[i] = "receive" /\ app.server_running) =>
                            window.status = "SECURE CLIENT" /\ app.client_connected
                      /\ \A i \in Runs : (worker[i] = "accept" /\ app.server_running) =>
                            window.status = "WAITING" /\ ~app.client_connected
                      /\ (~BindRefused /\ \A i \in Runs : worker[i] \in {"none", "done"}) =>
                            window.status = "STOPPED" /\ app = Stopped
    BY DEF WindowTellsTheTruth
  <2>1. /\ TypeOK /\ ButtonsInv /\ AttributesInv /\ StatusInv
        /\ DOMAIN callbacks = {}
    BY EmptySeq DEF IInv, Expected, PatientInv, Quiet
  <2>2. window = Refreshed(window.status)
    <3>1. ~SendPending
      BY <2>1 DEF SendPending, Quiet, Blocked
    <3>2. /\ window.start = ~app.server_running /\ window.stop = app.server_running
          /\ window.send = app.client_connected
      BY <2>1, <3>1 DEF ButtonsInv, TypeOK
    <3> QED BY <2>1, <3>2 DEF TypeOK, Refreshed, Window
  <2>3. /\ \A i \in Runs : (worker[i] = "receive" /\ app.server_running) =>
              window.status = "SECURE CLIENT" /\ app.client_connected
        /\ \A i \in Runs : (worker[i] = "accept" /\ app.server_running) =>
              window.status = "WAITING"
    BY <2>1 DEF StatusInv
  <2>4. \A i \in Runs : worker[i] = "accept" => ~app.client_connected
    BY <2>1 DEF AttributesInv, Before
  <2>5. (~BindRefused /\ \A i \in Runs : worker[i] \in {"none", "done"}) =>
              window.status = "STOPPED" /\ app = Stopped
    BY <2>1 DEF StatusInv, Idle, Live
  <2> QED BY <2>2, <2>3, <2>4, <2>5
<1> QED BY <1>1, IInvAlways, PTL

(* A listening socket in the attributes is that of a run that has begun.   *)
StoredInv == \A i \in Runs : app.server_socket = i => worker[i] # "none"

LEMMA NextStoredInv == TypeOK /\ StoredInv /\ [Next]_vars => StoredInv'
<1> SUFFICES ASSUME TypeOK, StoredInv, [Next]_vars, NEW i \in Runs, app'.server_socket = i
             PROVE  worker'[i] # "none"
  BY DEF StoredInv
<1>1. i # None
  BY DEF Runs
<1>2. ASSUME UNCHANGED <<app, worker>> PROVE worker'[i] # "none"
  BY <1>2 DEF StoredInv
<1>3. CASE StartClicked
  BY <1>3 DEF StartClicked, TypeOK, StoredInv
<1>4. CASE StopClicked \/ CloseProgram
  BY <1>4 DEF StopClicked, CloseProgram, TypeOK, StoredInv
<1>5. CASE RunCallback
  <2>1. worker' = worker
    BY <1>5 DEF RunCallback, ServerStarted, HandshakeCompleted, FinishServer, Refresh,
                CallbackRuns, threads
  <2>2. app' = app \/ app' = Stopped
    BY <1>5 DEF RunCallback, ServerStarted, HandshakeCompleted, FinishServer, Refresh
  <2>3. app' = app
    BY <1>1, <2>2 DEF Stopped
  <2> QED BY <1>2, <2>1, <2>3
<1>6. ASSUME NEW j \in Runs, NEW next, next # "none", GoOn(j, next),
             app'.server_socket = app.server_socket \/ app'.server_socket = j
      PROVE  worker'[i] # "none"
  BY <1>6 DEF GoOn, TypeOK, StoredInv
<1>7. ASSUME NEW j \in Runs,
             \/ WorkerStep(j) \/ Accept(j) \/ AcceptFails(j) \/ HandshakeSucceeds(j)
             \/ HandshakeFails(j) \/ ReceiveRaises(j)
             \/ \E type \in {"chat", "close"} : ReceiveMessage(j, type)
      PROVE  worker'[i] # "none"
  <2>1. \E next \in {"store_listener", "accept", "check_running", "store_connection",
                     "handshake", "store_channel", "store_connected", "announce", "test",
                     "receive", "finally", "done"} : GoOn(j, next)
    BY <1>7 DEF WorkerStep, CreateListener, StoreListener, CheckRunning, StoreConnection,
                StoreChannel, Announce, LoopTest, Finally, Accept, AcceptFails, Store,
                HandshakeSucceeds, HandshakeFails, ReceiveRaises, ReceiveMessage
  <2>2. \/ app' = app \/ app' = [app EXCEPT !.server_socket = j]
        \/ app' = [app EXCEPT !.client_connection = j]
        \/ app' = [app EXCEPT !.channel = j]
        \/ app' = [app EXCEPT !.client_connected = TRUE]
    BY <1>7 DEF WorkerStep, CreateListener, StoreListener, CheckRunning, StoreConnection,
                StoreChannel, Announce, LoopTest, Finally, Accept, AcceptFails, Store,
                HandshakeSucceeds, HandshakeFails, ReceiveRaises, ReceiveMessage
  <2>3. app'.server_socket = app.server_socket \/ app'.server_socket = j
    BY <2>2 DEF TypeOK
  <2> QED BY <1>6, <2>1, <2>3
<1>8. CASE \/ SendClicked
           \/ \E k \in Tasks : TaskStep(k) \/ SendReturns(k) \/ SendRaises(k)
  <2>1. UNCHANGED <<app, worker>>
    BY <1>8 DEF SendClicked, TaskStep, SkipClose, AcquireLock, SendFinally, ShutdownAndClose,
                StopListening, SendReturns, SendRaises, TaskGoesOn
  <2> QED BY <1>2, <2>1
<1>9. CASE UNCHANGED vars
  BY <1>2, <1>9 DEF vars, threads
<1> QED BY <1>3, <1>4, <1>5, <1>7, <1>8, <1>9 DEF Next, OwnStep

LEMMA StoredAlways == Spec => []StoredInv
<1>1. Init => StoredInv
  BY DEF Init, Stopped, StoredInv, Runs
<1>2. IInv /\ StoredInv /\ [Next]_vars => StoredInv'
  BY NextStoredInv DEF IInv
<1> QED BY <1>1, <1>2, IInvAlways, PTL DEF Spec

(* finish_server winds a run up only when its worker has ended; however    *)
(* hastily the user starts one run after the other, the callback of an     *)
(* earlier run that had a listening socket does not wind up the later one  *)
(* (the guard at gui_server.py:551).  One that carries None can, and only  *)
(* after a hasty start.                                                    *)
THEOREM EndsForCause == Spec => WoundUpForCause
<1> DEFINE Cause(i) == (app.server_socket = i /\ app'.server_socket = None) =>
             worker[i] = "done" \/ (history.hasty /\ CarriesNoSocket)
<1>1. IInv /\ StoredInv /\ [Next]_vars => [\A i \in Runs : Cause(i)]_vars
  <2> SUFFICES ASSUME IInv, StoredInv, Next, NEW i \in Runs, app.server_socket = i,
                      app'.server_socket = None
               PROVE  Cause(i)
    BY DEF vars
  <2>1. TypeOK /\ CauseInv /\ ~destroyed /\ i # None /\ (~history.hasty => PatientInv)
    BY DEF IInv, Next, Runs
  <2>2. CASE FinishServer
    <3>1. /\ 1 \in DOMAIN callbacks /\ Is(1, "finish_server")
          /\ Head(callbacks) = callbacks[1] /\ callbacks # << >>
      BY <2>1, <2>2, RunsFacts DEF FinishServer, CallbackRuns
    <3>2. callbacks[1].socket \in {None, i}
      BY <2>1, <2>2, <3>1 DEF FinishServer, CurrentSocket
    <3>3. CASE callbacks[1].socket = i
      <4>1. callbacks[1].socket \in Runs /\ callbacks[1].socket # None
        BY <2>1, <3>3
      <4> QED BY <2>1, <3>1, <3>3, <4>1 DEF CauseInv
    <3>4. CASE callbacks[1].socket = None
      <4>1. CarriesNoSocket
        BY <3>1, <3>4 DEF CarriesNoSocket
      <4>2. ASSUME ~history.hasty PROVE worker[i] = "done"
        <5>1. ~Live(i)
          BY <2>1, <3>1, <4>2 DEF PatientInv, RunInv
        <5> QED BY <5>1 DEF Live, StoredInv
      <4> QED BY <4>1, <4>2
    <3> QED BY <3>2, <3>3, <3>4
  <2>3. ASSUME NEW j \in Runs, WorkerStep(j) PROVE app'.server_socket # None
    <3>1. CASE StoreListener(j)
      <4>1. app' = [app EXCEPT !.server_socket = j] /\ j # None
        BY <3>1 DEF StoreListener, Store, Runs
      <4> QED BY <2>1, <4>1 DEF TypeOK
    <3>2. CASE StoreConnection(j) \/ StoreChannel(j)
      <4>1. \/ app' = [app EXCEPT !.client_connection = j]
            \/ app' = [app EXCEPT !.channel = j]
            \/ app' = [app EXCEPT !.client_connected = TRUE]
        BY <3>2 DEF StoreConnection, StoreChannel, Store
      <4> QED BY <2>1, <4>1 DEF TypeOK
    <3> QED BY <2>1, <2>3, <3>1, <3>2
         DEF WorkerStep, CreateListener, CheckRunning, Announce, LoopTest, Finally
  <2>4. CASE StartClicked \/ StopClicked \/ CloseProgram
    BY <2>1, <2>4 DEF StartClicked, StopClicked, CloseProgram, TypeOK
  <2> QED BY <2>1, <2>2, <2>3, <2>4
       DEF Next, OwnStep, SendClicked, RunCallback, ServerStarted, HandshakeCompleted,
           Refresh, Accept, AcceptFails, HandshakeSucceeds, HandshakeFails, ReceiveRaises,
           ReceiveMessage, TaskStep, SkipClose, AcquireLock, SendFinally, ShutdownAndClose,
           StopListening, SendReturns, SendRaises, TaskGoesOn
<1> QED BY <1>1, IInvAlways, StoredAlways, PTL DEF Spec, WoundUpForCause, Cause
-----------------------------------------------------------------------------
(* How a session ends, which is what the client gets to know of it (see    *)
(* GuiSession).  A run that is over has no connection open, whatever the   *)
(* user does.  And a worker that waits for messages after Stop has a       *)
(* stop_worker on its way: unlike ServeInv this needs no exception for the *)
(* client that Stop has missed, whose worker never begins to wait.         *)
Doomed(i) == \E k \in Tasks : /\ task[k].kind = "stop" /\ task[k].connection = i
                              /\ task[k].pc \in {"waiting", "sending", "shutdown"}
EndOf(i) ==
    /\ worker[i] = "done" => connection[i] # "open"
    /\ ~history.hasty /\ worker[i] = "receive" =>
          app.server_running \/ connection[i] # "open" \/ Doomed(i)
EndInv == ~destroyed => \A i \in Runs : EndOf(i)

(* The steps keep EndOf, given what IInv says.                             *)
Known == /\ TypeOK /\ CauseInv /\ ~destroyed /\ (~history.hasty => PatientInv)
         /\ \A i \in Runs : EndOf(i)

LEMMA InitEndInv == Init => EndInv
BY DEF Init, EndInv, EndOf

LEMMA EndKeptByUser ==
    ASSUME Known, NEW i \in Runs, StartClicked \/ SendClicked \/ StopClicked
    PROVE  EndOf(i)'
<1>1. /\ UNCHANGED connection /\ history'.hasty \in BOOLEAN
      /\ ~history'.hasty => ~history.hasty
  BY DEF Known, TypeOK, StartClicked, SendClicked, StopClicked, network
<1>2. First(NewTasks) \in NewTasks \/ NewTasks = {}
  BY FirstFacts DEF NewTasks, Tasks
<1>3. ASSUME SendClicked \/ StopClicked PROVE Doomed(i) => Doomed(i)'
  <2>1. /\ First(NewTasks) \in Tasks /\ task[First(NewTasks)].kind = "none"
        /\ \E t : task' = [task EXCEPT ![First(NewTasks)] = t]
    BY <1>2, <1>3 DEF SendClicked, StopClicked, StartTask, NewTasks
  <2>2. \A k \in Tasks : task[k].kind # "none" => task'[k] = task[k]
    BY <2>1 DEF Known, TypeOK
  <2> QED BY <2>2 DEF Doomed
<1>4. CASE StartClicked
  <2>1. First(NewRuns) \in NewRuns
    BY <1>4, FirstFacts DEF StartClicked, NewRuns, Runs
  <2>2. worker'[i] = worker[i] \/ worker'[i] = "create"
    BY <1>4, <2>1 DEF StartClicked, Known, TypeOK, NewRuns
  <2>3. app'.server_running
    BY <1>4 DEF StartClicked, Known, TypeOK
  <2> QED BY <1>1, <2>2, <2>3 DEF Known, EndOf
<1>5. CASE SendClicked
  BY <1>1, <1>3, <1>5 DEF Known, EndOf, SendClicked
<1>6. CASE StopClicked
  <2> DEFINE n == First(NewTasks)
  <2>1. /\ n \in Tasks /\ task'[n].kind = "stop" /\ task'[n].pc = "waiting"
        /\ task'[n].connection = app.client_connection
    BY <1>2, <1>6 DEF StopClicked, StartTask, NewTasks, Known, TypeOK
  <2>2. ASSUME ~history'.hasty, worker[i] = "receive" PROVE Doomed(i)'
    <3>1. app.client_connection = i
      BY <1>1, <2>2 DEF Known, PatientInv, AttributesInv, Joined
    <3> QED BY <2>1, <3>1 DEF Doomed
  <2> QED BY <1>1, <1>6, <2>2 DEF Known, EndOf, StopClicked
<1> QED BY <1>4, <1>5, <1>6

LEMMA EndKeptByCallback ==
    ASSUME Known, NEW i \in Runs, RunCallback PROVE EndOf(i)'
<1>1. UNCHANGED <<worker, task, connection, history>>
  BY DEF RunCallback, ServerStarted, HandshakeCompleted, FinishServer, Refresh, CallbackRuns,
         threads, network
<1>2. Doomed(i)' <=> Doomed(i)
  BY <1>1 DEF Doomed
<1>3. CASE FinishServer
  <2>1. 1 \in DOMAIN callbacks /\ Is(1, "finish_server")
    BY <1>3, RunsFacts DEF FinishServer, Known
  <2>2. ~history.hasty => worker[i] # "receive"
    BY <2>1 DEF Known, PatientInv, RunInv, Live
  <2> QED BY <1>1, <2>2 DEF Known, EndOf
<1>4. CASE UNCHANGED app
  BY <1>1, <1>2, <1>4 DEF Known, EndOf
<1> QED BY <1>3, <1>4 DEF RunCallback, ServerStarted, HandshakeCompleted, Refresh

LEMMA EndKeptByWorker ==
    ASSUME Known, NEW i \in Runs, NEW j \in Runs,
           \/ WorkerStep(j) \/ Accept(j) \/ AcceptFails(j) \/ HandshakeSucceeds(j)
           \/ HandshakeFails(j) \/ ReceiveRaises(j)
           \/ \E type \in {"chat", "close"} : ReceiveMessage(j, type)
    PROVE  EndOf(i)'
<1>1. /\ UNCHANGED <<task, history>> /\ \E next : worker' = [worker EXCEPT ![j] = next]
      /\ app'.server_running = app.server_running
  BY DEF WorkerStep, CreateListener, StoreListener, CheckRunning, StoreConnection, StoreChannel,
         Store, Announce, LoopTest, Finally, Accept, AcceptFails, HandshakeSucceeds,
         HandshakeFails, ReceiveRaises, ReceiveMessage, GoOn, Known, TypeOK
<1>2. /\ i # j => worker'[i] = worker[i]
      /\ Doomed(i)' <=> Doomed(i)
  BY <1>1 DEF Known, TypeOK, Doomed
<1>3. CASE Accept(j)
  BY <1>1, <1>2, <1>3 DEF Accept, GoOn, Known, TypeOK, EndOf
<1>4. CASE Finally(j)
  BY <1>1, <1>2, <1>4 DEF Finally, CloseOnly, GoOn, Known, TypeOK, EndOf
<1>5. CASE LoopTest(j)
  BY <1>1, <1>2, <1>5 DEF LoopTest, network, GoOn, Known, TypeOK, EndOf
<1>6. CASE ~Accept(j) /\ ~Finally(j) /\ ~LoopTest(j)
  <2>1. UNCHANGED connection /\ worker'[j] \notin {"receive", "done"}
    BY <1>6 DEF WorkerStep, CreateListener, StoreListener, CheckRunning, StoreConnection,
         StoreChannel, Store, Announce, AcceptFails, HandshakeSucceeds,
         HandshakeFails, ReceiveRaises, ReceiveMessage, GoOn, Known, TypeOK, network
  <2> QED BY <1>1, <1>2, <2>1 DEF Known, EndOf
<1> QED BY <1>3, <1>4, <1>5, <1>6

LEMMA EndKeptByTask ==
    ASSUME Known, NEW i \in Runs, NEW k \in Tasks,
           TaskStep(k) \/ SendReturns(k) \/ SendRaises(k)
    PROVE  EndOf(i)'
<1>1. UNCHANGED <<app, worker, history>> /\ \A m \in Tasks \ {k} : task'[m] = task[m]
  BY DEF TaskStep, SkipClose, AcquireLock, SendFinally, ShutdownAndClose, StopListening,
         SendReturns, SendRaises, TaskGoesOn, Known, TypeOK
<1>2. CASE ShutdownAndClose(k)
  <2>1. /\ connection[i] # "open" => connection'[i] # "open"
        /\ task[k].connection = i => connection'[i] # "open"
    <3>1. task[k] \in Task
      BY DEF Known, TypeOK
    <3>2. CASE task[k].connection = None
      BY <1>2, <3>2 DEF ShutdownAndClose, Runs
    <3>3. CASE task[k].connection \in Runs
      <4>1. connection' = ShutDown(task[k].connection)
        BY <1>2, <3>3 DEF ShutdownAndClose, Runs
      <4> QED BY <4>1 DEF ShutDown, Known, TypeOK
    <3> QED BY <3>1, <3>2, <3>3 DEF Optional, Task
  <2>2. Doomed(i) => Doomed(i)' \/ task[k].connection = i
    BY <1>1 DEF Doomed
  <2> QED BY <1>1, <2>1, <2>2 DEF Known, EndOf
<1>3. CASE ~ShutdownAndClose(k)
  <2>1. UNCHANGED connection
    BY <1>3 DEF TaskStep, SkipClose, AcquireLock, SendFinally, StopListening,
                SendReturns, SendRaises, network
  <2>2. ASSUME task[k].kind = "stop", task[k].pc \in {"waiting", "sending", "shutdown"}
        PROVE  task'[k] = [task[k] EXCEPT !.pc = "sending"]
                 \/ task'[k] = [task[k] EXCEPT !.pc = "shutdown"]
    BY <1>3, <2>2 DEF TaskStep, SkipClose, AcquireLock, SendFinally, StopListening, SendReturns,
                      SendRaises, AfterSend, TaskGoesOn, Known, TypeOK, CauseInv
  <2>3. task[k] \in Task
    BY DEF Known, TypeOK
  <2>4. Doomed(i) => Doomed(i)'
    BY <1>1, <2>2, <2>3 DEF Doomed, Task
  <2> QED BY <1>1, <2>1, <2>4 DEF Known, EndOf
<1> QED BY <1>2, <1>3

LEMMA NextEndInv == IInv /\ EndInv /\ [Next]_vars => EndInv'
<1> SUFFICES ASSUME IInv, EndInv, [Next]_vars, ~destroyed', NEW i \in Runs
             PROVE  EndOf(i)'
  BY DEF EndInv
<1>1. CASE UNCHANGED vars
  <2>1. UNCHANGED <<app, worker, task, connection, destroyed, history>>
    BY <1>1 DEF vars, threads, network
  <2> QED BY <2>1 DEF EndInv, EndOf, Doomed
<1>2. CASE Next
  <2>1. Known /\ ~CloseProgram
    BY <1>2 DEF Next, CloseProgram, Known, IInv, EndInv
  <2> QED BY <1>2, <2>1, EndKeptByUser, EndKeptByCallback, EndKeptByWorker, EndKeptByTask
       DEF Next, OwnStep
<1> QED BY <1>1, <1>2

(* What both programs together are proved to do rests on the two           *)
(* invariants, whatever is fair (see GuiSessionProofs).                    *)
LEMMA SafeAlways == Init /\ [][Next]_vars => [](IInv /\ EndInv)
BY InitIInv, NextIInv, InitEndInv, NextEndInv, PTL

(* A worker that has accepted a connection, and one that has sent the last *)
(* message of a handshake or has ended: only accept and a handshake make   *)
(* a worker one of these, and no connection is forgotten.                  *)
Accepted == {"check_running", "store_connection"} \cup During \cup Joined
Past == {"store_channel", "finally", "done"} \cup Joined
LEMMA OwnStepMoves ==
    ASSUME TypeOK, OwnStep, NEW i \in Runs
    PROVE  /\ worker'[i] \in Accepted => worker[i] \in Accepted
           /\ worker[i] \in Past => worker'[i] \in Past
           /\ connection[i] # "none" => connection'[i] # "none"
<1> USE DEF Accepted, Past, Before, Early, During, Joined
<1>1. CASE StartClicked
  <2>1. First(NewRuns) \in NewRuns
    BY <1>1, FirstFacts DEF StartClicked, NewRuns, Runs
  <2>2. /\ worker'[i] = worker[i] \/ (worker[i] = "none" /\ worker'[i] = "create")
        /\ UNCHANGED connection
    BY <1>1, <2>1 DEF StartClicked, TypeOK, NewRuns, network
  <2> QED BY <2>2
<1>2. CASE CloseProgram
  BY <1>2 DEF CloseProgram
<1>3. CASE \E j \in Runs : WorkerStep(j)
  <2>1. PICK j \in Runs : WorkerStep(j)
    BY <1>3
  <2>2. \E next : /\ worker' = [worker EXCEPT ![j] = next]
                  /\ next \in Accepted => worker[j] \in Accepted
                  /\ worker[j] \in Past => next \in Past
    BY <2>1 DEF WorkerStep, CreateListener, StoreListener, CheckRunning, StoreConnection,
                StoreChannel, Store, Announce, LoopTest, Finally, GoOn
  <2>3. connection' = connection \/ connection' = CloseOnly(j)
    BY <2>1 DEF WorkerStep, CreateListener, StoreListener, CheckRunning, StoreConnection,
                StoreChannel, Store, Announce, LoopTest, Finally, network
  <2> QED BY <2>2, <2>3 DEF TypeOK, CloseOnly
<1>4. CASE \E k \in Tasks : TaskStep(k)
  <2>1. PICK k \in Tasks : TaskStep(k)
    BY <1>4
  <2>2. /\ UNCHANGED worker
        /\ connection' = connection \/ connection' = ShutDown(task[k].connection)
    BY <2>1 DEF TaskStep, SkipClose, AcquireLock, SendFinally, ShutdownAndClose, StopListening,
                TaskGoesOn, network
  <2> QED BY <2>2 DEF TypeOK, ShutDown
<1>5. CASE UNCHANGED <<worker, connection>>
  BY <1>5
<1> QED BY <1>1, <1>2, <1>3, <1>4, <1>5
     DEF OwnStep, SendClicked, StopClicked, RunCallback, ServerStarted, HandshakeCompleted,
         FinishServer, Refresh, CallbackRuns, threads, network
=============================================================================
