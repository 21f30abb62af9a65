--------------------------- MODULE GuiClientProofs ---------------------------
(***************************************************************************)
(* Proofs about GuiClient, for any number of connections and of messages.  *)
(*                                                                         *)
(* The properties speak of the tasks, of the sockets and of the window; the*)
(* reason why they hold is in who may still act for which connection.      *)
(* FreshInv: while an attempt is under way nobody else changes the         *)
(* attributes, and what acts for a connection came after the attempt.      *)
(* WindowInv and, for the buttons after an early Enter, ButtonInv: whenever*)
(* the window does not tell the truth, something is pending that will      *)
(* correct it.                                                             *)
(***************************************************************************)
EXTENDS GuiClient, FiniteSetTheorems, WellFoundedInduction, SequenceTheorems,
        TLAPS

Optional == Connections \cup {None}
After == {"announce", "test", "receive", "finally", "done"}
Callback ==
    [name : {"connection_completed", "connection_failed", "finish_disconnect",
             "_update_controls"}, socket : Optional]
Task ==
    [kind : {"none", "send", "disconnect"},
     pc : {"none", "waiting", "sending", "failed", "update", "shutdown", "finish", "done"},
     socket : Optional, channel : Optional]

TypeOK ==
    /\ app \in [client_socket : Optional, channel : Optional, connected : BOOLEAN]
    /\ window \in [connect : BOOLEAN, send : BOOLEAN, disconnect : BOOLEAN,
                   status : {"OFFLINE", "CONNECTING", "SECURE", "DISCONNECTING"}]
    /\ callbacks \in Seq(Callback)
    /\ thread \in [Connections -> {"none"} \cup Connecting \cup After]
    /\ task \in [Tasks -> Task]
    /\ send_lock \in Tasks \cup {None}
    /\ socket \in [Connections -> {"none", "open", "closed", "shut"}]
    /\ destroyed \in BOOLEAN
    /\ history \in [stale_refresh : BOOLEAN, early_send : BOOLEAN,
                    failed : SUBSET Connections]

(* callbacks[c] is the callback of that name, or finish_disconnect of i.   *)
Is(c, name) == callbacks[c].name = name
Finishes(c, i) == callbacks[c].name = "finish_disconnect" /\ callbacks[c].socket = i

(* Whoever asks for the end of a connection has a reason.                  *)
CauseInv ==
    /\ \A c \in DOMAIN callbacks :
          Is(c, "finish_disconnect") =>
              callbacks[c].socket \in Connections /\ Over(callbacks[c].socket)
    /\ \A k \in Tasks :
          /\ task[k].kind = "none" => task[k] = NoTask
          /\ task[k].pc \in {"failed", "update"} => task[k].kind = "send"
          /\ task[k].pc \in {"shutdown", "finish"} =>
                task[k].kind = "disconnect" /\ task[k].socket \in Connections
          /\ task[k].pc = "failed" => task[k].socket \in history.failed

(* An attempt has the attributes, and the Connect button, for itself.      *)
AttemptInv ==
    /\ \A i \in Connections :
          thread[i] \in Connecting =>
              /\ window.status = "CONNECTING" /\ ~window.connect /\ ~app.connected
              /\ app.client_socket =
                     IF thread[i] \in {"store_channel", "store_connected"} THEN i ELSE None
              /\ thread[i] = "store_connected" => app.channel = i
              /\ \A c \in DOMAIN callbacks : ~Is(c, "connection_failed")
              /\ \A j \in Connections : thread[j] \in Connecting => j = i
    /\ \A c \in DOMAIN callbacks :
          Is(c, "connection_failed") =>
              /\ window.status = "CONNECTING" /\ ~window.connect /\ ~app.connected
              /\ app.client_socket = None
              /\ \A d \in DOMAIN callbacks : Is(d, "connection_failed") => d = c

(* What acts for a connection came after its attempt.                      *)
OwnerInv ==
    /\ app.connected =>
          /\ app.client_socket \in Connections /\ app.channel = app.client_socket
          /\ thread[app.client_socket] \in After /\ ~window.connect
    /\ (~app.connected /\ \A i \in Connections : thread[i] \notin Connecting) =>
          app.client_socket = None
    /\ \A k \in Tasks :
          /\ task[k].channel = task[k].socket
          /\ task[k].kind # "none" =>
                task[k].socket \in Connections /\ thread[task[k].socket] \in After
    /\ \A c \in DOMAIN callbacks :
          Is(c, "finish_disconnect") => thread[callbacks[c].socket] \in After
    /\ \A i \in Connections :
          socket[i] = "open" => app.client_socket = i \/ thread[i] = "store_socket"

FreshInv == ~history.stale_refresh => AttemptInv /\ OwnerInv

(* connection_completed is the first that is heard of a connection.        *)
NewsInv ==
    /\ \A i \in Connections :
          thread[i] = "announce" =>
              /\ window.status = "CONNECTING" /\ app.connected /\ app.client_socket = i
              /\ \A k \in Tasks : task[k].socket # i
              /\ \A c \in DOMAIN callbacks :
                    ~Is(c, "connection_completed") /\ ~Finishes(c, i)
    /\ \A c \in DOMAIN callbacks :
          Is(c, "connection_completed") =>
              /\ window.status = "CONNECTING" /\ app.connected
              /\ \A k \in Tasks : task[k].socket # app.client_socket
              /\ \A d \in DOMAIN callbacks :
                    /\ Is(d, "connection_completed") => d = c
                    /\ Finishes(d, app.client_socket) => c < d

(* For each status, what the window shows and what is pending.             *)
AttemptPending ==
    \/ \E i \in Connections : thread[i] \in Connecting \cup {"announce"}
    \/ \E c \in DOMAIN callbacks :
          Is(c, "connection_completed") \/ Is(c, "connection_failed")
RefreshPending ==
    \/ \E k \in Tasks : Busy(k) /\ task[k].kind = "send"
    \/ \E c \in DOMAIN callbacks : Is(c, "_update_controls")
FinishPending ==
    \/ \E k \in Tasks : /\ Busy(k) /\ task[k].kind = "disconnect"
                        /\ task[k].socket = app.client_socket
    \/ \E c \in DOMAIN callbacks : Finishes(c, app.client_socket)
StatusInv ==
    /\ window.status = "OFFLINE" => ~app.connected /\ window = Window(FALSE, "OFFLINE")
    /\ window.status = "CONNECTING" =>
          ~window.connect /\ ~window.send /\ ~window.disconnect /\ AttemptPending
    /\ window.status = "SECURE" =>
          /\ app.connected /\ ~window.connect /\ window.disconnect
          /\ window.send \/ RefreshPending
    /\ window.status = "DISCONNECTING" => app.connected /\ FinishPending

WindowInv == ~history.stale_refresh /\ ~history.early_send => NewsInv /\ StatusInv

DeadInv == /\ \A i \in Connections : socket[i] = "shut" /\ thread[i] = "done"
           /\ \A k \in Tasks : task[k] = NoTask
           /\ ~app.connected

IInv ==
    /\ TypeOK
    /\ IF destroyed THEN DeadInv ELSE CauseInv /\ FreshInv /\ WindowInv
-----------------------------------------------------------------------------
USE GuiClientAssumption

(* Every set of natural numbers that is not empty has a least one.         *)
LEMMA LeastNatural ==
    ASSUME NEW S, S \subseteq Nat, S # {}
    PROVE  \E m \in S : \A n \in S : m <= n
<1>1. PICK m \in S : \A n \in S : <<n, m>> \notin OpToRel(<, Nat)
  BY WFMin, NatLessThanWellFounded
<1>2. \A n \in S : ~(n < m)
  BY <1>1 DEF OpToRel
<1> QED BY <1>2

(* Posting a callback leaves those before it in their places.              *)
LEMMA AppendFacts ==
    ASSUME NEW S, NEW q \in Seq(S), NEW e \in S
    PROVE  LET r == Append(q, e) IN
           /\ r \in Seq(S) /\ DOMAIN q \subseteq Nat
           /\ \E n \in Nat \ DOMAIN q :
                 /\ DOMAIN r = DOMAIN q \cup {n} /\ r[n] = e
                 /\ \A c \in DOMAIN q : r[c] = q[c] /\ c < n
<1> DEFINE r == Append(q, e)
<1>1. /\ r \in Seq(S) /\ Len(r) = Len(q) + 1 /\ Len(q) \in Nat
      /\ DOMAIN r = 1..Len(r) /\ DOMAIN q = 1..Len(q)
      /\ r[Len(q) + 1] = e /\ \A c \in 1..Len(q) : r[c] = q[c]
  BY LenProperties
<1>2. /\ Len(q) + 1 \in Nat \ DOMAIN q
      /\ DOMAIN r = DOMAIN q \cup {Len(q) + 1}
      /\ \A c \in DOMAIN q : r[c] = q[c] /\ c < Len(q) + 1
  BY <1>1
<1> QED BY <1>1, <1>2

(* Running the first callback moves the others up by one place.            *)
LEMMA TailFacts ==
    ASSUME NEW S, NEW q \in Seq(S), q # << >>
    PROVE  /\ Tail(q) \in Seq(S) /\ DOMAIN q \subseteq Nat /\ DOMAIN Tail(q) \subseteq Nat
           /\ 1 \in DOMAIN q /\ Head(q) = q[1] /\ Head(q) \in S
           /\ \A c \in DOMAIN q : ~(c < 1)
           /\ \A c \in DOMAIN Tail(q) : c + 1 \in DOMAIN q /\ Tail(q)[c] = q[c + 1]
           /\ \A c \in DOMAIN q : c = 1 \/ (c - 1 \in DOMAIN Tail(q) /\ Tail(q)[c - 1] = q[c])
<1>1. /\ Tail(q) \in Seq(S) /\ Head(q) \in S /\ Len(q) \in Nat \ {0}
      /\ Len(Tail(q)) = Len(q) - 1 /\ Head(q) = q[1]
      /\ \A c \in 1..Len(Tail(q)) : Tail(q)[c] = q[c + 1]
  BY HeadTailProperties, EmptySeq
<1>2. DOMAIN q = 1..Len(q) /\ DOMAIN Tail(q) = 1..Len(Tail(q))
  BY <1>1, LenProperties
<1> QED BY <1>1, <1>2

LEMMA FirstFacts == ASSUME NEW S, S \subseteq Nat, S # {} PROVE First(S) \in S
BY LeastNatural DEF First

LEMMA InitIInv == Init => IInv
<1> SUFFICES ASSUME Init PROVE IInv
  OBVIOUS
<1>1. callbacks \in Seq(Callback) /\ DOMAIN callbacks = {}
  BY EmptySeq DEF Init
<1>2. TypeOK
  BY <1>1 DEF Init, TypeOK, Optional, Task, NoTask, Window
<1>3. CauseInv
  BY <1>1 DEF Init, CauseInv, NoTask
<1>4. FreshInv
  BY <1>1 DEF Init, FreshInv, AttemptInv, OwnerInv, NoTask, Connecting
<1>5. WindowInv
  BY <1>1 DEF Init, WindowInv, NewsInv, StatusInv, Window
<1> QED BY <1>2, <1>3, <1>4, <1>5 DEF IInv, Init

LEMMA ConnectClickedKeeps ==
    ASSUME IInv, ~destroyed, ConnectClicked PROVE IInv'
<1> DEFINE n == First(NewConnections)
<1>1. TypeOK /\ CauseInv /\ FreshInv /\ WindowInv /\ ~destroyed'
  BY DEF IInv, ConnectClicked
<1>2. n \in Connections /\ thread[n] = "none"
  BY FirstFacts DEF ConnectClicked, NewConnections, Connections
<1>3. /\ thread' = [thread EXCEPT ![n] = "connecting"] /\ window.connect
      /\ window' = [window EXCEPT !.connect = FALSE, !.status = "CONNECTING"]
      /\ UNCHANGED <<app, callbacks, task, send_lock, socket, destroyed, history>>
  BY DEF ConnectClicked
<1>4. TypeOK'
  BY <1>1, <1>2, <1>3 DEF TypeOK, Connecting
<1>5. CauseInv'
  BY <1>1, <1>2, <1>3 DEF CauseInv, Is, Over, TypeOK
<1>6. (AttemptInv' /\ OwnerInv') \/ history.stale_refresh
  BY <1>1, <1>2, <1>3 DEF FreshInv, AttemptInv, OwnerInv, Is, TypeOK, Connecting, After
<1>7. WindowInv'
  BY <1>1, <1>2, <1>3 DEF WindowInv, FreshInv, OwnerInv, NewsInv, StatusInv, Is, Finishes, TypeOK, Connecting,
    AttemptPending, RefreshPending, FinishPending, Window
<1> QED BY <1>1, <1>4, <1>5, <1>6, <1>3, <1>7 DEF IInv, FreshInv

LEMMA SendClickedKeeps ==
    ASSUME IInv, ~destroyed, SendClicked PROVE IInv'
<1> DEFINE n == First(NewTasks)
           t == [kind |-> "send", pc |-> "waiting",
                 socket |-> app.client_socket, channel |-> app.channel]
<1>1. TypeOK /\ CauseInv /\ FreshInv /\ WindowInv /\ ~destroyed'
  BY DEF IInv, SendClicked
<1>2. n \in Tasks /\ task[n].kind = "none" /\ task[n] = NoTask
  BY <1>1, FirstFacts DEF SendClicked, NewTasks, Tasks, CauseInv
<1>3. /\ task' = [task EXCEPT ![n] = t] /\ app.connected
      /\ window' = [window EXCEPT !.send = FALSE]
      /\ history' = [history EXCEPT !.early_send = @ \/ window.status = "CONNECTING"]
      /\ UNCHANGED <<app, callbacks, thread, send_lock, socket, destroyed>>
  BY DEF SendClicked, StartTask
<1>4. TypeOK' /\ task'[n] = t /\ \A k \in Tasks \ {n} : task'[k] = task[k]
  BY <1>1, <1>2, <1>3 DEF TypeOK, Task
<1>8. history'.failed = history.failed /\ history'.stale_refresh = history.stale_refresh
  BY <1>1, <1>3 DEF TypeOK
<1>5. CauseInv'
  <2>1. \A i : Over(i) => Over(i)'
    BY <1>2, <1>3, <1>4, <1>8 DEF Over
  <2> QED BY <2>1, <1>1, <1>3, <1>4, <1>8 DEF CauseInv, Is
<1>6. FreshInv'
  BY <1>1, <1>2, <1>3, <1>4 DEF FreshInv, AttemptInv, OwnerInv, Is, TypeOK
<1>7. WindowInv'
  BY <1>1, <1>2, <1>3, <1>4 DEF WindowInv, FreshInv, OwnerInv, NewsInv, StatusInv, Is, Finishes,
     TypeOK, AttemptPending, RefreshPending, FinishPending, Window, Busy, NoTask
<1> QED BY <1>1, <1>4, <1>5, <1>6, <1>7 DEF IInv

LEMMA DisconnectClickedKeeps ==
    ASSUME IInv, ~destroyed, DisconnectClicked PROVE IInv'
<1> DEFINE n == First(NewTasks)
           t == [kind |-> "disconnect", pc |-> "waiting",
                 socket |-> app.client_socket, channel |-> app.channel]
<1>1. TypeOK /\ CauseInv /\ FreshInv /\ WindowInv /\ ~destroyed'
  BY DEF IInv, DisconnectClicked
<1>2. n \in Tasks /\ task[n].kind = "none" /\ task[n] = NoTask
  BY <1>1, FirstFacts DEF DisconnectClicked, NewTasks, Tasks, CauseInv
<1>3. /\ task' = [task EXCEPT ![n] = t] /\ app.connected /\ window.disconnect
      /\ window' = [window EXCEPT !.send = FALSE, !.disconnect = FALSE,
                                  !.status = "DISCONNECTING"]
      /\ UNCHANGED <<app, callbacks, thread, send_lock, socket, destroyed, history>>
  BY DEF DisconnectClicked, StartTask
<1>4. TypeOK' /\ task'[n] = t /\ \A k \in Tasks \ {n} : task'[k] = task[k]
  BY <1>1, <1>2, <1>3 DEF TypeOK, Task
<1>5. CauseInv'
  BY <1>1, <1>2, <1>3, <1>4 DEF CauseInv, Is, Over, TypeOK, NoTask
<1>6. FreshInv'
  BY <1>1, <1>2, <1>3, <1>4 DEF FreshInv, AttemptInv, OwnerInv, Is, TypeOK
<1>7. WindowInv'
  BY <1>1, <1>2, <1>3, <1>4 DEF WindowInv, FreshInv, OwnerInv, NewsInv, StatusInv, Is, Finishes,
     TypeOK, AttemptPending, RefreshPending, FinishPending, Window, Busy, NoTask
<1> QED BY <1>1, <1>4, <1>5, <1>6, <1>7 DEF IInv

LEMMA CloseProgramKeeps ==
    ASSUME IInv, CloseProgram PROVE IInv'
<1>1. TypeOK'
  <2>1. << >> \in Seq(Callback)
    BY EmptySeq
  <2> QED BY <2>1 DEF IInv, CloseProgram, TypeOK, Optional, Task, NoTask, After
<1>2. destroyed' /\ DeadInv'
  BY DEF CloseProgram, DeadInv, IInv, TypeOK
<1> QED BY <1>1, <1>2 DEF IInv
-----------------------------------------------------------------------------
(* Callbacks: the first one is taken off the queue.                        *)
Moved(q, r) ==
    /\ \A c \in DOMAIN r : c + 1 \in DOMAIN q /\ r[c] = q[c + 1]
    /\ \A c \in DOMAIN q : c = 1 \/ (c - 1 \in DOMAIN r /\ r[c - 1] = q[c])

LEMMA RunsFacts ==
    ASSUME TypeOK, NEW name, Runs(name)
    PROVE  /\ callbacks' \in Seq(Callback) /\ Moved(callbacks, callbacks')
           /\ 1 \in DOMAIN callbacks /\ Head(callbacks) = callbacks[1] /\ Is(1, name)
           /\ DOMAIN callbacks \subseteq Nat /\ DOMAIN callbacks' \subseteq Nat
           /\ Head(callbacks) \in Callback
           /\ UNCHANGED <<thread, task, send_lock, destroyed>>
BY TailFacts DEF Runs, TypeOK, Is, Moved, threads

LEMMA ConnectionCompletedKeeps ==
    ASSUME IInv, ~destroyed, ConnectionCompleted PROVE IInv'
<1>1. TypeOK /\ CauseInv /\ FreshInv /\ WindowInv
  BY DEF IInv
<1>2. /\ callbacks' \in Seq(Callback) /\ Moved(callbacks, callbacks')
      /\ 1 \in DOMAIN callbacks /\ Is(1, "connection_completed")
      /\ DOMAIN callbacks \subseteq Nat /\ DOMAIN callbacks' \subseteq Nat
      /\ UNCHANGED <<thread, task, send_lock, destroyed>>
  BY <1>1, RunsFacts DEF ConnectionCompleted
<1>3. /\ window' = Window(app.connected, "SECURE") /\ UNCHANGED <<app, socket>>
      /\ history' = [history EXCEPT !.stale_refresh =
                       @ \/ (window.status = "CONNECTING" /\ ~app.connected)]
  BY DEF ConnectionCompleted, Misleads
<1>4. /\ history'.failed = history.failed /\ history'.early_send = history.early_send
      /\ history'.stale_refresh =
            (history.stale_refresh \/ (window.status = "CONNECTING" /\ ~app.connected))
  BY <1>1, <1>3 DEF TypeOK
<1>5. TypeOK'
  BY <1>1, <1>2, <1>3 DEF TypeOK, Window
<1>6. CauseInv'
  BY <1>1, <1>2, <1>3, <1>4 DEF CauseInv, Is, Over, Moved
<1>7. FreshInv'
  <2> SUFFICES ASSUME ~history.stale_refresh, window.status = "CONNECTING" => app.connected
               PROVE  AttemptInv' /\ OwnerInv'
    BY <1>4 DEF FreshInv
  <2>1. AttemptInv /\ OwnerInv
    BY <1>1 DEF FreshInv
  <2>2. /\ \A i \in Connections : thread[i] \notin Connecting
        /\ \A c \in DOMAIN callbacks : ~Is(c, "connection_failed")
    BY <2>1 DEF AttemptInv
  <2>3. AttemptInv'
    BY <2>2, <1>2 DEF AttemptInv, Is, Moved
  <2>4. OwnerInv'
    <3>1. app.connected => ~window'.connect
      BY <1>3 DEF Window
    <3> QED BY <3>1, <2>1, <1>2, <1>3 DEF OwnerInv, Is, Moved
  <2> QED BY <2>3, <2>4
<1>8. WindowInv'
  <2> SUFFICES ASSUME ~history.stale_refresh, ~history.early_send PROVE NewsInv' /\ StatusInv'
    BY <1>4 DEF WindowInv
  <2>1. NewsInv /\ StatusInv
    BY <1>1 DEF WindowInv
  <2>2. \A c \in DOMAIN callbacks' : ~Is(c, "connection_completed")'
    BY <2>1, <1>2 DEF NewsInv, Is, Moved
  <2>3. NewsInv'
    BY <2>1, <2>2, <1>2 DEF NewsInv
  <2>4. app.connected
    BY <2>1, <1>2 DEF NewsInv
  <2> QED BY <2>3, <2>4, <1>3 DEF StatusInv, Window
<1> QED BY <1>1, <1>2, <1>5, <1>6, <1>7, <1>8 DEF IInv

LEMMA ConnectionFailedKeeps ==
    ASSUME IInv, ~destroyed, ConnectionFailed PROVE IInv'
<1>1. TypeOK /\ CauseInv /\ FreshInv /\ WindowInv
  BY DEF IInv
<1>2. /\ callbacks' \in Seq(Callback) /\ Moved(callbacks, callbacks')
      /\ 1 \in DOMAIN callbacks /\ Is(1, "connection_failed")
      /\ DOMAIN callbacks \subseteq Nat /\ DOMAIN callbacks' \subseteq Nat
      /\ UNCHANGED <<thread, task, send_lock, destroyed>>
  BY <1>1, RunsFacts DEF ConnectionFailed
<1>3. /\ window' = Window(FALSE, "OFFLINE") /\ UNCHANGED <<socket, history>>
      /\ app' = [app EXCEPT !.connected = FALSE]
  BY DEF ConnectionFailed
<1>4. /\ app'.client_socket = app.client_socket /\ app'.channel = app.channel
      /\ ~app'.connected
  BY <1>1, <1>3 DEF TypeOK
<1>5. TypeOK'
  BY <1>1, <1>2, <1>3 DEF TypeOK, Window
<1>6. CauseInv'
  BY <1>1, <1>2, <1>3, <1>4 DEF CauseInv, Is, Over, Moved
<1>7. FreshInv'
  BY <1>1, <1>2, <1>3, <1>4 DEF FreshInv, AttemptInv, OwnerInv, Is, Moved, TypeOK, Window
<1>8. WindowInv'
  <2> SUFFICES ASSUME ~history.stale_refresh, ~history.early_send PROVE NewsInv' /\ StatusInv'
    BY <1>3 DEF WindowInv
  <2>1. NewsInv /\ StatusInv /\ AttemptInv
    BY <1>1 DEF WindowInv, FreshInv
  <2>2. ~app.connected
    BY <2>1, <1>2 DEF AttemptInv
  <2>3. NewsInv'
    BY <2>1, <2>2, <1>2 DEF NewsInv, Is, Moved
  <2> QED BY <2>3, <1>3, <1>4 DEF StatusInv, Window
<1> QED BY <1>1, <1>2, <1>5, <1>6, <1>7, <1>8 DEF IInv

LEMMA RefreshKeeps ==
    ASSUME IInv, ~destroyed, Refresh PROVE IInv'
<1>1. TypeOK /\ CauseInv /\ FreshInv /\ WindowInv
  BY DEF IInv
<1>2. /\ callbacks' \in Seq(Callback) /\ Moved(callbacks, callbacks')
      /\ 1 \in DOMAIN callbacks /\ Is(1, "_update_controls")
      /\ DOMAIN callbacks \subseteq Nat /\ DOMAIN callbacks' \subseteq Nat
      /\ UNCHANGED <<thread, task, send_lock, destroyed>>
  BY <1>1, RunsFacts DEF Refresh
<1>3. /\ window' = Window(app.connected, window.status) /\ UNCHANGED <<app, socket>>
      /\ history' = [history EXCEPT !.stale_refresh = @ \/ window.status = "CONNECTING"]
  BY DEF Refresh, Misleads
<1>4. /\ history'.failed = history.failed /\ history'.early_send = history.early_send
      /\ history'.stale_refresh = (history.stale_refresh \/ window.status = "CONNECTING")
  BY <1>1, <1>3 DEF TypeOK
<1>5. TypeOK'
  BY <1>1, <1>2, <1>3 DEF TypeOK, Window
<1>6. CauseInv'
  BY <1>1, <1>2, <1>3, <1>4 DEF CauseInv, Is, Over, Moved
<1>7. FreshInv'
  BY <1>1, <1>2, <1>3, <1>4 DEF FreshInv, AttemptInv, OwnerInv, Is, Moved, TypeOK, Window
<1>8. WindowInv'
  <2> SUFFICES ASSUME ~history.stale_refresh, ~history.early_send,
                      window.status # "CONNECTING"
               PROVE  NewsInv' /\ StatusInv'
    BY <1>4 DEF WindowInv
  <2>1. NewsInv /\ StatusInv
    BY <1>1 DEF WindowInv
  <2>2. NewsInv'
    BY <2>1, <1>2, <1>3 DEF NewsInv, Is, Finishes, Moved
  <2>3. FinishPending => FinishPending'
    BY <1>2, <1>3 DEF FinishPending, Is, Finishes, Moved, Busy
  <2>4. StatusInv'
    BY <1>1, <2>1, <2>3, <1>3 DEF StatusInv, Window, TypeOK
  <2> QED BY <2>2, <2>4
<1> QED BY <1>1, <1>2, <1>5, <1>6, <1>7, <1>8 DEF IInv

LEMMA FinishDisconnectKeeps ==
    ASSUME IInv, ~destroyed, FinishDisconnect PROVE IInv'
<1> DEFINE i == callbacks[1].socket
<1>1. TypeOK /\ CauseInv /\ FreshInv /\ WindowInv
  BY DEF IInv
<1>2. /\ callbacks' \in Seq(Callback) /\ Moved(callbacks, callbacks')
      /\ 1 \in DOMAIN callbacks /\ Is(1, "finish_disconnect") /\ Head(callbacks) = callbacks[1]
      /\ DOMAIN callbacks \subseteq Nat /\ DOMAIN callbacks' \subseteq Nat
      /\ UNCHANGED <<thread, task, send_lock, destroyed>>
  BY <1>1, RunsFacts DEF FinishDisconnect
<1>3. UNCHANGED history /\ i \in Connections
  BY <1>1, <1>2 DEF FinishDisconnect, CauseInv
<1>4. CASE ~CurrentSocket(i) /\ UNCHANGED <<app, window, socket>>
  <2>1. TypeOK'
    BY <1>1, <1>2, <1>3, <1>4 DEF TypeOK
  <2>2. CauseInv'
    BY <1>1, <1>2, <1>3, <1>4 DEF CauseInv, Is, Over, Moved
  <2>3. FreshInv'
    BY <1>1, <1>2, <1>3, <1>4 DEF FreshInv, AttemptInv, OwnerInv, Is, Moved, TypeOK
  <2>4. WindowInv'
    <3> SUFFICES ASSUME ~history.stale_refresh, ~history.early_send PROVE NewsInv' /\ StatusInv'
      BY <1>3 DEF WindowInv
    <3>1. NewsInv /\ StatusInv
      BY <1>1 DEF WindowInv
    <3>2. NewsInv'
      BY <3>1, <1>2, <1>4 DEF NewsInv, Is, Finishes, Moved
    <3>3. FinishPending => FinishPending'
      BY <1>2, <1>4 DEF FinishPending, Finishes, Moved, Busy, CurrentSocket
    <3>4. RefreshPending => RefreshPending'
      BY <1>2, <1>4 DEF RefreshPending, Is, Moved, Busy
    <3>5. AttemptPending => AttemptPending'
      BY <1>2, <1>4 DEF AttemptPending, Is, Moved
    <3> QED BY <3>1, <3>2, <3>3, <3>4, <3>5, <1>4 DEF StatusInv
  <2> QED BY <1>1, <1>2, <2>1, <2>2, <2>3, <2>4 DEF IInv
<1>5. CASE /\ CurrentSocket(i)
           /\ app' = [client_socket |-> None, channel |-> None, connected |-> FALSE]
           /\ socket' = CloseSocket(app.client_socket)
           /\ window' = Window(FALSE, "OFFLINE")
  <2>1. TypeOK'
    BY <1>1, <1>2, <1>3, <1>5 DEF TypeOK, CloseSocket, Window, Optional
  <2>2. CauseInv'
    BY <1>1, <1>2, <1>3, <1>5 DEF CauseInv, Is, Over, Moved
  <2>3. FreshInv'
    <3> SUFFICES ASSUME ~history.stale_refresh PROVE AttemptInv' /\ OwnerInv'
      BY <1>3 DEF FreshInv
    <3>1. AttemptInv /\ OwnerInv
      BY <1>1 DEF FreshInv
    <3>2. app.client_socket = i /\ i # None /\ thread[i] \in After
      BY <3>1, <1>2, <1>3, <1>5 DEF OwnerInv, Is, CurrentSocket, Connections
    <3>3. /\ \A j \in Connections : thread[j] \notin Connecting
          /\ \A c \in DOMAIN callbacks : ~Is(c, "connection_failed")
      BY <3>1, <3>2 DEF AttemptInv, Connecting, After
    <3>4. AttemptInv'
      BY <3>3, <1>2 DEF AttemptInv, Is, Moved
    <3>5. socket' = [socket EXCEPT ![i] = IF socket[i] = "open" THEN "closed" ELSE socket[i]]
      BY <3>2, <1>5 DEF CloseSocket
    <3>6. \A j \in Connections : socket'[j] = "open" => j # i /\ socket[j] = "open"
      BY <3>5, <1>1 DEF TypeOK
    <3>7. OwnerInv'
      BY <3>1, <3>2, <3>6, <1>2, <1>5 DEF OwnerInv, Is, Moved, Window
    <3> QED BY <3>4, <3>7
  <2>4. WindowInv'
    <3> SUFFICES ASSUME ~history.stale_refresh, ~history.early_send PROVE NewsInv' /\ StatusInv'
      BY <1>3 DEF WindowInv
    <3>1. NewsInv /\ StatusInv
      BY <1>1 DEF WindowInv
    <3>2. \A j \in Connections : thread[j] # "announce"
      BY <3>1, <1>2, <1>5 DEF NewsInv, Finishes, Is, CurrentSocket
    <3>3. \A c \in DOMAIN callbacks : ~Is(c, "connection_completed")
      BY <3>1, <1>2, <1>5 DEF NewsInv, Finishes, Is, CurrentSocket
    <3>4. NewsInv'
      BY <3>2, <3>3, <1>2 DEF NewsInv, Is, Moved
    <3> QED BY <3>4, <1>5 DEF StatusInv, Window
  <2> QED BY <1>1, <1>2, <2>1, <2>2, <2>3, <2>4 DEF IInv
<1> QED BY <1>2, <1>4, <1>5 DEF FinishDisconnect
(* A step that leaves the window alone only has to keep what is pending.   *)
LEMMA StatusKept ==
    ASSUME StatusInv, window' = window, app' = app,
           AttemptPending => AttemptPending', RefreshPending => RefreshPending',
           FinishPending => FinishPending'
    PROVE  StatusInv'
BY DEF StatusInv
-----------------------------------------------------------------------------
(* connect_worker and receive_loop.  A step of thread i that posts nothing *)
(* and stores nothing moves it on within its phase.                        *)
LEMMA MoveKeeps ==
    ASSUME IInv, ~destroyed, NEW i \in Connections, NEW next \in {"test", "receive", "finally"},
           thread[i] \in {"test", "receive"}, GoOn(i, next),
           UNCHANGED <<app, callbacks, socket>>
    PROVE  IInv'
<1>1. TypeOK /\ CauseInv /\ FreshInv /\ WindowInv
  BY DEF IInv
<1>2. /\ thread' = [thread EXCEPT ![i] = next]
      /\ UNCHANGED <<app, window, callbacks, task, send_lock, socket, destroyed, history>>
  BY DEF GoOn
<1>3. /\ \A j \in Connections : thread[j] \in Connecting <=> thread'[j] \in Connecting
      /\ \A j \in Connections : thread[j] \in After <=> thread'[j] \in After
      /\ \A j \in Connections : thread[j] \in Connecting \cup {"announce"} => thread'[j] = thread[j]
      /\ \A j \in Connections : thread[j] = "done" <=> thread'[j] = "done"
      /\ \A j \in Connections : thread[j] = "announce" <=> thread'[j] = "announce"
  BY <1>1, <1>2 DEF TypeOK, Connecting, After
<1>4. TypeOK'
  BY <1>1, <1>2 DEF TypeOK, After
<1>5. CauseInv'
  <2>1. \A j \in Connections : Over(j) => Over(j)'
    BY <1>2, <1>3 DEF Over
  <2> QED BY <2>1, <1>1, <1>2 DEF CauseInv, Is
<1>6. FreshInv'
  <2> SUFFICES ASSUME ~history.stale_refresh PROVE AttemptInv' /\ OwnerInv'
    BY <1>2 DEF FreshInv
  <2>1. AttemptInv /\ OwnerInv
    BY <1>1 DEF FreshInv
  <2>2. AttemptInv'
    BY <2>1, <1>2, <1>3 DEF AttemptInv, Is
  <2>3. \A c \in DOMAIN callbacks : Is(c, "finish_disconnect") => callbacks[c].socket \in Connections
    BY <1>1 DEF CauseInv
  <2>4. OwnerInv'
    BY <2>1, <2>3, <1>2, <1>3 DEF OwnerInv, Is, Connecting
  <2> QED BY <2>2, <2>4
<1>7. WindowInv'
  <2> SUFFICES ASSUME ~history.stale_refresh, ~history.early_send PROVE NewsInv' /\ StatusInv'
    BY <1>2 DEF WindowInv
  <2>1. NewsInv /\ StatusInv
    BY <1>1 DEF WindowInv
  <2>2. NewsInv'
    BY <2>1, <1>2, <1>3 DEF NewsInv, Is, Finishes
  <2>3. /\ AttemptPending => AttemptPending'
        /\ RefreshPending => RefreshPending'
        /\ FinishPending => FinishPending'
    BY <1>2, <1>3 DEF AttemptPending, RefreshPending, FinishPending, Is, Finishes, Busy
  <2>4. window' = window /\ app' = app
    BY <1>2
  <2>5. StatusInv'
    BY <2>1, <2>3, <2>4, StatusKept
  <2> QED BY <2>2, <2>5
<1> QED BY <1>1, <1>2, <1>4, <1>5, <1>6, <1>7 DEF IInv

LEMMA ConnectSucceedsKeeps ==
    ASSUME IInv, ~destroyed, NEW i \in Connections, ConnectSucceeds(i) PROVE IInv'
<1>1. TypeOK /\ CauseInv /\ FreshInv /\ WindowInv
  BY DEF IInv
<1>2. /\ thread[i] = "connecting" /\ thread' = [thread EXCEPT ![i] = "store_socket"]
      /\ socket' = [socket EXCEPT ![i] = "open"]
      /\ UNCHANGED <<app, window, callbacks, task, send_lock, destroyed, history>>
  BY DEF ConnectSucceeds, GoOn
<1>3. /\ \A j \in Connections : thread[j] \in Connecting <=> thread'[j] \in Connecting
      /\ thread'[i] = "store_socket" /\ socket'[i] = "open"
      /\ \A j \in Connections \ {i} : thread'[j] = thread[j] /\ socket'[j] = socket[j]
  BY <1>1, <1>2 DEF TypeOK, Connecting
<1>4. TypeOK'
  BY <1>1, <1>2 DEF TypeOK, Connecting
<1>5. CauseInv'
  <2>1. \A j \in Connections : Over(j) => Over(j)'
    BY <1>2, <1>3 DEF Over
  <2> QED BY <2>1, <1>1, <1>2 DEF CauseInv, Is
<1>6. FreshInv'
  <2> SUFFICES ASSUME ~history.stale_refresh PROVE AttemptInv' /\ OwnerInv'
    BY <1>2 DEF FreshInv
  <2>1. AttemptInv /\ OwnerInv
    BY <1>1 DEF FreshInv
  <2>2. AttemptInv'
    BY <2>1, <1>2, <1>3 DEF AttemptInv, Is, Connecting
  <2>3. OwnerInv'
    BY <2>1, <1>1, <1>2, <1>3 DEF OwnerInv, CauseInv, Is, Connecting, After
  <2> QED BY <2>2, <2>3
<1>7. WindowInv'
  <2> SUFFICES ASSUME ~history.stale_refresh, ~history.early_send PROVE NewsInv' /\ StatusInv'
    BY <1>2 DEF WindowInv
  <2>1. NewsInv /\ StatusInv
    BY <1>1 DEF WindowInv
  <2>2. NewsInv'
    BY <2>1, <1>2, <1>3 DEF NewsInv, Is, Finishes
  <2>3. AttemptPending'
    BY <1>3 DEF AttemptPending, Connecting
  <2>4. /\ RefreshPending => RefreshPending'
        /\ FinishPending => FinishPending'
    BY <1>2 DEF RefreshPending, FinishPending, Is, Finishes, Busy
  <2>5. window' = window /\ app' = app
    BY <1>2
  <2>6. StatusInv'
    BY <2>1, <2>3, <2>4, <2>5, StatusKept
  <2> QED BY <2>2, <2>6
<1> QED BY <1>1, <1>2, <1>4, <1>5, <1>6, <1>7 DEF IInv

(* A callback is put behind the others.                                    *)
Posted(n, name, i) ==
    /\ n \in Nat \ DOMAIN callbacks /\ DOMAIN callbacks' = DOMAIN callbacks \cup {n}
    /\ callbacks'[n] = [name |-> name, socket |-> i]
    /\ \A c \in DOMAIN callbacks : callbacks'[c] = callbacks[c] /\ c < n /\ c \in Nat

LEMMA PostFacts ==
    ASSUME TypeOK, NEW i \in Optional,
           NEW name \in {"connection_completed", "connection_failed", "finish_disconnect",
                         "_update_controls"},
           Post(name, i)
    PROVE  callbacks' \in Seq(Callback) /\ \E n : Posted(n, name, i)
<1> DEFINE e == [name |-> name, socket |-> i]
<1>1. callbacks \in Seq(Callback) /\ e \in Callback /\ callbacks' = Append(callbacks, e)
  BY DEF TypeOK, Callback, Post
<1> QED BY <1>1, AppendFacts DEF Posted

LEMMA ConnectFailsKeeps ==
    ASSUME IInv, ~destroyed, NEW i \in Connections, ConnectFails(i) PROVE IInv'
<1>1. TypeOK /\ CauseInv /\ FreshInv /\ WindowInv
  BY DEF IInv
<1>2. /\ thread[i] = "connecting" /\ thread' = [thread EXCEPT ![i] = "done"]
      /\ socket' = [socket EXCEPT ![i] = "closed"]
      /\ UNCHANGED <<app, window, task, send_lock, destroyed, history>>
  BY DEF ConnectFails, GoOn
<1>3. callbacks' \in Seq(Callback) /\ \E n : Posted(n, "connection_failed", None)
  BY <1>1, PostFacts DEF ConnectFails, Optional
<1>4. PICK n : Posted(n, "connection_failed", None)
  BY <1>3
<1>5. /\ thread'[i] = "done" /\ socket'[i] = "closed"
      /\ \A j \in Connections \ {i} : thread'[j] = thread[j] /\ socket'[j] = socket[j]
  BY <1>1, <1>2 DEF TypeOK
<1>6. /\ \A c \in DOMAIN callbacks : \A name : Is(c, name) <=> Is(c, name)'
      /\ \A name : Is(n, name)' <=> name = "connection_failed"
  BY <1>4 DEF Posted, Is
<1>7. TypeOK'
  BY <1>1, <1>2, <1>3 DEF TypeOK, After
<1>8. CauseInv'
  <2>1. \A j \in Connections : Over(j) => Over(j)'
    BY <1>2, <1>5 DEF Over
  <2> QED BY <2>1, <1>1, <1>2, <1>4, <1>6 DEF CauseInv, Posted
<1>9. FreshInv'
  <2> SUFFICES ASSUME ~history.stale_refresh PROVE AttemptInv' /\ OwnerInv'
    BY <1>2 DEF FreshInv
  <2>1. AttemptInv /\ OwnerInv
    BY <1>1 DEF FreshInv
  <2>2. AttemptInv'
    <3>1. \A j \in Connections : thread'[j] \notin Connecting
      BY <2>1, <1>2, <1>5 DEF AttemptInv, Connecting
    <3>2. /\ window.status = "CONNECTING" /\ ~window.connect /\ ~app.connected
          /\ app.client_socket = None
          /\ \A c \in DOMAIN callbacks : ~Is(c, "connection_failed")
      BY <2>1, <1>2 DEF AttemptInv, Connecting
    <3> QED BY <3>1, <3>2, <1>2, <1>4, <1>6 DEF AttemptInv, Posted
  <2>3. OwnerInv'
    <3>1. ~app.connected /\ app.client_socket = None
      BY <2>1, <1>2 DEF AttemptInv, Connecting
    <3>2. \A j \in Connections : thread[j] \in After => thread'[j] \in After
      BY <1>5 DEF After
    <3> QED BY <2>1, <3>1, <3>2, <1>1, <1>2, <1>4, <1>5, <1>6 DEF OwnerInv, CauseInv, Posted
  <2> QED BY <2>2, <2>3
<1>10. WindowInv'
  <2> SUFFICES ASSUME ~history.stale_refresh, ~history.early_send PROVE NewsInv' /\ StatusInv'
    BY <1>2 DEF WindowInv
  <2>1. NewsInv /\ StatusInv /\ AttemptInv
    BY <1>1 DEF WindowInv, FreshInv
  <2>2. ~app.connected
    BY <2>1, <1>2 DEF AttemptInv, Connecting
  <2>3. NewsInv'
    BY <2>1, <2>2, <1>2, <1>4, <1>5, <1>6 DEF NewsInv, Posted
  <2>4. AttemptPending'
    BY <1>4, <1>6 DEF AttemptPending, Posted
  <2>5. /\ RefreshPending => RefreshPending'
        /\ FinishPending => FinishPending'
    BY <1>2, <1>4, <1>6 DEF RefreshPending, FinishPending, Finishes, Busy, Posted
  <2>6. StatusInv'
    BY <2>1, <2>4, <2>5, <1>2, StatusKept
  <2> QED BY <2>3, <2>6
<1> QED BY <1>1, <1>2, <1>7, <1>8, <1>9, <1>10 DEF IInv

LEMMA StoreSocketKeeps ==
    ASSUME IInv, ~destroyed, NEW i \in Connections, thread[i] = "store_socket",
           Store(i, "client_socket", i, "store_channel")
    PROVE  IInv'
<1>1. TypeOK /\ CauseInv /\ FreshInv /\ WindowInv
  BY DEF IInv
<1>2. /\ thread' = [thread EXCEPT ![i] = "store_channel"]
      /\ app' = [app EXCEPT !["client_socket"] = i]
      /\ UNCHANGED <<window, callbacks, task, send_lock, socket, destroyed, history>>
  BY DEF Store, GoOn
<1>3. /\ thread'[i] = "store_channel"
      /\ \A j \in Connections \ {i} : thread'[j] = thread[j]
      /\ \A j \in Connections : thread[j] \in Connecting <=> thread'[j] \in Connecting
      /\ app'.client_socket = i /\ app'.channel = app.channel
      /\ app'.connected = app.connected
  BY <1>1, <1>2 DEF TypeOK, Connecting
<1>4. TypeOK'
  BY <1>1, <1>2 DEF TypeOK, Connecting, Optional
<1>5. CauseInv'
  <2>1. \A j \in Connections : Over(j) => Over(j)'
    BY <1>2, <1>3 DEF Over
  <2> QED BY <2>1, <1>1, <1>2 DEF CauseInv, Is
<1>6. FreshInv'
  <2> SUFFICES ASSUME ~history.stale_refresh PROVE AttemptInv' /\ OwnerInv'
    BY <1>2 DEF FreshInv
  <2>1. AttemptInv /\ OwnerInv
    BY <1>1 DEF FreshInv
  <2>2. /\ ~app.connected /\ app.client_socket = None
        /\ \A c \in DOMAIN callbacks : ~Is(c, "connection_failed")
        /\ \A j \in Connections : thread[j] \in Connecting => j = i
    BY <2>1 DEF AttemptInv, Connecting
  <2>3. AttemptInv'
    BY <2>1, <2>2, <1>2, <1>3 DEF AttemptInv, Is, Connecting
  <2>4. \A j \in Connections : thread[j] \in After => thread'[j] \in After
    BY <1>3 DEF After
  <2>5. \A j \in Connections : socket'[j] = "open" => j = i
    BY <2>1, <2>2, <1>2 DEF OwnerInv, Connecting, Connections
  <2>6. OwnerInv'
    BY <2>1, <2>2, <2>4, <2>5, <1>1, <1>2, <1>3 DEF OwnerInv, CauseInv, Is, Connecting
  <2> QED BY <2>3, <2>6
<1>7. WindowInv'
  <2> SUFFICES ASSUME ~history.stale_refresh, ~history.early_send PROVE NewsInv' /\ StatusInv'
    BY <1>2 DEF WindowInv
  <2>1. NewsInv /\ StatusInv /\ AttemptInv
    BY <1>1 DEF WindowInv, FreshInv
  <2>2. window.status = "CONNECTING" /\ ~app.connected
    BY <2>1 DEF AttemptInv, Connecting
  <2>3. NewsInv'
    BY <2>1, <2>2, <1>2, <1>3 DEF NewsInv, Is
  <2>4. AttemptPending'
    BY <1>3 DEF AttemptPending, Connecting
  <2>5. StatusInv'
    BY <2>1, <2>2, <2>4, <1>2 DEF StatusInv
  <2> QED BY <2>3, <2>5
<1> QED BY <1>1, <1>2, <1>4, <1>5, <1>6, <1>7 DEF IInv

LEMMA StoreChannelKeeps ==
    ASSUME IInv, ~destroyed, NEW i \in Connections, thread[i] = "store_channel",
           Store(i, "channel", i, "store_connected")
    PROVE  IInv'
<1>1. TypeOK /\ CauseInv /\ FreshInv /\ WindowInv
  BY DEF IInv
<1>2. /\ thread' = [thread EXCEPT ![i] = "store_connected"]
      /\ app' = [app EXCEPT !["channel"] = i]
      /\ UNCHANGED <<window, callbacks, task, send_lock, socket, destroyed, history>>
  BY DEF Store, GoOn
<1>3. /\ thread'[i] = "store_connected"
      /\ \A j \in Connections \ {i} : thread'[j] = thread[j]
      /\ \A j \in Connections : thread[j] \in Connecting <=> thread'[j] \in Connecting
      /\ app'.channel = i /\ app'.client_socket = app.client_socket
      /\ app'.connected = app.connected
  BY <1>1, <1>2 DEF TypeOK, Connecting
<1>4. TypeOK'
  BY <1>1, <1>2 DEF TypeOK, Connecting, Optional
<1>5. CauseInv'
  <2>1. \A j \in Connections : Over(j) => Over(j)'
    BY <1>2, <1>3 DEF Over
  <2> QED BY <2>1, <1>1, <1>2 DEF CauseInv, Is
<1>6. FreshInv'
  <2> SUFFICES ASSUME ~history.stale_refresh PROVE AttemptInv' /\ OwnerInv'
    BY <1>2 DEF FreshInv
  <2>1. AttemptInv /\ OwnerInv
    BY <1>1 DEF FreshInv
  <2>2. /\ ~app.connected /\ app.client_socket = i
        /\ \A c \in DOMAIN callbacks : ~Is(c, "connection_failed")
        /\ \A j \in Connections : thread[j] \in Connecting => j = i
    BY <2>1 DEF AttemptInv, Connecting
  <2>3. AttemptInv'
    BY <2>1, <2>2, <1>2, <1>3 DEF AttemptInv, Is, Connecting
  <2>4. \A j \in Connections : thread[j] \in After => thread'[j] \in After
    BY <1>3 DEF After
  <2>5. \A j \in Connections : socket'[j] = "open" => j = i
    BY <2>1, <2>2, <1>2 DEF OwnerInv, Connecting, Connections
  <2>6. OwnerInv'
    BY <2>1, <2>2, <2>4, <2>5, <1>1, <1>2, <1>3 DEF OwnerInv, CauseInv, Is, Connecting
  <2> QED BY <2>3, <2>6
<1>7. WindowInv'
  <2> SUFFICES ASSUME ~history.stale_refresh, ~history.early_send PROVE NewsInv' /\ StatusInv'
    BY <1>2 DEF WindowInv
  <2>1. NewsInv /\ StatusInv /\ AttemptInv
    BY <1>1 DEF WindowInv, FreshInv
  <2>2. window.status = "CONNECTING" /\ ~app.connected
    BY <2>1 DEF AttemptInv, Connecting
  <2>3. NewsInv'
    BY <2>1, <2>2, <1>2, <1>3 DEF NewsInv, Is
  <2>4. AttemptPending'
    BY <1>3 DEF AttemptPending, Connecting
  <2>5. StatusInv'
    BY <2>1, <2>2, <2>4, <1>2 DEF StatusInv
  <2> QED BY <2>3, <2>5
<1> QED BY <1>1, <1>2, <1>4, <1>5, <1>6, <1>7 DEF IInv

LEMMA StoreConnectedKeeps ==
    ASSUME IInv, ~destroyed, NEW i \in Connections, thread[i] = "store_connected",
           Store(i, "connected", TRUE, "announce")
    PROVE  IInv'
<1>1. TypeOK /\ CauseInv /\ FreshInv /\ WindowInv
  BY DEF IInv
<1>2. /\ thread' = [thread EXCEPT ![i] = "announce"]
      /\ app' = [app EXCEPT !["connected"] = TRUE]
      /\ UNCHANGED <<window, callbacks, task, send_lock, socket, destroyed, history>>
  BY DEF Store, GoOn
<1>3. /\ thread'[i] = "announce"
      /\ \A j \in Connections \ {i} : thread'[j] = thread[j]
      /\ app'.channel = app.channel /\ app'.client_socket = app.client_socket
      /\ app'.connected
  BY <1>1, <1>2 DEF TypeOK
<1>4. TypeOK'
  BY <1>1, <1>2 DEF TypeOK, After
<1>5. CauseInv'
  <2>1. \A j \in Connections : Over(j) => Over(j)'
    BY <1>2, <1>3 DEF Over
  <2> QED BY <2>1, <1>1, <1>2 DEF CauseInv, Is
<1>6. ~history.stale_refresh =>
         /\ AttemptInv /\ OwnerInv /\ window.status = "CONNECTING" /\ ~window.connect
         /\ ~app.connected /\ app.client_socket = i /\ app.channel = i
         /\ \A c \in DOMAIN callbacks : ~Is(c, "connection_failed")
         /\ \A j \in Connections : thread[j] \in Connecting => j = i
  BY <1>1 DEF FreshInv, AttemptInv, Connecting
<1>7. FreshInv'
  <2> SUFFICES ASSUME ~history.stale_refresh PROVE AttemptInv' /\ OwnerInv'
    BY <1>2 DEF FreshInv
  <2>1. \A j \in Connections : thread'[j] \notin Connecting
    BY <1>3, <1>6 DEF Connecting
  <2>2. AttemptInv'
    BY <1>6, <2>1, <1>2 DEF AttemptInv, Is
  <2>3. \A j \in Connections : thread[j] \in After => thread'[j] \in After
    BY <1>3 DEF After
  <2>4. \A j \in Connections : socket'[j] = "open" => j = i
    BY <1>6, <1>2 DEF OwnerInv, Connecting, Connections
  <2>5. thread'[i] \in After
    BY <1>3 DEF After
  <2>6. OwnerInv'
    BY <1>6, <2>1, <2>3, <2>4, <2>5, <1>1, <1>2, <1>3 DEF OwnerInv, CauseInv, Is
  <2> QED BY <2>2, <2>6
<1>8. WindowInv'
  <2> SUFFICES ASSUME ~history.stale_refresh, ~history.early_send PROVE NewsInv' /\ StatusInv'
    BY <1>2 DEF WindowInv
  <2>1. NewsInv /\ StatusInv /\ OwnerInv
    BY <1>1 DEF WindowInv, FreshInv
  <2>2. thread[i] \notin After /\ i # None
    BY DEF After, Connections
  <2>3. \A k \in Tasks : task[k].socket # i
    BY <2>1, <2>2, <1>1 DEF OwnerInv, CauseInv, NoTask
  <2>4. \A c \in DOMAIN callbacks : ~Finishes(c, i) /\ ~Is(c, "connection_completed")
    BY <2>1, <2>2, <1>6 DEF OwnerInv, NewsInv, Is, Finishes
  <2>5. NewsInv'
    BY <2>1, <2>3, <2>4, <1>2, <1>3, <1>6 DEF NewsInv, Is, Finishes
  <2>6. AttemptPending'
    BY <1>3 DEF AttemptPending
  <2>7. StatusInv'
    BY <2>1, <1>6, <2>6, <1>2 DEF StatusInv
  <2> QED BY <2>5, <2>7
<1> QED BY <1>1, <1>2, <1>4, <1>5, <1>7, <1>8 DEF IInv

LEMMA AnnounceKeeps ==
    ASSUME IInv, ~destroyed, NEW i \in Connections, Announce(i) PROVE IInv'
<1>1. TypeOK /\ CauseInv /\ FreshInv /\ WindowInv
  BY DEF IInv
<1>2. /\ thread[i] = "announce" /\ thread' = [thread EXCEPT ![i] = "test"]
      /\ UNCHANGED <<app, window, socket, task, send_lock, destroyed, history>>
  BY DEF Announce, GoOn
<1>3. callbacks' \in Seq(Callback) /\ \E n : Posted(n, "connection_completed", None)
  BY <1>1, PostFacts DEF Announce, Optional
<1>4. PICK n : Posted(n, "connection_completed", None)
  BY <1>3
<1>5. /\ thread'[i] = "test" /\ \A j \in Connections \ {i} : thread'[j] = thread[j]
      /\ \A j \in Connections : thread[j] \in Connecting <=> thread'[j] \in Connecting
      /\ \A j \in Connections : thread[j] \in After => thread'[j] \in After
  BY <1>1, <1>2 DEF TypeOK, Connecting, After
<1>6. /\ \A c \in DOMAIN callbacks : \A name : Is(c, name) <=> Is(c, name)'
      /\ \A name : Is(n, name)' <=> name = "connection_completed"
      /\ \A c \in DOMAIN callbacks : \A j : Finishes(c, j) <=> Finishes(c, j)'
      /\ \A j : ~Finishes(n, j)'
  BY <1>4 DEF Posted, Is, Finishes
<1>7. TypeOK'
  BY <1>1, <1>2, <1>3 DEF TypeOK, After
<1>8. CauseInv'
  <2>1. \A j \in Connections : Over(j) => Over(j)'
    BY <1>2, <1>5 DEF Over
  <2> QED BY <2>1, <1>1, <1>2, <1>4, <1>6 DEF CauseInv, Posted
<1>9. FreshInv'
  <2> SUFFICES ASSUME ~history.stale_refresh PROVE AttemptInv' /\ OwnerInv'
    BY <1>2 DEF FreshInv
  <2>1. AttemptInv /\ OwnerInv
    BY <1>1 DEF FreshInv
  <2>2. AttemptInv'
    BY <2>1, <1>2, <1>4, <1>5, <1>6 DEF AttemptInv, Posted, Connecting
  <2>3. OwnerInv'
    BY <2>1, <1>1, <1>2, <1>4, <1>5, <1>6 DEF OwnerInv, CauseInv, Posted
  <2> QED BY <2>2, <2>3
<1>10. WindowInv'
  <2> SUFFICES ASSUME ~history.stale_refresh, ~history.early_send PROVE NewsInv' /\ StatusInv'
    BY <1>2 DEF WindowInv
  <2>1. NewsInv /\ StatusInv
    BY <1>1 DEF WindowInv
  <2>2. /\ window.status = "CONNECTING" /\ app.connected /\ app.client_socket = i
        /\ \A k \in Tasks : task[k].socket # i
        /\ \A c \in DOMAIN callbacks : ~Is(c, "connection_completed") /\ ~Finishes(c, i)
    BY <2>1, <1>2 DEF NewsInv
  <2>3. \A j \in Connections : thread'[j] # "announce"
    BY <2>1, <2>2, <1>5 DEF NewsInv
  <2>4. NewsInv'
    BY <2>2, <2>3, <1>2, <1>4, <1>6 DEF NewsInv, Posted
  <2>5. AttemptPending'
    BY <1>4, <1>6 DEF AttemptPending, Posted
  <2>6. /\ RefreshPending => RefreshPending'
        /\ FinishPending => FinishPending'
    BY <1>2, <1>4, <1>6 DEF RefreshPending, FinishPending, Busy, Posted
  <2>7. StatusInv'
    BY <2>1, <2>5, <2>6, <1>2, StatusKept
  <2> QED BY <2>4, <2>7
<1> QED BY <1>1, <1>2, <1>7, <1>8, <1>9, <1>10 DEF IInv

LEMMA LoopFinallyKeeps ==
    ASSUME IInv, ~destroyed, NEW i \in Connections, LoopFinally(i) PROVE IInv'
<1>1. TypeOK /\ CauseInv /\ FreshInv /\ WindowInv
  BY DEF IInv
<1>2. /\ thread[i] = "finally" /\ thread' = [thread EXCEPT ![i] = "done"]
      /\ UNCHANGED <<app, window, socket, task, send_lock, destroyed, history>>
  BY DEF LoopFinally, GoOn
<1>3. callbacks' \in Seq(Callback) /\ \E n : Posted(n, "finish_disconnect", i)
  BY <1>1, PostFacts DEF LoopFinally, Optional
<1>4. PICK n : Posted(n, "finish_disconnect", i)
  BY <1>3
<1>5. /\ thread'[i] = "done" /\ \A j \in Connections \ {i} : thread'[j] = thread[j]
      /\ \A j \in Connections : thread[j] \in Connecting <=> thread'[j] \in Connecting
      /\ \A j \in Connections : thread[j] \in After => thread'[j] \in After
  BY <1>1, <1>2 DEF TypeOK, Connecting, After
<1>6. /\ \A c \in DOMAIN callbacks : \A name : Is(c, name) <=> Is(c, name)'
      /\ \A name : Is(n, name)' <=> name = "finish_disconnect"
      /\ \A c \in DOMAIN callbacks : \A j : Finishes(c, j) <=> Finishes(c, j)'
      /\ \A j : Finishes(n, j)' <=> j = i
  BY <1>4 DEF Posted, Is, Finishes
<1>7. TypeOK'
  BY <1>1, <1>2, <1>3 DEF TypeOK, After
<1>8. CauseInv'
  <2>1. \A j \in Connections : Over(j) => Over(j)'
    BY <1>2, <1>5 DEF Over
  <2>2. Over(i)'
    BY <1>5 DEF Over
  <2> QED BY <2>1, <2>2, <1>1, <1>2, <1>4, <1>6 DEF CauseInv, Posted
<1>9. FreshInv'
  <2> SUFFICES ASSUME ~history.stale_refresh PROVE AttemptInv' /\ OwnerInv'
    BY <1>2 DEF FreshInv
  <2>1. AttemptInv /\ OwnerInv
    BY <1>1 DEF FreshInv
  <2>2. AttemptInv'
    BY <2>1, <1>2, <1>4, <1>5, <1>6 DEF AttemptInv, Posted, Connecting
  <2>3. thread'[i] \in After
    BY <1>5 DEF After
  <2>4. OwnerInv'
    BY <2>1, <2>3, <1>1, <1>2, <1>4, <1>5, <1>6 DEF OwnerInv, CauseInv, Posted
  <2> QED BY <2>2, <2>4
<1>10. WindowInv'
  <2> SUFFICES ASSUME ~history.stale_refresh, ~history.early_send PROVE NewsInv' /\ StatusInv'
    BY <1>2 DEF WindowInv
  <2>1. NewsInv /\ StatusInv
    BY <1>1 DEF WindowInv
  <2>2. NewsInv'
    BY <2>1, <1>2, <1>4, <1>5, <1>6 DEF NewsInv, Posted
  <2>3. AttemptPending => AttemptPending'
    BY <1>2, <1>4, <1>5, <1>6 DEF AttemptPending, Posted, Connecting
  <2>4. /\ RefreshPending => RefreshPending'
        /\ FinishPending => FinishPending'
    BY <1>2, <1>4, <1>6 DEF RefreshPending, FinishPending, Busy, Posted
  <2>5. StatusInv'
    BY <2>1, <2>3, <2>4, <1>2, StatusKept
  <2> QED BY <2>2, <2>5
<1> QED BY <1>1, <1>2, <1>7, <1>8, <1>9, <1>10 DEF IInv
-----------------------------------------------------------------------------
(* send_worker and disconnect_worker.                                      *)
LEMMA TaskGoesOnFacts ==
    ASSUME TypeOK, CauseInv, NEW k \in Tasks, Busy(k),
           NEW next \in {"sending", "failed", "update", "shutdown", "finish", "done"},
           TaskGoesOn(k, next)
    PROVE  /\ task' \in [Tasks -> Task] /\ task'[k].pc = next
           /\ task'[k].kind = task[k].kind /\ task'[k].socket = task[k].socket
           /\ task'[k].channel = task[k].channel
           /\ \A m \in Tasks \ {k} : task'[m] = task[m]
           /\ task[k].kind \in {"send", "disconnect"}
           /\ UNCHANGED <<app, window, thread, destroyed>>
BY DEF TypeOK, TaskGoesOn, Task, CauseInv, Busy, NoTask

LEMMA SendStepKeeps ==
    ASSUME IInv, ~destroyed, NEW k \in Tasks, Busy(k),
           NEW next \in {"sending", "failed", "update", "shutdown", "done"},
           TaskGoesOn(k, next), UNCHANGED <<callbacks, socket>>,
           send_lock' \in Tasks \cup {None},
           history'.stale_refresh = history.stale_refresh,
           history'.early_send = history.early_send,
           history.failed \subseteq history'.failed,
           history' \in [stale_refresh : BOOLEAN, early_send : BOOLEAN,
                         failed : SUBSET Connections],
           next \in {"failed", "update"} => task[k].kind = "send",
           next = "failed" => task[k].socket \in history'.failed,
           next \in {"shutdown", "done"} => task[k].kind = "disconnect",
           next = "shutdown" => CanSend(k),
           next = "done" => ~CanSend(k)
    PROVE  IInv'
<1>1. TypeOK /\ CauseInv /\ FreshInv /\ WindowInv
  BY DEF IInv
<1>2. /\ task' \in [Tasks -> Task] /\ task'[k].pc = next
      /\ task'[k].kind = task[k].kind /\ task'[k].socket = task[k].socket
      /\ task'[k].channel = task[k].channel
      /\ \A m \in Tasks \ {k} : task'[m] = task[m]
      /\ task[k].kind \in {"send", "disconnect"}
      /\ UNCHANGED <<app, window, thread, destroyed>>
  BY <1>1, TaskGoesOnFacts
<1>3. \A m \in Tasks : /\ task'[m].kind = task[m].kind /\ task'[m].socket = task[m].socket
                       /\ task'[m].channel = task[m].channel
  BY <1>2
<1>4. TypeOK'
  BY <1>1, <1>2 DEF TypeOK
<1>5. CauseInv'
  <2>1. \A j : Over(j) => Over(j)'
    BY <1>2, <1>3 DEF Over
  <2>2. \A c \in DOMAIN callbacks : Is(c, "finish_disconnect") =>
            callbacks'[c].socket \in Connections /\ Over(callbacks[c].socket)'
    BY <1>1, <1>2, <1>3 DEF CauseInv, Over
  <2>3. next = "shutdown" => task[k].socket \in Connections
    BY <1>1 DEF TypeOK, Task, CanSend, Optional
  <2>4. \A m \in Tasks :
            /\ task'[m].kind = "none" => task'[m] = NoTask
            /\ task'[m].pc \in {"failed", "update"} => task'[m].kind = "send"
            /\ task'[m].pc \in {"shutdown", "finish"} =>
                  task'[m].kind = "disconnect" /\ task'[m].socket \in Connections
            /\ task'[m].pc = "failed" => task'[m].socket \in history'.failed
    BY <1>1, <1>2, <2>3 DEF CauseInv
  <2> QED BY <2>2, <2>4 DEF CauseInv, Is
<1>6. FreshInv'
  <2> SUFFICES ASSUME ~history.stale_refresh PROVE AttemptInv' /\ OwnerInv'
    BY DEF FreshInv
  <2>1. AttemptInv /\ OwnerInv
    BY <1>1 DEF FreshInv
  <2>2. AttemptInv'
    BY <2>1, <1>2 DEF AttemptInv, Is
  <2>3. OwnerInv'
    BY <2>1, <1>2, <1>3 DEF OwnerInv, Is
  <2> QED BY <2>2, <2>3
<1>7. WindowInv'
  <2> SUFFICES ASSUME ~history.stale_refresh, ~history.early_send PROVE NewsInv' /\ StatusInv'
    BY DEF WindowInv
  <2>1. NewsInv /\ StatusInv /\ OwnerInv
    BY <1>1 DEF WindowInv, FreshInv
  <2>2. NewsInv'
    BY <2>1, <1>2, <1>3 DEF NewsInv, Is, Finishes
  <2>3. next # "done"
    BY <2>1, <1>2 DEF OwnerInv, CanSend, Connections
  <2>4. AttemptPending => AttemptPending'
    BY <1>2 DEF AttemptPending, Is
  <2>5. \A m \in Tasks : Busy(m) => Busy(m)'
    BY <2>3, <1>2 DEF Busy
  <2>6. /\ RefreshPending => RefreshPending'
        /\ FinishPending => FinishPending'
    BY <2>5, <1>2, <1>3 DEF RefreshPending, FinishPending, Is, Finishes
  <2>7. StatusInv'
    BY <2>1, <2>4, <2>6, <1>2, StatusKept
  <2> QED BY <2>2, <2>7
<1> QED BY <1>1, <1>2, <1>4, <1>5, <1>6, <1>7 DEF IInv

LEMMA AcquireLockKeeps ==
    ASSUME IInv, ~destroyed, NEW k \in Tasks, AcquireLock(k) PROVE IInv'
<1>1. TypeOK
  BY DEF IInv
<1>2. /\ Busy(k) /\ TaskGoesOn(k, "sending") /\ UNCHANGED <<callbacks, socket, history>>
      /\ send_lock' \in Tasks \cup {None}
  BY DEF AcquireLock, Busy
<1>3. history \in [stale_refresh : BOOLEAN, early_send : BOOLEAN, failed : SUBSET Connections]
  BY <1>1 DEF TypeOK
<1> QED BY <1>2, <1>3, SendStepKeeps

LEMMA SendReturnsKeeps ==
    ASSUME IInv, ~destroyed, NEW k \in Tasks, SendReturns(k) PROVE IInv'
<1> DEFINE next == IF task[k].kind = "send" THEN "update" ELSE "shutdown"
<1>1. TypeOK /\ CauseInv
  BY DEF IInv
<1>2. /\ Busy(k) /\ TaskGoesOn(k, next) /\ UNCHANGED <<callbacks, socket, history>>
      /\ send_lock' \in Tasks \cup {None} /\ CanSend(k)
  BY DEF SendReturns, Busy
<1>3. task[k].kind \in {"send", "disconnect"}
  BY <1>1 DEF TypeOK, Task, CauseInv, SendReturns, NoTask
<1>4. history \in [stale_refresh : BOOLEAN, early_send : BOOLEAN, failed : SUBSET Connections]
  BY <1>1 DEF TypeOK
<1> QED BY <1>2, <1>3, <1>4, SendStepKeeps

LEMMA SendRaisesKeeps ==
    ASSUME IInv, ~destroyed, NEW k \in Tasks, SendRaises(k) PROVE IInv'
<1>1. TypeOK /\ CauseInv
  BY DEF IInv
<1>2. /\ Busy(k) /\ UNCHANGED <<callbacks, socket>> /\ send_lock' \in Tasks \cup {None}
  BY DEF SendRaises, Busy
<1>3. task[k].kind \in {"send", "disconnect"}
  BY <1>1 DEF TypeOK, Task, CauseInv, SendRaises, NoTask
<1>4. history \in [stale_refresh : BOOLEAN, early_send : BOOLEAN, failed : SUBSET Connections]
  BY <1>1 DEF TypeOK
<1>5. CASE /\ CanSend(k) /\ TaskGoesOn(k, AfterRaise(task[k].kind))
           /\ history' = [history EXCEPT !.failed =
                IF task[k].kind = "send" THEN @ \cup {task[k].socket} ELSE @]
  <2>1. task[k].socket \in Connections
    BY <1>1, <1>5 DEF TypeOK, Task, CanSend, Optional
  <2>2. /\ history' \in [stale_refresh : BOOLEAN, early_send : BOOLEAN,
                         failed : SUBSET Connections]
        /\ history'.stale_refresh = history.stale_refresh
        /\ history'.early_send = history.early_send
        /\ history.failed \subseteq history'.failed
        /\ task[k].kind = "send" => task[k].socket \in history'.failed
    BY <1>4, <1>5, <2>1
  <2>3. CASE task[k].kind = "send"
    <3>1. TaskGoesOn(k, "failed")
      BY <1>5, <2>3 DEF AfterRaise
    <3> QED BY <1>2, <2>2, <2>3, <3>1, SendStepKeeps
  <2>4. CASE task[k].kind = "disconnect"
    <3>1. TaskGoesOn(k, "shutdown")
      BY <1>5, <2>4 DEF AfterRaise
    <3> QED BY <1>2, <1>5, <2>2, <2>4, <3>1, SendStepKeeps
  <2> QED BY <1>3, <2>3, <2>4
<1>6. CASE /\ ~CanSend(k) /\ UNCHANGED history
           /\ TaskGoesOn(k, IF task[k].kind = "send" THEN "update" ELSE "done")
  <2>1. CASE task[k].kind = "send"
    <3>1. TaskGoesOn(k, "update")
      BY <1>6, <2>1
    <3> QED BY <1>2, <1>4, <1>6, <2>1, <3>1, SendStepKeeps
  <2>2. CASE task[k].kind = "disconnect"
    <3>1. TaskGoesOn(k, "done")
      BY <1>6, <2>2
    <3> QED BY <1>2, <1>4, <1>6, <2>2, <3>1, SendStepKeeps
  <2> QED BY <1>3, <2>1, <2>2
<1> QED BY <1>5, <1>6 DEF SendRaises

(* A task posts a callback: finish_disconnect for the connection it has    *)
(* found broken or has shut down, or _update_controls at its end.          *)
LEMMA FinishKeeps ==
    ASSUME IInv, ~destroyed, NEW k \in Tasks, NEW next \in {"update", "done"},
           NEW name \in {"finish_disconnect", "_update_controls"}, NEW i \in Optional,
           \/ task[k].pc = "failed" /\ next = "update" /\ name = "finish_disconnect"
           \/ task[k].pc = "update" /\ next = "done" /\ name = "_update_controls"
           \/ task[k].pc = "finish" /\ next = "done" /\ name = "finish_disconnect",
           i = IF name = "finish_disconnect" THEN task[k].socket ELSE None,
           Post(name, i), TaskGoesOn(k, next), UNCHANGED <<send_lock, socket, history>>
    PROVE  IInv'
<1>1. TypeOK /\ CauseInv /\ FreshInv /\ WindowInv
  BY DEF IInv
<1>2. /\ task' \in [Tasks -> Task] /\ task'[k].pc = next
      /\ task'[k].kind = task[k].kind /\ task'[k].socket = task[k].socket
      /\ task'[k].channel = task[k].channel
      /\ \A m \in Tasks \ {k} : task'[m] = task[m]
      /\ task[k].kind \in {"send", "disconnect"}
      /\ UNCHANGED <<app, window, thread, destroyed>>
  BY <1>1, TaskGoesOnFacts DEF Busy
<1>3. \A m \in Tasks : /\ task'[m].kind = task[m].kind /\ task'[m].socket = task[m].socket
                       /\ task'[m].channel = task[m].channel
  BY <1>2
<1>4. callbacks' \in Seq(Callback) /\ \E n : Posted(n, name, i)
  BY <1>1, PostFacts
<1>5. PICK n : Posted(n, name, i)
  BY <1>4
<1>6. /\ \A c \in DOMAIN callbacks : \A nm : Is(c, nm) <=> Is(c, nm)'
      /\ \A nm : Is(n, nm)' <=> nm = name
      /\ \A c \in DOMAIN callbacks : \A j : Finishes(c, j) <=> Finishes(c, j)'
      /\ \A j : Finishes(n, j)' <=> name = "finish_disconnect" /\ j = task[k].socket
  BY <1>5 DEF Posted, Is, Finishes
<1>7. TypeOK'
  BY <1>1, <1>2, <1>4 DEF TypeOK
<1>8. name = "finish_disconnect" => task[k].socket \in Connections /\ Over(task[k].socket)
  BY <1>1 DEF CauseInv, Over, TypeOK
<1>9. CauseInv'
  <2>1. \A j : Over(j) => Over(j)'
    BY <1>2, <1>3 DEF Over
  <2>2. \A c \in DOMAIN callbacks' : Is(c, "finish_disconnect")' =>
            (callbacks[c].socket \in Connections /\ Over(callbacks[c].socket))'
    <3> SUFFICES ASSUME NEW c \in DOMAIN callbacks', Is(c, "finish_disconnect")'
                 PROVE  callbacks'[c].socket \in Connections /\ Over(callbacks[c].socket)'
      OBVIOUS
    <3>1. CASE c = n
      <4>1. name = "finish_disconnect" /\ callbacks'[c].socket = task[k].socket
        BY <3>1, <1>5, <1>6 DEF Posted
      <4>2. Over(task[k].socket) /\ task[k].socket \in Connections
        BY <4>1, <1>8
      <4> QED BY <4>1, <4>2, <1>2, <1>3 DEF Over
    <3>2. CASE c # n
      <4>1. /\ c \in DOMAIN callbacks /\ callbacks'[c] = callbacks[c]
            /\ Is(c, "finish_disconnect")
        BY <3>2, <1>5, <1>6 DEF Posted
      <4>2. callbacks[c].socket \in Connections /\ Over(callbacks[c].socket)
        BY <4>1, <1>1 DEF CauseInv
      <4> QED BY <4>1, <4>2, <1>2, <1>3 DEF Over
    <3> QED BY <3>1, <3>2
  <2>3. \A m \in Tasks :
            /\ task'[m].kind = "none" => task'[m] = NoTask
            /\ task'[m].pc \in {"failed", "update"} => task'[m].kind = "send"
            /\ task'[m].pc \in {"shutdown", "finish"} =>
                  task'[m].kind = "disconnect" /\ task'[m].socket \in Connections
            /\ task'[m].pc = "failed" => task'[m].socket \in history'.failed
    BY <1>1, <1>2 DEF CauseInv
  <2> QED BY <2>2, <2>3 DEF CauseInv
<1>10. FreshInv'
  <2> SUFFICES ASSUME ~history.stale_refresh PROVE AttemptInv' /\ OwnerInv'
    BY DEF FreshInv
  <2>1. AttemptInv /\ OwnerInv
    BY <1>1 DEF FreshInv
  <2>2. AttemptInv'
    BY <2>1, <1>2, <1>5, <1>6 DEF AttemptInv, Posted
  <2>3. name = "finish_disconnect" => thread[task[k].socket] \in After
    BY <2>1, <1>2 DEF OwnerInv
  <2>4. OwnerInv'
    BY <2>1, <2>3, <1>2, <1>3, <1>5, <1>6 DEF OwnerInv, Posted
  <2> QED BY <2>2, <2>4
<1>11. WindowInv'
  <2> SUFFICES ASSUME ~history.stale_refresh, ~history.early_send PROVE NewsInv' /\ StatusInv'
    BY DEF WindowInv
  <2>1. NewsInv /\ StatusInv
    BY <1>1 DEF WindowInv
  <2>2. NewsInv'
    BY <2>1, <1>2, <1>3, <1>5, <1>6 DEF NewsInv, Posted
  <2>3. AttemptPending => AttemptPending'
    BY <1>2, <1>5, <1>6 DEF AttemptPending, Posted
  <2>4. \A m \in Tasks : Busy(m) => Busy(m)' \/ (m = k /\ next = "done")
    BY <1>2 DEF Busy
  <2>5. next = "done" /\ task[k].kind = "send" => name = "_update_controls"
    BY <1>1 DEF CauseInv
  <2>6. RefreshPending => RefreshPending'
    BY <2>4, <2>5, <1>3, <1>5, <1>6 DEF RefreshPending, Posted
  <2>7. task[k].kind = "disconnect" => name = "finish_disconnect"
    BY <1>1 DEF CauseInv
  <2>8. FinishPending => FinishPending'
    BY <2>4, <2>7, <1>2, <1>3, <1>5, <1>6 DEF FinishPending, Posted
  <2>9. StatusInv'
    BY <2>1, <2>3, <2>6, <2>8, <1>2, StatusKept
  <2> QED BY <2>2, <2>9
<1> QED BY <1>1, <1>2, <1>7, <1>9, <1>10, <1>11 DEF IInv

LEMMA ShutdownAndCloseKeeps ==
    ASSUME IInv, ~destroyed, NEW k \in Tasks, ShutdownAndClose(k) PROVE IInv'
<1>1. TypeOK /\ CauseInv /\ FreshInv /\ WindowInv
  BY DEF IInv
<1>2. /\ task' \in [Tasks -> Task] /\ task'[k].pc = "finish"
      /\ task'[k].kind = task[k].kind /\ task'[k].socket = task[k].socket
      /\ task'[k].channel = task[k].channel
      /\ \A m \in Tasks \ {k} : task'[m] = task[m]
      /\ task[k].kind \in {"send", "disconnect"}
      /\ UNCHANGED <<app, window, thread, destroyed, callbacks, send_lock, history>>
  BY <1>1, TaskGoesOnFacts DEF ShutdownAndClose, Busy
<1>3. \A m \in Tasks : /\ task'[m].kind = task[m].kind /\ task'[m].socket = task[m].socket
                       /\ task'[m].channel = task[m].channel
  BY <1>2
<1>4. task[k].pc = "shutdown" /\ socket' = ShutDown(task[k].socket)
  BY DEF ShutdownAndClose
<1>5. /\ socket' \in [Connections -> {"none", "open", "closed", "shut"}]
      /\ \A i \in Connections : socket'[i] = "open" => socket[i] = "open"
  BY <1>1, <1>4 DEF ShutDown, TypeOK
<1>6. TypeOK'
  BY <1>1, <1>2, <1>5 DEF TypeOK
<1>7. CauseInv'
  <2>1. \A j : Over(j) => Over(j)'
    BY <1>2, <1>3 DEF Over
  <2>2. \A c \in DOMAIN callbacks : Is(c, "finish_disconnect") =>
            callbacks'[c].socket \in Connections /\ Over(callbacks[c].socket)'
    BY <1>1, <1>2, <1>3 DEF CauseInv, Over
  <2>3. \A m \in Tasks :
            /\ task'[m].kind = "none" => task'[m] = NoTask
            /\ task'[m].pc \in {"failed", "update"} => task'[m].kind = "send"
            /\ task'[m].pc \in {"shutdown", "finish"} =>
                  task'[m].kind = "disconnect" /\ task'[m].socket \in Connections
            /\ task'[m].pc = "failed" => task'[m].socket \in history'.failed
    BY <1>1, <1>2, <1>4 DEF CauseInv
  <2> QED BY <2>2, <2>3, <1>2 DEF CauseInv, Is
<1>8. FreshInv'
  <2> SUFFICES ASSUME ~history.stale_refresh PROVE AttemptInv' /\ OwnerInv'
    BY <1>2 DEF FreshInv
  <2>1. AttemptInv /\ OwnerInv
    BY <1>1 DEF FreshInv
  <2>2. AttemptInv'
    BY <2>1, <1>2 DEF AttemptInv, Is
  <2>3. OwnerInv'
    BY <2>1, <1>2, <1>3, <1>5 DEF OwnerInv, Is
  <2> QED BY <2>2, <2>3
<1>9. WindowInv'
  <2> SUFFICES ASSUME ~history.stale_refresh, ~history.early_send PROVE NewsInv' /\ StatusInv'
    BY <1>2 DEF WindowInv
  <2>1. NewsInv /\ StatusInv
    BY <1>1 DEF WindowInv
  <2>2. NewsInv'
    BY <2>1, <1>2, <1>3 DEF NewsInv, Is, Finishes
  <2>3. AttemptPending => AttemptPending'
    BY <1>2 DEF AttemptPending, Is
  <2>4. \A m \in Tasks : Busy(m) => Busy(m)'
    BY <1>2 DEF Busy
  <2>5. /\ RefreshPending => RefreshPending'
        /\ FinishPending => FinishPending'
    BY <2>4, <1>2, <1>3 DEF RefreshPending, FinishPending, Is, Finishes
  <2>6. StatusInv'
    BY <2>1, <2>3, <2>5, <1>2, StatusKept
  <2> QED BY <2>2, <2>6
<1> QED BY <1>1, <1>2, <1>6, <1>7, <1>8, <1>9 DEF IInv
-----------------------------------------------------------------------------
LEMMA ThreadStepKeeps ==
    ASSUME IInv, ~destroyed, NEW i \in Connections,
           \/ ThreadStep(i) \/ ConnectSucceeds(i) \/ ConnectFails(i) \/ ReceiveRaises(i)
           \/ \E type \in {"chat", "close"} : ReceiveMessage(i, type)
    PROVE  IInv'
<1>1. CASE StoreAttributes(i)
  BY <1>1, StoreSocketKeeps, StoreChannelKeeps, StoreConnectedKeeps DEF StoreAttributes
<1>2. CASE Announce(i)
  BY <1>2, AnnounceKeeps
<1>3. CASE LoopTest(i)
  <2>1. \E next \in {"receive", "finally"} : GoOn(i, next)
    BY <1>3 DEF LoopTest
  <2> QED BY <1>3, <2>1, MoveKeeps DEF LoopTest
<1>4. CASE LoopFinally(i)
  BY <1>4, LoopFinallyKeeps
<1>5. CASE ConnectSucceeds(i)
  BY <1>5, ConnectSucceedsKeeps
<1>6. CASE ConnectFails(i)
  BY <1>6, ConnectFailsKeeps
<1>7. CASE ReceiveRaises(i)
  BY <1>7, MoveKeeps DEF ReceiveRaises
<1>8. CASE \E type \in {"chat", "close"} : ReceiveMessage(i, type)
  <2>1. \E next \in {"test", "finally"} : GoOn(i, next)
    BY <1>8 DEF ReceiveMessage
  <2> QED BY <1>8, <2>1, MoveKeeps DEF ReceiveMessage
<1> QED BY <1>1, <1>2, <1>3, <1>4, <1>5, <1>6, <1>7, <1>8 DEF ThreadStep

LEMMA TaskStepKeeps ==
    ASSUME IInv, ~destroyed, NEW k \in Tasks, TaskStep(k) \/ SendReturns(k) \/ SendRaises(k)
    PROVE  IInv'
<1>1. CASE Finish(k)
  <2>1. task[k].socket \in Optional /\ None \in Optional
    BY DEF IInv, TypeOK, Task, Optional
  <2>2. CASE /\ task[k].pc = "failed" /\ Post("finish_disconnect", task[k].socket)
             /\ TaskGoesOn(k, "update")
    BY <1>1, <2>1, <2>2, FinishKeeps DEF Finish
  <2>3. CASE /\ task[k].pc = "update" /\ Post("_update_controls", None)
             /\ TaskGoesOn(k, "done")
    BY <1>1, <2>1, <2>3, FinishKeeps DEF Finish
  <2>4. CASE /\ task[k].pc = "finish" /\ Post("finish_disconnect", task[k].socket)
             /\ TaskGoesOn(k, "done")
    BY <1>1, <2>1, <2>4, FinishKeeps DEF Finish
  <2> QED BY <1>1, <2>2, <2>3, <2>4 DEF Finish
<1> QED BY <1>1, AcquireLockKeeps, SendReturnsKeeps, SendRaisesKeeps, ShutdownAndCloseKeeps
        DEF TaskStep

LEMMA NextIInv == IInv /\ [Next]_vars => IInv'
<1> SUFFICES ASSUME IInv, [Next]_vars PROVE IInv'
  OBVIOUS
<1>1. CASE UNCHANGED vars
  <2>1. /\ UNCHANGED <<app, window, callbacks, thread, task>>
        /\ UNCHANGED <<send_lock, socket, destroyed, history>>
    BY <1>1 DEF vars, threads
  <2>2. TypeOK' <=> TypeOK
    BY <2>1 DEF TypeOK
  <2>3. DeadInv' <=> DeadInv
    BY <2>1 DEF DeadInv
  <2>4. CauseInv' <=> CauseInv
    BY <2>1 DEF CauseInv, Is, Over
  <2>5. FreshInv' <=> FreshInv
    BY <2>1 DEF FreshInv, AttemptInv, OwnerInv, Is
  <2>6. NewsInv' <=> NewsInv
    BY <2>1 DEF NewsInv, Is, Finishes
  <2>7. StatusInv' <=> StatusInv
    BY <2>1 DEF StatusInv, AttemptPending, RefreshPending, FinishPending, Busy, Is, Finishes
  <2> QED BY <2>1, <2>2, <2>3, <2>4, <2>5, <2>6, <2>7 DEF IInv, WindowInv
<1>2. CASE ~destroyed /\ (ConnectClicked \/ SendClicked \/ DisconnectClicked \/ CloseProgram)
  BY <1>2, ConnectClickedKeeps, SendClickedKeeps, DisconnectClickedKeeps, CloseProgramKeeps
<1>3. CASE ~destroyed /\ RunCallback
  BY <1>3, ConnectionCompletedKeeps, ConnectionFailedKeeps, FinishDisconnectKeeps, RefreshKeeps
     DEF RunCallback
<1>4. CASE /\ ~destroyed
           /\ \E i \in Connections :
                 \/ ThreadStep(i) \/ ConnectSucceeds(i) \/ ConnectFails(i) \/ ReceiveRaises(i)
                 \/ \E type \in {"chat", "close"} : ReceiveMessage(i, type)
  BY <1>4, ThreadStepKeeps
<1>5. CASE /\ ~destroyed
           /\ \E k \in Tasks : TaskStep(k) \/ SendReturns(k) \/ SendRaises(k)
  BY <1>5, TaskStepKeeps
<1> QED BY <1>1, <1>2, <1>3, <1>4, <1>5 DEF Next, OwnStep

LEMMA IInvAlways == Spec => []IInv
BY InitIInv, NextIInv, PTL DEF Spec
-----------------------------------------------------------------------------
(* Which buttons can be clicked, also after an early Enter: where they do  *)
(* not agree with the session, something is pending that will refresh them.*)
AttemptOpen ==
    \/ \E i \in Connections : thread[i] \in Connecting
    \/ \E c \in DOMAIN callbacks : Is(c, "connection_failed")
NewsPending ==
    \/ \E i \in Connections : thread[i] = "announce"
    \/ \E c \in DOMAIN callbacks : Is(c, "connection_completed")
Buttons ==
    /\ ~app.connected =>
          ~window.send /\ ~window.disconnect /\ (window.connect \/ AttemptOpen)
    /\ app.connected =>
          /\ window.send \/ NewsPending \/ RefreshPending \/ FinishPending
          /\ window.disconnect \/ NewsPending \/ FinishPending
ButtonInv == ~destroyed /\ ~history.stale_refresh => Buttons

(* What the steps may rely on.                                             *)
Usable == TypeOK /\ CauseInv /\ AttemptInv /\ OwnerInv /\ Buttons /\ ~destroyed

(* A step that leaves the window alone only has to keep what is pending.   *)
LEMMA ButtonsKept ==
    ASSUME Buttons, window' = window, app' = app,
           AttemptOpen => AttemptOpen', NewsPending => NewsPending',
           RefreshPending => RefreshPending', FinishPending => FinishPending'
    PROVE  Buttons'
BY DEF Buttons

(* One that refreshes the buttons needs nothing more.                      *)
LEMMA ButtonsRefreshed ==
    ASSUME NEW status, app'.connected \in BOOLEAN, window' = Window(app'.connected, status)
    PROVE  Buttons'
<1>1. CASE app'.connected
  BY <1>1 DEF Buttons, Window
<1>2. CASE ~app'.connected
  BY <1>2 DEF Buttons, Window
<1> QED BY <1>1, <1>2

LEMMA ButtonsKeptByUser ==
    ASSUME Usable, ConnectClicked \/ SendClicked \/ DisconnectClicked PROVE Buttons'
<1>1. CASE ConnectClicked
  <2> DEFINE n == First(NewConnections)
  <2>1. n \in Connections
    BY <1>1, FirstFacts DEF ConnectClicked, NewConnections, Connections
  <2>2. /\ thread' = [thread EXCEPT ![n] = "connecting"] /\ app' = app
        /\ window' = [window EXCEPT !.connect = FALSE, !.status = "CONNECTING"]
        /\ window.connect
    BY <1>1 DEF ConnectClicked
  <2>3. ~app.connected
    BY <2>2 DEF Usable, OwnerInv
  <2>4. thread'[n] \in Connecting
    BY <2>1, <2>2 DEF Usable, TypeOK, Connecting
  <2>5. AttemptOpen'
    BY <2>1, <2>4 DEF AttemptOpen
  <2> QED BY <2>2, <2>3, <2>5 DEF Usable, TypeOK, Buttons
<1>2. CASE SendClicked \/ DisconnectClicked
  <2> DEFINE n == First(NewTasks)
  <2>1. n \in Tasks /\ task[n].kind = "none"
    BY <1>2, FirstFacts DEF SendClicked, DisconnectClicked, NewTasks, Tasks
  <2>2. /\ UNCHANGED <<app, callbacks, thread>> /\ app.connected
        /\ \A k \in Tasks \ {n} : task'[k] = task[k]
        /\ task'[n].pc = "waiting" /\ task'[n].socket = app.client_socket
        /\ task'[n].kind = IF SendClicked THEN "send" ELSE "disconnect"
    BY <1>2, <2>1 DEF SendClicked, DisconnectClicked, StartTask, Usable, TypeOK
  <2>3. ~Busy(n)
    BY <2>1 DEF Usable, CauseInv, NoTask, Busy
  <2>4. /\ NewsPending => NewsPending'
        /\ FinishPending => FinishPending'
    BY <2>2, <2>3 DEF NewsPending, FinishPending, Is, Finishes, Busy
  <2>5. CASE SendClicked
    <3>1. RefreshPending'
      BY <2>1, <2>2, <2>5 DEF RefreshPending, Busy
    <3>2. window'.disconnect = window.disconnect
      BY <2>5 DEF SendClicked, Usable, TypeOK
    <3> QED BY <2>2, <2>4, <3>1, <3>2 DEF Usable, Buttons
  <2>6. CASE ~SendClicked
    <3>1. FinishPending'
      BY <2>1, <2>2, <2>6 DEF FinishPending, Busy
    <3> QED BY <2>2, <3>1 DEF Buttons
  <2> QED BY <2>5, <2>6
<1> QED BY <1>1, <1>2

LEMMA ButtonsKeptByCallback == ASSUME Usable, RunCallback PROVE Buttons'
<1>1. CASE ConnectionCompleted \/ Refresh
  <2>1. app' = app /\ \E status : window' = Window(app.connected, status)
    BY <1>1 DEF ConnectionCompleted, Refresh
  <2>2. app'.connected \in BOOLEAN
    BY <2>1 DEF Usable, TypeOK
  <2> QED BY <2>1, <2>2, ButtonsRefreshed
<1>2. CASE ConnectionFailed
  <2>1. app'.connected = FALSE
    BY <1>2 DEF ConnectionFailed, Usable, TypeOK
  <2>2. window' = Window(app'.connected, "OFFLINE")
    BY <1>2, <2>1 DEF ConnectionFailed
  <2>3. app'.connected \in BOOLEAN
    BY <2>1
  <2> QED BY <2>2, <2>3, ButtonsRefreshed
<1>3. CASE FinishDisconnect
  <2> DEFINE i == callbacks[1].socket
  <2>1. /\ Moved(callbacks, callbacks') /\ Is(1, "finish_disconnect")
        /\ Head(callbacks) = callbacks[1] /\ UNCHANGED <<thread, task>>
    BY <1>3, RunsFacts DEF FinishDisconnect, Usable
  <2>2. CASE ~CurrentSocket(i) /\ UNCHANGED <<app, window>>
    <3>1. AttemptOpen => AttemptOpen'
      BY <2>1 DEF AttemptOpen, Is, Moved
    <3>2. NewsPending => NewsPending'
      BY <2>1 DEF NewsPending, Is, Moved
    <3>3. RefreshPending => RefreshPending'
      BY <2>1 DEF RefreshPending, Is, Moved, Busy
    <3>4. FinishPending => FinishPending'
      BY <2>1, <2>2 DEF FinishPending, Finishes, Moved, Busy, CurrentSocket
    <3> QED BY <2>2, <3>1, <3>2, <3>3, <3>4, ButtonsKept DEF Usable
  <2>3. CASE /\ app' = [client_socket |-> None, channel |-> None, connected |-> FALSE]
             /\ window' = Window(FALSE, "OFFLINE")
    BY <2>3 DEF Buttons, Window
  <2> QED BY <1>3, <2>1, <2>2, <2>3 DEF FinishDisconnect
<1> QED BY <1>1, <1>2, <1>3 DEF RunCallback

LEMMA ButtonsKeptByThread ==
    ASSUME Usable, NEW j \in Connections,
           \/ ThreadStep(j) \/ ConnectSucceeds(j) \/ ConnectFails(j) \/ ReceiveRaises(j)
           \/ \E type \in {"chat", "close"} : ReceiveMessage(j, type)
    PROVE  Buttons'
<1>1. UNCHANGED <<window, task>> /\ \E next : thread' = [thread EXCEPT ![j] = next]
  BY DEF ThreadStep, StoreAttributes, Store, Announce, LoopTest, LoopFinally, ConnectSucceeds,
         ConnectFails, ReceiveRaises, ReceiveMessage, GoOn
<1>2. \A l \in Connections \ {j} : thread'[l] = thread[l]
  BY <1>1 DEF Usable, TypeOK
<1>3. CASE StoreAttributes(j)
  <2>1. ~app.connected
    BY <1>3 DEF StoreAttributes, Usable, AttemptInv, Connecting
  <2>2. CASE thread[j] = "store_connected"
    <3>1. app'.connected /\ thread'[j] = "announce"
      BY <1>3, <2>2 DEF StoreAttributes, Store, GoOn, Usable, TypeOK
    <3>2. NewsPending'
      BY <3>1 DEF NewsPending
    <3> QED BY <3>1, <3>2 DEF Buttons
  <2>3. CASE thread[j] # "store_connected"
    <3>1. ~app'.connected /\ thread'[j] \in Connecting
      BY <1>3, <2>1, <2>3 DEF StoreAttributes, Store, GoOn, Usable, TypeOK, Connecting
    <3>2. AttemptOpen'
      BY <3>1 DEF AttemptOpen
    <3> QED BY <1>1, <2>1, <3>1, <3>2 DEF Usable, Buttons
  <2> QED BY <2>2, <2>3
<1>4. CASE Announce(j) \/ LoopFinally(j) \/ ConnectFails(j)
  <2>1. PICK name \in {"connection_completed", "finish_disconnect", "connection_failed"},
             i \in Optional : Post(name, i)
    BY <1>4 DEF Announce, LoopFinally, ConnectFails, Optional
  <2>2. PICK n : Posted(n, name, i)
    BY <2>1, PostFacts DEF Usable
  <2>3. /\ \A c \in DOMAIN callbacks : c \in DOMAIN callbacks' /\ callbacks'[c] = callbacks[c]
        /\ n \in DOMAIN callbacks' /\ callbacks'[n].name = name
    BY <2>2 DEF Posted
  <2>4. app' = app
    BY <1>4 DEF Announce, LoopFinally, ConnectFails
  <2>5. RefreshPending => RefreshPending'
    BY <1>1, <2>3 DEF RefreshPending, Is, Busy
  <2>6. FinishPending => FinishPending'
    BY <1>1, <2>3, <2>4 DEF FinishPending, Finishes, Busy
  <2>7. AttemptOpen => AttemptOpen'
    <3>1. CASE ConnectFails(j)
      <4>1. name = "connection_failed"
        BY <2>1, <3>1 DEF ConnectFails, Post, Usable, TypeOK
      <4> QED BY <4>1, <2>3 DEF AttemptOpen, Is
    <3>2. CASE Announce(j) \/ LoopFinally(j)
      <4>1. thread[j] \notin Connecting
        BY <3>2 DEF Announce, LoopFinally, Connecting
      <4> QED BY <4>1, <1>2, <2>3 DEF AttemptOpen, Is
    <3> QED BY <1>4, <3>1, <3>2
  <2>8. NewsPending => NewsPending'
    <3>1. CASE Announce(j)
      <4>1. name = "connection_completed"
        BY <2>1, <3>1 DEF Announce, Post, Usable, TypeOK
      <4> QED BY <4>1, <2>3 DEF NewsPending, Is
    <3>2. CASE ConnectFails(j) \/ LoopFinally(j)
      <4>1. thread[j] # "announce"
        BY <3>2 DEF ConnectFails, LoopFinally
      <4> QED BY <4>1, <1>2, <2>3 DEF NewsPending, Is
    <3> QED BY <1>4, <3>1, <3>2
  <2> QED BY <1>1, <2>4, <2>5, <2>6, <2>7, <2>8, ButtonsKept DEF Usable
<1>5. CASE \/ LoopTest(j) \/ ConnectSucceeds(j) \/ ReceiveRaises(j)
           \/ \E type \in {"chat", "close"} : ReceiveMessage(j, type)
  <2>1. /\ UNCHANGED <<app, callbacks>> /\ thread[j] # "announce"
        /\ thread[j] \in Connecting => thread'[j] \in Connecting
    BY <1>5 DEF LoopTest, ConnectSucceeds, ReceiveRaises, ReceiveMessage, GoOn, Usable, TypeOK,
                Connecting
  <2>2. AttemptOpen => AttemptOpen'
    BY <1>2, <2>1 DEF AttemptOpen, Is
  <2>3. NewsPending => NewsPending'
    BY <1>2, <2>1 DEF NewsPending, Is
  <2>4. /\ RefreshPending => RefreshPending'
        /\ FinishPending => FinishPending'
    BY <1>1, <2>1 DEF RefreshPending, FinishPending, Is, Finishes, Busy
  <2> QED BY <1>1, <2>1, <2>2, <2>3, <2>4, ButtonsKept DEF Usable
<1> QED BY <1>3, <1>4, <1>5 DEF ThreadStep

LEMMA ButtonsKeptByTask ==
    ASSUME Usable, NEW k \in Tasks, TaskStep(k) \/ SendReturns(k) \/ SendRaises(k)
    PROVE  Buttons'
<1>1. /\ UNCHANGED <<app, window, thread>> /\ Busy(k)
      /\ \E next \in {"sending", "failed", "update", "shutdown", "finish", "done"} :
            TaskGoesOn(k, next)
  BY DEF TaskStep, AcquireLock, Finish, ShutdownAndClose, SendReturns, SendRaises, TaskGoesOn,
         AfterRaise, Busy
<1>2. /\ \A m \in Tasks : task'[m].kind = task[m].kind /\ task'[m].socket = task[m].socket
      /\ \A m \in Tasks \ {k} : task'[m] = task[m]
  BY <1>1, TaskGoesOnFacts DEF Usable
<1>3. CASE UNCHANGED callbacks /\ task'[k].pc # "done"
  <2>1. Busy(k)'
    <3>1. task'[k].pc # "none"
      BY <1>1, TaskGoesOnFacts DEF Usable
    <3> QED BY <1>3, <3>1 DEF Busy
  <2>2. \A m \in Tasks : Busy(m) => Busy(m)'
    BY <1>2, <2>1 DEF Busy
  <2>3. /\ RefreshPending => RefreshPending'
        /\ FinishPending => FinishPending'
    BY <1>1, <1>2, <1>3, <2>2 DEF RefreshPending, FinishPending, Is, Finishes
  <2>4. /\ AttemptOpen => AttemptOpen'
        /\ NewsPending => NewsPending'
    BY <1>1, <1>3 DEF AttemptOpen, NewsPending, Is
  <2> QED BY <1>1, <2>3, <2>4, ButtonsKept DEF Usable
<1>4. CASE Finish(k)
  <2>1. PICK name \in {"finish_disconnect", "_update_controls"}, i \in Optional :
           /\ Post(name, i)
           /\ name = "finish_disconnect" => i = task[k].socket
           /\ task[k].pc = "update" => name = "_update_controls"
           /\ task[k].pc = "finish" => name = "finish_disconnect"
           /\ task[k].pc \in {"failed", "update", "finish"}
           /\ task[k].pc = "failed" => TaskGoesOn(k, "update")
    BY <1>4 DEF Finish, Optional, Usable, TypeOK, Task
  <2>2. PICK n : Posted(n, name, i)
    BY <2>1, PostFacts DEF Usable
  <2>3. /\ \A c \in DOMAIN callbacks : c \in DOMAIN callbacks' /\ callbacks'[c] = callbacks[c]
        /\ n \in DOMAIN callbacks' /\ callbacks'[n].name = name /\ callbacks'[n].socket = i
    BY <2>2 DEF Posted
  <2>4. \A m \in Tasks \ {k} : Busy(m) => Busy(m)'
    BY <1>2 DEF Busy
  <2>5. RefreshPending => RefreshPending'
    <3>1. task[k].kind = "send" => task[k].pc # "finish"
      BY DEF Usable, CauseInv
    <3>2. task[k].pc = "failed" => Busy(k)'
      BY <1>1, <2>1, TaskGoesOnFacts DEF Usable, Busy
    <3> QED BY <1>2, <2>1, <2>3, <2>4, <3>1, <3>2 DEF RefreshPending, Is
  <2>6. FinishPending => FinishPending'
    <3>1. task[k].kind = "disconnect" => task[k].pc = "finish"
      BY <2>1 DEF Usable, CauseInv
    <3> QED BY <1>1, <1>2, <2>1, <2>3, <2>4, <3>1 DEF FinishPending, Finishes
  <2>7. /\ AttemptOpen => AttemptOpen'
        /\ NewsPending => NewsPending'
    BY <1>1, <2>3 DEF AttemptOpen, NewsPending, Is
  <2> QED BY <1>1, <2>5, <2>6, <2>7, ButtonsKept DEF Usable
<1>5. ASSUME SendRaises(k) PROVE task'[k].pc # "done"
  <2>1. CanSend(k)
    <3>1. task[k].kind # "none"
      BY <1>1 DEF Usable, CauseInv, Busy, NoTask
    <3> QED BY <3>1 DEF Usable, OwnerInv, CanSend, Connections
  <2>2. \E next \in {"failed", "shutdown"} : TaskGoesOn(k, next)
    BY <1>5, <2>1 DEF SendRaises, AfterRaise
  <2> QED BY <1>1, <2>2, TaskGoesOnFacts DEF Usable
<1>6. ASSUME AcquireLock(k) \/ ShutdownAndClose(k) \/ SendReturns(k) PROVE task'[k].pc # "done"
  <2>1. \E next \in {"sending", "finish", "update", "shutdown"} : TaskGoesOn(k, next)
    BY <1>6 DEF AcquireLock, ShutdownAndClose, SendReturns
  <2> QED BY <1>1, <2>1, TaskGoesOnFacts DEF Usable
<1> QED BY <1>3, <1>4, <1>5, <1>6
       DEF TaskStep, AcquireLock, ShutdownAndClose, SendReturns, SendRaises

LEMMA InitButtonInv == Init => ButtonInv
<1> SUFFICES ASSUME Init PROVE Buttons
  BY DEF ButtonInv
<1>1. ~app.connected /\ window = Window(FALSE, "OFFLINE")
  BY DEF Init
<1> QED BY <1>1 DEF Buttons, Window

LEMMA NextButtonInv == IInv /\ ButtonInv /\ [Next]_vars => ButtonInv'
<1> SUFFICES ASSUME IInv, ButtonInv, [Next]_vars, ~destroyed', ~history'.stale_refresh
             PROVE  Buttons'
  BY DEF ButtonInv
<1>1. CASE UNCHANGED vars
  <2>1. UNCHANGED <<app, window, callbacks, thread, task, destroyed, history>>
    BY <1>1 DEF vars, threads
  <2> QED BY <2>1 DEF ButtonInv, Buttons, AttemptOpen, NewsPending, RefreshPending, FinishPending,
                      Is, Finishes, Busy
<1>2. CASE Next
  <2>1. ~destroyed /\ ~CloseProgram
    BY <1>2 DEF Next, CloseProgram
  <2>2. ~history.stale_refresh
    BY <1>2, <2>1 DEF IInv, TypeOK, Next, OwnStep, ConnectClicked, SendClicked, DisconnectClicked,
           RunCallback, ConnectionCompleted, ConnectionFailed, FinishDisconnect, Refresh, Misleads,
           ThreadStep, StoreAttributes, Store, Announce, LoopTest, LoopFinally, GoOn,
           ConnectSucceeds, ConnectFails, ReceiveRaises, ReceiveMessage,
           TaskStep, AcquireLock, Finish, ShutdownAndClose, SendReturns, SendRaises
  <2>3. Usable
    BY <2>1, <2>2 DEF Usable, IInv, FreshInv, ButtonInv
  <2> QED BY <1>2, <2>1, <2>3, ButtonsKeptByUser, ButtonsKeptByCallback, ButtonsKeptByThread,
             ButtonsKeptByTask DEF Next, OwnStep
<1> QED BY <1>1, <1>2

LEMMA ButtonsAlways == Spec => [](IInv /\ ButtonInv)
BY InitIInv, NextIInv, InitButtonInv, NextButtonInv, PTL DEF Spec
-----------------------------------------------------------------------------
(* Type correctness: in every reachable state of the client of             *)
(* gui_client.py the variables hold what the model says they hold.         *)
THEOREM TypesHold == Spec => []TypeOK
BY IInvAlways, PTL DEF IInv

(* However the three stores of connect_worker (gui_client.py:387-389), the *)
(* clicks and the callbacks interleave, with any number of connections and *)
(* messages, a worker encrypts with the channel of its own socket, until a *)
(* late callback has misled the user (stale_refresh) into connecting twice.*)
THEOREM MatchHolds == Spec => []SocketAndChannelMatch
<1>1. IInv => SocketAndChannelMatch
  BY DEF IInv, DeadInv, NoTask, FreshInv, OwnerInv, SocketAndChannelMatch
<1> QED BY <1>1, IInvAlways, PTL

(* No socket is left open that no attribute and no thread still holds, and *)
(* never are two connections being opened, until a late callback has       *)
(* re-enabled Connect during an attempt (gui_client.py:408 and 482).       *)
THEOREM NoLeak == Spec => []NoSocketLeaks
<1>1. IInv => NoSocketLeaks
  <2> SUFFICES ASSUME IInv, ~history.stale_refresh PROVE NoSocketLeaks
    BY DEF NoSocketLeaks
  <2> DEFINE S == {i \in Connections : thread[i] \in Connecting}
  <2>1. CASE destroyed
    <3>1. S = {} /\ \A i \in Connections : socket[i] # "open"
      BY <2>1 DEF IInv, DeadInv, Connecting
    <3> QED BY <3>1, FS_EmptySet DEF NoSocketLeaks
  <2>2. CASE ~destroyed
    <3>1. AttemptInv /\ OwnerInv
      BY <2>2 DEF IInv, FreshInv
    <3>2. S = {} \/ \E i : S = {i}
      <4>1. \A i, j \in S : i = j
        BY <3>1 DEF AttemptInv
      <4> HIDE DEF S
      <4>2. CASE S # {}
        <5>1. PICK i : i \in S
          BY <4>2
        <5>2. S = {i}
          BY <4>1, <5>1
        <5> QED BY <5>2
      <4> QED BY <4>2
    <3>3. Cardinality(S) <= 1
      <4> HIDE DEF S
      <4>1. CASE S = {}
        BY <4>1, FS_EmptySet
      <4>2. ASSUME NEW i, S = {i} PROVE Cardinality(S) <= 1
        <5>1. Cardinality({i}) = 1
          BY FS_Singleton
        <5> QED BY <4>2, <5>1
      <4> QED BY <3>2, <4>1, <4>2
    <3> QED BY <3>1, <3>3 DEF OwnerInv, NoSocketLeaks
  <2> QED BY <2>1, <2>2
<1> QED BY <1>1, IInvAlways, PTL

(* When nothing is under way, the buttons agree with the session           *)
(* (_update_controls, gui_client.py:556-563, and the callbacks that call   *)
(* it), unless a late callback has misled the user; so does the status,    *)
(* unless a message was also sent before connection_completed had run.     *)
THEOREM WindowTrue == Spec => []WindowTellsTheTruth
<1>1. IInv /\ ButtonInv => WindowTellsTheTruth
  <2> SUFFICES ASSUME IInv, ButtonInv, Quiet, ~destroyed, ~history.stale_refresh
               PROVE  /\ app.connected = (app.client_socket # None)
                      /\ window = Window(app.connected, window.status)
                      /\ ~history.early_send =>
                            window.status = IF app.connected THEN "SECURE" ELSE "OFFLINE"
    BY DEF WindowTellsTheTruth
  <2>1. TypeOK /\ OwnerInv /\ Buttons
    BY DEF IInv, FreshInv, ButtonInv
  <2>2. /\ DOMAIN callbacks = {}
        /\ \A i \in Connections : thread[i] \notin Connecting \cup {"announce"}
        /\ \A k \in Tasks : ~Busy(k)
    BY <2>1, EmptySeq DEF Quiet, Connecting, TypeOK, After
  <2>3. ~AttemptOpen /\ ~NewsPending /\ ~AttemptPending /\ ~RefreshPending /\ ~FinishPending
    BY <2>2 DEF AttemptOpen, NewsPending, AttemptPending, RefreshPending, FinishPending
  <2>4. CASE app.connected
    <3>1. app.client_socket # None /\ ~window.connect
      BY <2>1, <2>4 DEF OwnerInv, Connections
    <3>2. window.send /\ window.disconnect
      BY <2>1, <2>3, <2>4 DEF Buttons
    <3>3. window = Window(TRUE, window.status) /\ app.connected = TRUE
      BY <2>1, <2>4, <3>1, <3>2 DEF TypeOK, Window
    <3>4. ~history.early_send => window.status = "SECURE"
      BY <2>1, <2>3, <2>4 DEF IInv, WindowInv, StatusInv, TypeOK
    <3> QED BY <2>4, <3>1, <3>3, <3>4
  <2>5. CASE ~app.connected
    <3>1. app.client_socket = None
      BY <2>1, <2>2, <2>5 DEF OwnerInv
    <3>2. ~window.send /\ ~window.disconnect /\ window.connect
      BY <2>1, <2>3, <2>5 DEF Buttons
    <3>3. window = Window(FALSE, window.status) /\ app.connected = FALSE
      BY <2>1, <2>5, <3>2 DEF TypeOK, Window
    <3>4. ~history.early_send => window.status = "OFFLINE"
      BY <2>1, <2>3, <2>5 DEF IInv, WindowInv, StatusInv, TypeOK
    <3> QED BY <2>5, <3>1, <3>3, <3>4
  <2> QED BY <2>4, <2>5
<1> QED BY <1>1, ButtonsAlways, PTL

(* A connected session ends only for a reason of its own, however late the *)
(* finish_disconnect of an earlier connection arrives (the guard at        *)
(* gui_client.py:527), until a late callback has led to a second attempt.  *)
THEOREM EndsForCause == Spec => TornDownForCause
<1> DEFINE Cause(i) == (app.client_socket = i /\ app.connected /\ ~app'.connected) =>
                           Over(i) \/ destroyed' \/ history.stale_refresh
<1>1. IInv /\ [Next]_vars => [\A i \in Connections : Cause(i)]_vars
  <2> SUFFICES ASSUME IInv, Next, NEW i \in Connections, app.client_socket = i,
                      app.connected, ~app'.connected, ~destroyed', ~history.stale_refresh
               PROVE  Over(i)
    BY DEF vars
  <2>1. TypeOK /\ CauseInv /\ AttemptInv /\ OwnerInv /\ ~destroyed
    BY DEF IInv, FreshInv, Next
  <2>2. CASE ConnectionFailed
    <3>1. 1 \in DOMAIN callbacks /\ Is(1, "connection_failed")
      BY <2>1, <2>2, RunsFacts DEF ConnectionFailed
    <3> QED BY <2>1, <3>1 DEF AttemptInv
  <2>3. CASE FinishDisconnect
    <3>1. /\ 1 \in DOMAIN callbacks /\ Is(1, "finish_disconnect")
          /\ Head(callbacks) = callbacks[1]
      BY <2>1, <2>3, RunsFacts DEF FinishDisconnect
    <3>2. Over(callbacks[1].socket)
      BY <2>1, <3>1 DEF CauseInv
    <3>3. callbacks[1].socket = i
      BY <2>3, <3>1 DEF FinishDisconnect, CurrentSocket
    <3> QED BY <3>2, <3>3
  <2>4. ASSUME NEW j \in Connections, StoreAttributes(j) PROVE FALSE
    BY <2>1, <2>4 DEF StoreAttributes, Store, TypeOK
  <2> QED BY <2>1, <2>2, <2>3, <2>4
       DEF Next, OwnStep, ConnectClicked, SendClicked, DisconnectClicked, CloseProgram,
           RunCallback, ConnectionCompleted, Refresh, ThreadStep, Announce, LoopTest,
           LoopFinally, ConnectSucceeds, ConnectFails, ReceiveRaises, ReceiveMessage,
           TaskStep, AcquireLock, Finish, ShutdownAndClose, SendReturns, SendRaises, TaskGoesOn
<1> QED BY <1>1, IInvAlways, PTL DEF Spec, TornDownForCause, Cause
-----------------------------------------------------------------------------
(* How a session ends, which is what the server gets to know of it (see    *)
(* GuiSession).  A connection is parted from when its receive_loop has     *)
(* ended, when a message on it has failed, or when it was shut down.       *)
(* finish_disconnect is posted only for such a connection, and it is still *)
(* pending while the attributes hold a connection that nobody reads.       *)
Parted(i) == thread[i] = "done" \/ i \in history.failed \/ socket[i] = "shut"
FinishAsked(i) == \E c \in DOMAIN callbacks : Finishes(c, i)
EndOf(i) ==
    /\ thread[i] \in {"none", "connecting"} <=> socket[i] = "none"
    /\ socket[i] = "closed" => thread[i] = "done" \/ i \in history.failed
    /\ FinishAsked(i) => Parted(i)
    /\ \A k \in Tasks : task[k].pc = "finish" /\ task[k].socket = i => Parted(i)
    /\ thread[i] = "receive" =>
          \/ app.connected /\ app.client_socket = i
          \/ i \in history.failed \/ socket[i] = "shut"
    /\ thread[i] = "done" /\ app.client_socket = i => FinishAsked(i)
EndInv == ~destroyed /\ ~history.stale_refresh => \A i \in Connections : EndOf(i)

LEMMA InitEndInv == Init => EndInv
<1> SUFFICES ASSUME Init, NEW i \in Connections PROVE EndOf(i)
  BY DEF EndInv
<1>1. DOMAIN callbacks = {}
  BY DEF Init
<1> QED BY <1>1 DEF Init, EndOf, FinishAsked, NoTask, Connections

LEMMA AskedAfterRuns ==
    ASSUME TypeOK, NEW name, Runs(name)
    PROVE  \A i : /\ FinishAsked(i)' => FinishAsked(i)
                  /\ FinishAsked(i) => FinishAsked(i)' \/ Finishes(1, i)
<1>1. Moved(callbacks, callbacks')
  BY RunsFacts
<1> QED BY <1>1 DEF FinishAsked, Finishes, Moved

LEMMA AskedAfterPost ==
    ASSUME TypeOK, NEW j \in Optional,
           NEW name \in {"connection_completed", "connection_failed", "finish_disconnect",
                         "_update_controls"},
           Post(name, j)
    PROVE  \A i : FinishAsked(i)' <=> FinishAsked(i) \/ (name = "finish_disconnect" /\ j = i)
<1>1. PICK n : Posted(n, name, j)
  BY PostFacts
<1> QED BY <1>1 DEF FinishAsked, Finishes, Posted

(* What the steps of an attempt, of a session and of a task may rely on.   *)
Fresh == /\ TypeOK /\ CauseInv /\ AttemptInv /\ OwnerInv /\ ~destroyed
         /\ \A i \in Connections : EndOf(i)

LEMMA EndKeptByUser ==
    ASSUME Fresh, NEW i \in Connections, ConnectClicked \/ SendClicked \/ DisconnectClicked
    PROVE  EndOf(i)'
<1>1. /\ UNCHANGED <<app, callbacks, socket>> /\ history'.failed = history.failed
      /\ thread' = thread \/ thread' = [thread EXCEPT ![First(NewConnections)] = "connecting"]
      /\ task' = task \/ \E t : t.pc = "waiting" /\ task' = [task EXCEPT ![First(NewTasks)] = t]
  BY DEF Fresh, TypeOK, ConnectClicked, SendClicked, DisconnectClicked, StartTask
<1>2. First(NewConnections) \notin NewConnections => NewConnections = {}
  BY FirstFacts DEF NewConnections, Connections
<1>3. thread'[i] = thread[i] \/ (thread[i] = "none" /\ thread'[i] = "connecting")
  BY <1>1, <1>2 DEF Fresh, TypeOK, NewConnections, ConnectClicked, SendClicked, DisconnectClicked
<1>4. \A k \in Tasks : task'[k].pc = "finish" => task'[k] = task[k]
  BY <1>1 DEF Fresh, TypeOK
<1>5. (FinishAsked(i) <=> FinishAsked(i)') /\ (Parted(i) => Parted(i)')
  BY <1>1, <1>3 DEF FinishAsked, Finishes, Parted
<1> QED BY <1>1, <1>3, <1>4, <1>5 DEF Fresh, EndOf

LEMMA EndKeptByCallback ==
    ASSUME Fresh, NEW i \in Connections, ConnectionCompleted \/ ConnectionFailed \/ Refresh
    PROVE  EndOf(i)'
<1>1. UNCHANGED <<thread, task, socket>> /\ history'.failed = history.failed
  BY DEF Fresh, TypeOK, ConnectionCompleted, ConnectionFailed, Refresh, Runs, Misleads, threads
<1>2. FinishAsked(i) <=> FinishAsked(i)'
  <2>1. PICK name \in {"connection_completed", "connection_failed", "_update_controls"} :
           Runs(name)
    BY DEF ConnectionCompleted, ConnectionFailed, Refresh
  <2>2. ~Finishes(1, i)
    BY <2>1, RunsFacts DEF Fresh, Is, Finishes
  <2> QED BY <2>1, <2>2, AskedAfterRuns DEF Fresh
<1>3. app' = app \/ (ConnectionFailed /\ ~app.connected /\ app'.client_socket = app.client_socket)
  <2>1. CASE ConnectionFailed
    <3>1. 1 \in DOMAIN callbacks /\ Is(1, "connection_failed")
      BY <2>1, RunsFacts DEF ConnectionFailed, Fresh
    <3> QED BY <2>1, <3>1 DEF Fresh, AttemptInv, ConnectionFailed, TypeOK
  <2> QED BY <2>1 DEF ConnectionCompleted, Refresh
<1> QED BY <1>1, <1>2, <1>3 DEF Fresh, EndOf, Parted

LEMMA EndKeptByFinish ==
    ASSUME Fresh, NEW i \in Connections, FinishDisconnect
    PROVE  EndOf(i)'
<1> DEFINE j == callbacks[1].socket
<1>1. /\ UNCHANGED <<thread, task, history>> /\ Finishes(1, j) /\ j \in Connections
      /\ 1 \in DOMAIN callbacks /\ Head(callbacks) = callbacks[1]
      /\ Runs("finish_disconnect")
  BY RunsFacts DEF Fresh, FinishDisconnect, CauseInv, Is, Finishes
<1>2. /\ FinishAsked(i)' => FinishAsked(i)
      /\ FinishAsked(i) => FinishAsked(i)' \/ i = j
  BY <1>1, AskedAfterRuns DEF Fresh, Finishes
<1>3. FinishAsked(j)
  BY <1>1 DEF FinishAsked
<1>4. Parted(j)
  BY <1>1, <1>3 DEF Fresh, EndOf
<1>5. CASE ~CurrentSocket(j) /\ UNCHANGED <<app, socket>>
  BY <1>1, <1>2, <1>5 DEF Fresh, EndOf, Parted, CurrentSocket
<1>6. CASE /\ CurrentSocket(j) /\ socket' = CloseSocket(j)
           /\ app' = [client_socket |-> None, channel |-> None, connected |-> FALSE]
  <2>1. app.client_socket = j /\ app'.client_socket = None
    BY <1>6 DEF CurrentSocket
  <2>2. socket'[i] = socket[i] \/ (i = j /\ socket[i] = "open" /\ socket'[i] = "closed")
    BY <1>6 DEF CloseSocket, Fresh, TypeOK
  <2>3. Parted(i) => Parted(i)'
    BY <1>1, <2>2 DEF Parted
  <2>4. socket'[i] = "closed" => thread[i] = "done" \/ i \in history.failed
    BY <1>4, <2>2 DEF Parted, Fresh, EndOf
  <2>5. thread[i] = "receive" => i \in history.failed \/ socket'[i] = "shut"
    <3>1. CASE i = j
      BY <3>1, <1>4, <2>2 DEF Parted
    <3>2. CASE i # j
      BY <3>2, <2>1, <2>2 DEF Fresh, EndOf
    <3> QED BY <3>1, <3>2
  <2>6. app'.client_socket # i
    BY <2>1 DEF Connections
  <2> QED BY <1>1, <1>2, <2>2, <2>3, <2>4, <2>5, <2>6 DEF Fresh, EndOf
<1>7. CurrentSocket(j) => app.client_socket = j
  BY DEF CurrentSocket
<1> QED BY <1>1, <1>5, <1>6, <1>7 DEF FinishDisconnect

LEMMA EndKeptByThread ==
    ASSUME Fresh, NEW i \in Connections, NEW j \in Connections,
           \/ ThreadStep(j) \/ ConnectSucceeds(j) \/ ConnectFails(j) \/ ReceiveRaises(j)
           \/ \E type \in {"chat", "close"} : ReceiveMessage(j, type)
    PROVE  EndOf(i)'
<1>1. /\ UNCHANGED <<task, history>> /\ \E next : thread' = [thread EXCEPT ![j] = next]
  BY DEF ThreadStep, StoreAttributes, Store, Announce, LoopTest, LoopFinally, ConnectSucceeds,
         ConnectFails, ReceiveRaises, ReceiveMessage, GoOn
<1>2. \A l \in Connections \ {j} : thread'[l] = thread[l]
  BY <1>1 DEF Fresh, TypeOK
<1>3. CASE StoreAttributes(j)
  <2>1. /\ UNCHANGED <<callbacks, socket>>
        /\ thread[j] \in {"store_socket", "store_channel", "store_connected"}
        /\ thread'[j] \in {"store_channel", "store_connected", "announce"}
        /\ app'.client_socket \in {app.client_socket, j}
        /\ ~app.connected /\ app.client_socket \in {None, j}
    BY <1>3 DEF StoreAttributes, Store, GoOn, Fresh, TypeOK, AttemptInv, Connecting
  <2>2. (FinishAsked(i)' <=> FinishAsked(i)) /\ (Parted(i)' <=> Parted(i))
    BY <1>1, <1>2, <2>1 DEF FinishAsked, Finishes, Parted
  <2> QED BY <1>1, <1>2, <2>1, <2>2 DEF Fresh, EndOf, Connections
<1>4. CASE Announce(j)
  <2>1. /\ UNCHANGED <<app, socket>> /\ thread[j] = "announce" /\ thread'[j] = "test"
        /\ Post("connection_completed", None)
    BY <1>4 DEF Announce, GoOn, Fresh, TypeOK
  <2>2. FinishAsked(i)' <=> FinishAsked(i)
    BY <2>1, AskedAfterPost DEF Fresh, Optional
  <2> QED BY <1>1, <1>2, <2>1, <2>2 DEF Fresh, EndOf, Parted
<1>5. CASE LoopTest(j)
  <2>1. /\ UNCHANGED <<app, callbacks, socket>> /\ thread[j] = "test"
        /\ thread'[j] = IF app.connected /\ app.client_socket = j THEN "receive" ELSE "finally"
    BY <1>5 DEF LoopTest, GoOn, CurrentSocket, Fresh, TypeOK
  <2>2. (FinishAsked(i)' <=> FinishAsked(i)) /\ (Parted(i)' <=> Parted(i))
    BY <1>1, <1>2, <2>1 DEF FinishAsked, Finishes, Parted
  <2> QED BY <1>1, <1>2, <2>1, <2>2 DEF Fresh, EndOf
<1>6. CASE LoopFinally(j)
  <2>1. /\ UNCHANGED <<app, socket>> /\ thread[j] = "finally" /\ thread'[j] = "done"
        /\ Post("finish_disconnect", j)
    BY <1>6 DEF LoopFinally, GoOn, Fresh, TypeOK
  <2>2. FinishAsked(i)' <=> FinishAsked(i) \/ i = j
    BY <2>1, AskedAfterPost DEF Fresh, Optional
  <2>3. (Parted(i) => Parted(i)') /\ Parted(j)'
    BY <1>1, <1>2, <2>1 DEF Parted
  <2> QED BY <1>1, <1>2, <2>1, <2>2, <2>3 DEF Fresh, EndOf
<1>7. CASE ConnectSucceeds(j)
  <2>1. /\ UNCHANGED <<app, callbacks>> /\ thread[j] = "connecting"
        /\ thread'[j] = "store_socket" /\ socket'[j] = "open"
        /\ \A l \in Connections \ {j} : socket'[l] = socket[l]
    BY <1>7 DEF ConnectSucceeds, GoOn, Fresh, TypeOK
  <2>2. socket[j] = "none"
    BY <2>1 DEF Fresh, EndOf
  <2>3. (FinishAsked(i)' <=> FinishAsked(i)) /\ (Parted(i) => Parted(i)')
    BY <1>1, <1>2, <2>1, <2>2 DEF FinishAsked, Finishes, Parted
  <2> QED BY <1>1, <1>2, <2>1, <2>2, <2>3 DEF Fresh, EndOf
<1>8. CASE ConnectFails(j)
  <2>1. /\ UNCHANGED app /\ thread[j] = "connecting" /\ Post("connection_failed", None)
        /\ thread'[j] = "done" /\ socket'[j] = "closed"
        /\ \A l \in Connections \ {j} : socket'[l] = socket[l]
    BY <1>8 DEF ConnectFails, GoOn, Fresh, TypeOK
  <2>2. app.client_socket # j
    BY <2>1 DEF Fresh, AttemptInv, Connecting, Connections
  <2>3. FinishAsked(i)' <=> FinishAsked(i)
    BY <2>1, AskedAfterPost DEF Fresh, Optional
  <2>4. (Parted(i) => Parted(i)') /\ Parted(j)'
    BY <1>1, <1>2, <2>1 DEF Parted
  <2> QED BY <1>1, <1>2, <2>1, <2>2, <2>3, <2>4 DEF Fresh, EndOf
<1>9. CASE ReceiveRaises(j) \/ \E type \in {"chat", "close"} : ReceiveMessage(j, type)
  <2>1. /\ UNCHANGED <<app, callbacks, socket>> /\ thread[j] = "receive"
        /\ thread'[j] \in {"test", "finally"}
    BY <1>9 DEF ReceiveRaises, ReceiveMessage, GoOn, Fresh, TypeOK
  <2>2. (FinishAsked(i)' <=> FinishAsked(i)) /\ (Parted(i)' <=> Parted(i))
    BY <1>1, <1>2, <2>1 DEF FinishAsked, Finishes, Parted
  <2> QED BY <1>1, <1>2, <2>1, <2>2 DEF Fresh, EndOf
<1> QED BY <1>3, <1>4, <1>5, <1>6, <1>7, <1>8, <1>9 DEF ThreadStep

LEMMA EndKeptByTask ==
    ASSUME Fresh, NEW i \in Connections, NEW k \in Tasks,
           TaskStep(k) \/ SendReturns(k) \/ SendRaises(k)
    PROVE  EndOf(i)'
<1>1. UNCHANGED <<app, thread>> /\ history.failed \subseteq history'.failed
  BY DEF TaskStep, AcquireLock, Finish, ShutdownAndClose, SendReturns, SendRaises, TaskGoesOn,
         Fresh, TypeOK
<1>2. CASE AcquireLock(k) \/ SendReturns(k) \/ SendRaises(k)
  <2>1. /\ UNCHANGED <<callbacks, socket>>
        /\ \E next \in {"sending", "update", "shutdown", "failed", "done"} : TaskGoesOn(k, next)
    BY <1>2 DEF AcquireLock, SendReturns, SendRaises, AfterRaise
  <2>2. \A m \in Tasks : task'[m].pc = "finish" => task'[m] = task[m]
    BY <2>1 DEF TaskGoesOn, Fresh, TypeOK, Task
  <2>3. (FinishAsked(i)' <=> FinishAsked(i)) /\ (Parted(i) => Parted(i)')
    BY <1>1, <2>1 DEF FinishAsked, Finishes, Parted
  <2> QED BY <1>1, <2>1, <2>2, <2>3 DEF Fresh, EndOf
<1>3. CASE Finish(k)
  <2>1. /\ UNCHANGED <<socket, history>>
        /\ \E next \in {"update", "done"} : TaskGoesOn(k, next)
    BY <1>3 DEF Finish
  <2>2. \A m \in Tasks : task'[m].pc = "finish" => task'[m] = task[m]
    BY <2>1 DEF TaskGoesOn, Fresh, TypeOK, Task
  <2>3. Parted(i)' <=> Parted(i)
    BY <1>1, <2>1 DEF Parted
  <2>4. (FinishAsked(i) => FinishAsked(i)') /\ (FinishAsked(i)' => FinishAsked(i) \/ Parted(i))
    <3>1. CASE task[k].pc = "update" /\ Post("_update_controls", None)
      BY <3>1, AskedAfterPost DEF Fresh, Optional
    <3>2. CASE task[k].pc \in {"failed", "finish"} /\ Post("finish_disconnect", task[k].socket)
      <4>1. task[k].socket \in Optional
        BY DEF Fresh, TypeOK, Task
      <4>2. FinishAsked(i)' <=> FinishAsked(i) \/ task[k].socket = i
        BY <3>2, <4>1, AskedAfterPost DEF Fresh
      <4>3. task[k].socket = i => Parted(i)
        BY <3>2 DEF Fresh, EndOf, CauseInv, Parted
      <4> QED BY <4>2, <4>3
    <3> QED BY <1>3, <3>1, <3>2 DEF Finish
  <2> QED BY <1>1, <2>1, <2>2, <2>3, <2>4 DEF Fresh, EndOf
<1>4. CASE ShutdownAndClose(k)
  <2> DEFINE j == task[k].socket
  <2>1. /\ UNCHANGED <<callbacks, history>> /\ task[k].pc = "shutdown" /\ j \in Connections
        /\ TaskGoesOn(k, "finish") /\ thread[j] \in After
        /\ socket' = [socket EXCEPT ![j] = IF socket[j] = "open" THEN "shut" ELSE socket[j]]
    BY <1>4 DEF ShutdownAndClose, ShutDown, Fresh, CauseInv, OwnerInv
  <2>2. \A m \in Tasks : task'[m].pc = "finish" => task'[m] = task[m] \/ m = k
    BY <2>1 DEF TaskGoesOn, Fresh, TypeOK, Task
  <2>3. task'[k].socket = j
    BY <2>1 DEF TaskGoesOn, Fresh, TypeOK, Task
  <2>4. socket'[i] = socket[i] \/ (i = j /\ socket[i] = "open" /\ socket'[i] = "shut")
    BY <2>1 DEF Fresh, TypeOK
  <2>5. i = j => Parted(i)'
    <3>1. socket[j] # "none"
      BY <2>1 DEF Fresh, EndOf, After
    <3>2. i = j => socket'[j] \in {"closed", "shut"} /\ (socket'[j] = "closed" => socket[j] = "closed")
      BY <3>1, <2>1 DEF Fresh, TypeOK
    <3> QED BY <1>1, <2>1, <3>2 DEF Fresh, EndOf, Parted
  <2>6. (FinishAsked(i)' <=> FinishAsked(i)) /\ (Parted(i) => Parted(i)')
    BY <1>1, <2>1, <2>4 DEF FinishAsked, Finishes, Parted
  <2> QED BY <1>1, <2>1, <2>2, <2>3, <2>4, <2>5, <2>6 DEF Fresh, EndOf
<1> QED BY <1>2, <1>3, <1>4 DEF TaskStep

LEMMA NextEndInv == IInv /\ EndInv /\ [Next]_vars => EndInv'
<1> SUFFICES ASSUME IInv, EndInv, [Next]_vars, ~destroyed', ~history'.stale_refresh,
                    NEW i \in Connections
             PROVE  EndOf(i)'
  BY DEF EndInv
<1>1. CASE UNCHANGED vars
  <2>1. UNCHANGED <<app, callbacks, thread, task, socket, destroyed, history>>
    BY <1>1 DEF vars, threads
  <2> QED BY <2>1 DEF EndInv, EndOf, Parted, FinishAsked, Finishes
<1>2. CASE Next
  <2>1. ~destroyed /\ ~CloseProgram
    BY <1>2 DEF Next, CloseProgram
  <2>2. ~history.stale_refresh
    BY <1>2, <2>1 DEF IInv, TypeOK, Next, OwnStep, ConnectClicked, SendClicked, DisconnectClicked,
           RunCallback, ConnectionCompleted, ConnectionFailed, FinishDisconnect, Refresh, Misleads,
           ThreadStep, StoreAttributes, Store, Announce, LoopTest, LoopFinally, GoOn,
           ConnectSucceeds, ConnectFails, ReceiveRaises, ReceiveMessage,
           TaskStep, AcquireLock, Finish, ShutdownAndClose, SendReturns, SendRaises
  <2>3. Fresh
    BY <2>1, <2>2 DEF Fresh, IInv, FreshInv, EndInv
  <2> QED BY <1>2, <2>1, <2>3, EndKeptByUser, EndKeptByCallback, EndKeptByFinish, EndKeptByThread,
             EndKeptByTask DEF Next, OwnStep, RunCallback
<1> QED BY <1>1, <1>2

(* What both programs together are proved to do rests on the two           *)
(* invariants, whatever is fair (see GuiSessionProofs).                    *)
LEMMA SafeAlways == Init /\ [][Next]_vars => [](IInv /\ EndInv)
BY InitIInv, NextIInv, InitEndInv, NextEndInv, PTL

(* Only connect makes a thread one that has got through to the server, and *)
(* none begins a second time.                                              *)
Linked == (After \ {"done"}) \cup (Connecting \ {"connecting"})
LEMMA OwnStepMoves ==
    ASSUME TypeOK, OwnStep, NEW i \in Connections
    PROVE  /\ thread'[i] \in Linked => thread[i] \in Linked
           /\ thread[i] # "none" => thread'[i] # "none"
<1>1. CASE ConnectClicked
  <2>1. First(NewConnections) \in NewConnections
    BY <1>1, FirstFacts DEF ConnectClicked, NewConnections, Connections
  <2>2. thread'[i] = thread[i] \/ (thread[i] = "none" /\ thread'[i] = "connecting")
    BY <1>1, <2>1 DEF ConnectClicked, TypeOK, NewConnections
  <2> QED BY <2>2 DEF Linked, After, Connecting
<1>2. CASE CloseProgram
  BY <1>2 DEF CloseProgram, Linked, After, Connecting
<1>3. CASE \E j \in Connections : ThreadStep(j)
  <2>1. PICK j \in Connections : ThreadStep(j)
    BY <1>3
  <2>2. thread[j] \in Linked
    BY <2>1 DEF ThreadStep, StoreAttributes, Announce, LoopTest, LoopFinally,
                Linked, After, Connecting
  <2>3. \E next : next # "none" /\ thread' = [thread EXCEPT ![j] = next]
    <3>1. CASE StoreAttributes(j)
      BY <3>1 DEF StoreAttributes, Store, GoOn
    <3>2. CASE Announce(j) \/ LoopTest(j) \/ LoopFinally(j)
      BY <3>2 DEF Announce, LoopTest, LoopFinally, GoOn
    <3> QED BY <2>1, <3>1, <3>2 DEF ThreadStep
  <2> QED BY <2>2, <2>3 DEF TypeOK
<1>4. CASE UNCHANGED thread
  BY <1>4
<1> QED BY <1>1, <1>2, <1>3, <1>4
     DEF OwnStep, SendClicked, DisconnectClicked, RunCallback, ConnectionCompleted,
         ConnectionFailed, FinishDisconnect, Refresh, Runs, threads, TaskStep, AcquireLock,
         Finish, ShutdownAndClose, TaskGoesOn
=============================================================================
