----------------------------- MODULE DeviceLink -----------------------------
(***************************************************************************)
(* The device's TCP connection: four globals, client_sock,                 *)
(* connection_state, last_heartbeat_time and reconnect_interval, shared    *)
(* without a lock by tcp_client_task, send_task and heartbeat_task         *)
(* (src/tcp_client.c, send_task.c, heartbeat_task.c).                      *)
(*                                                                         *)
(* The firmware runs on one core.  tcp_client_task has the highest         *)
(* priority of the three, so that nothing comes between its statements     *)
(* except where it waits: in close(), socket(), connect(), recv() and      *)
(* vTaskDelay().  The other two can be interrupted anywhere and for as     *)
(* long as the tasks above them keep the core: nothing makes them come to  *)
(* an end before the device has connected again.                           *)
(*                                                                         *)
(* Commands and events are left out (EventQueue has them): send_task has a *)
(* frame to send whenever it likes.                                        *)
(***************************************************************************)
EXTENDS Integers, FiniteSets

CONSTANTS
  Fd,                  \* socket descriptors: 0 .. LWIP_MAX_SOCKETS - 1
  NoSock,              \* client_sock = -1, and what became of a closed descriptor
  HEARTBEAT_INTERVAL,  \* 10 s
  HEARTBEAT_TIMEOUT,   \* 30 s
  TimeWrap,            \* times are uint32_t: 2^32 in the code
  MaxTime,             \* bound on the clock
  MaxFaults            \* bound on the failures of one behaviour

ASSUME DeviceLinkAssumption ==
  /\ NoSock \notin Fd
  /\ MaxTime \in Nat \ {0}
  /\ MaxTime < TimeWrap
  /\ MaxFaults \in Nat

VARIABLES
  client_sock, connection_state, last_heartbeat_time, reconnect_interval,
  tcp,             \* where tcp_client_task is
  dialed,          \* the descriptor its call waits on, or NoSock once that is closed
  sender,          \* where send_task is
  sending,         \* the descriptor its send() works on, or NoSock likewise
  heart,           \* where heartbeat_task is
  current_time,    \* its local variables
  last_send_time,
  sock,            \* per descriptor, the state of the socket
  serverUp,        \* whether the bridge accepts connections
  now,             \* esp_timer_get_time() / 1000
  faults,
  overtaken        \* history: the last wait before a reconnection was over while one of
                   \* the other tasks was still on with what it had begun before

linkVars == <<client_sock, connection_state, last_heartbeat_time>>
tcpVars  == <<tcp, reconnect_interval>>
sendVars == <<sender>>
beatVars == <<heart, current_time, last_send_time>>
envVars  == <<serverUp, now, faults, overtaken>>
vars == <<linkVars, tcpVars, sendVars, beatVars, envVars, dialed, sending, sock>>

Interval == {1000, 2000, 4000, 8000, 16000, 30000, 32000}

Init ==
  /\ client_sock = NoSock
  /\ connection_state = 0
  /\ last_heartbeat_time = 0
  /\ reconnect_interval = 1000
  /\ tcp = "close"
  /\ dialed = NoSock
  /\ sender = "idle"
  /\ sending = NoSock
  /\ heart = "idle"
  /\ current_time = 0
  /\ last_send_time = 0
  /\ sock = [s \in Fd |-> "free"]
  /\ serverUp = TRUE
  /\ now = 1
  /\ faults = 0
  /\ overtaken = FALSE

(* close(client_sock).  Calls that wait on the descriptor fail; closing a  *)
(* free descriptor, or -1, does nothing.                                   *)
Close ==
  /\ sock' = [s \in Fd |-> IF s = client_sock THEN "free" ELSE sock[s]]
  /\ dialed' = IF dialed = client_sock THEN NoSock ELSE dialed
  /\ sending' = IF sending = client_sock THEN NoSock ELSE sending

(* The socket behind a descriptor. *)
Status(s) == IF s = NoSock THEN "free" ELSE sock[s]

(* The descriptor of a call that begins now: NoSock if it is closed. *)
Opened == IF Status(client_sock) = "free" THEN NoSock ELSE client_sock

Sockets == <<sock, dialed, sending>>

(* send_task or heartbeat_task is on with something. *)
Unfinished == sender # "idle" \/ heart # "idle"

Fault == faults < MaxFaults /\ faults' = faults + 1

-----------------------------------------------------------------------------
(* tcp_client_task.                                                        *)

(* Head of the loop: close the previous socket, then set client_sock.      *)
CloseOld ==
  /\ tcp = "close"
  /\ Close
  /\ tcp' = IF client_sock = NoSock THEN "socket" ELSE "clear"
  /\ UNCHANGED <<linkVars, reconnect_interval, sendVars, beatVars, envVars>>

ClearOld ==
  /\ tcp = "clear"
  /\ client_sock' = NoSock
  /\ tcp' = "socket"
  /\ UNCHANGED <<connection_state, last_heartbeat_time, reconnect_interval, sendVars, beatVars,
                 envVars, Sockets>>

(* socket() returns some free descriptor and connect() begins. *)
NewSocket ==
  /\ tcp = "socket"
  /\ \E s \in Fd :
       /\ sock[s] = "free"
       /\ sock' = [sock EXCEPT ![s] = "new"]
       /\ client_sock' = s
       /\ dialed' = s
  /\ tcp' = "dial"
  /\ UNCHANGED <<connection_state, last_heartbeat_time, reconnect_interval, sendVars, beatVars,
                 envVars, sending>>

(* No descriptor is free, or the stack is out of memory. *)
NoSocket ==
  /\ tcp = "socket"
  /\ IF \E s \in Fd : sock[s] = "free" THEN Fault ELSE UNCHANGED faults
  /\ client_sock' = NoSock
  /\ tcp' = "none"
  /\ UNCHANGED <<connection_state, last_heartbeat_time, reconnect_interval, sendVars, beatVars,
                 serverUp, now, overtaken, Sockets>>

(* Variants with a fault, here and below, are named after it: no run uses  *)
(* them as they stand; substituted for the definition that follows, each   *)
(* breaks a property.                                                      *)
DialOkKeepsState ==
  /\ tcp = "dial"
  /\ Status(dialed) = "new"
  /\ serverUp
  /\ sock' = [sock EXCEPT ![dialed] = "up"]
  /\ last_heartbeat_time' = now
  /\ reconnect_interval' = 1000
  /\ dialed' = Opened
  /\ tcp' = "recv"
  /\ UNCHANGED <<client_sock, connection_state, sendVars, beatVars, envVars, sending>>

(* connect() succeeds; then recv() is called on client_sock, which another *)
(* task may have closed or forgotten meanwhile.                            *)
DialOk ==
  /\ tcp = "dial"
  /\ Status(dialed) = "new"
  /\ serverUp
  /\ sock' = [sock EXCEPT ![dialed] = "up"]
  /\ connection_state' = 1
  /\ last_heartbeat_time' = now
  /\ reconnect_interval' = 1000
  /\ dialed' = Opened
  /\ tcp' = "recv"
  /\ UNCHANGED <<client_sock, sendVars, beatVars, envVars, sending>>

(* connect() fails or takes longer than 3 s: close(client_sock), which is  *)
(* then set to -1.                                                         *)
DialFails ==
  /\ tcp = "dial"
  /\ IF dialed = NoSock \/ ~serverUp THEN UNCHANGED faults ELSE Fault
  /\ Close
  /\ tcp' = "undial"
  /\ UNCHANGED <<linkVars, reconnect_interval, sendVars, beatVars, serverUp, now, overtaken>>

Undial ==
  /\ tcp = "undial"
  /\ client_sock' = NoSock
  /\ tcp' = "wait"
  /\ UNCHANGED <<connection_state, last_heartbeat_time, reconnect_interval, sendVars, beatVars,
                 envVars, Sockets>>

(* recv() returns data, with or without a complete command, or EAGAIN      *)
(* after 30 s; the next call reads client_sock again.                      *)
Recv ==
  /\ tcp = "recv"
  /\ Status(dialed) = "up"
  /\ last_heartbeat_time' \in {last_heartbeat_time, now}
  /\ dialed' = Opened
  /\ UNCHANGED <<client_sock, connection_state, tcpVars, sendVars, beatVars, envVars, sending, sock>>

RecvFailsOnlyWhenDown ==
  /\ tcp = "recv"
  /\ Status(dialed) = "down"
  /\ connection_state' = 0
  /\ last_heartbeat_time' = 0
  /\ dialed' = NoSock
  /\ tcp' = "wait"
  /\ UNCHANGED <<client_sock, reconnect_interval, sendVars, beatVars, envVars, sending, sock>>

(* recv() returns 0 or an error: the peer left, or the descriptor was      *)
(* closed by another task, or is -1.                                       *)
RecvFails ==
  /\ tcp = "recv"
  /\ Status(dialed) # "up"
  /\ connection_state' = 0
  /\ last_heartbeat_time' = 0
  /\ dialed' = NoSock
  /\ tcp' = "wait"
  /\ UNCHANGED <<client_sock, reconnect_interval, sendVars, beatVars, envVars, sending, sock>>

(* vTaskDelay() of at least 1 s is over, and the next wait is twice as     *)
(* long.  The other tasks are most likely done with the old connection by  *)
(* then, but nothing says so.                                              *)
WaitOver ==
  /\ tcp \in {"wait", "none"}
  /\ reconnect_interval' =
       IF tcp = "none" THEN (IF reconnect_interval < 30000 THEN reconnect_interval * 2
                             ELSE reconnect_interval)
       ELSE (IF reconnect_interval * 2 > 30000 THEN 30000 ELSE reconnect_interval * 2)
  /\ tcp' = "close"
  /\ overtaken' = Unfinished
  /\ UNCHANGED <<linkVars, sendVars, beatVars, serverUp, now, faults, Sockets>>

TcpStep == CloseOld \/ ClearOld \/ NewSocket \/ NoSocket \/ DialOk \/ DialFails \/ Undial
           \/ Recv \/ RecvFails \/ WaitOver

-----------------------------------------------------------------------------
(* send_task.                                                              *)

SendReadyIgnoresState ==
  /\ sender = "idle"
  /\ client_sock # NoSock
  /\ sender' = "ready"
  /\ UNCHANGED <<linkVars, tcpVars, beatVars, envVars, Sockets>>

(* It has a frame and finds the device connected; otherwise the frame is   *)
(* dropped and nothing changes.                                            *)
SendReady ==
  /\ sender = "idle"
  /\ client_sock # NoSock
  /\ connection_state = 1
  /\ sender' = "ready"
  /\ UNCHANGED <<linkVars, tcpVars, beatVars, envVars, Sockets>>

(* send() is called on what client_sock is by now. *)
SendCall ==
  /\ sender = "ready"
  /\ sending' = Opened
  /\ sender' = "sending"
  /\ UNCHANGED <<linkVars, tcpVars, beatVars, envVars, dialed, sock>>

(* The stack takes the frame, which it also does on a connection that is   *)
(* already lost.                                                           *)
SendOk ==
  /\ sender = "sending"
  /\ Status(sending) \in {"up", "down"}
  /\ last_heartbeat_time' = now
  /\ sending' = NoSock
  /\ sender' = "idle"
  /\ UNCHANGED <<client_sock, connection_state, tcpVars, beatVars, envVars, dialed, sock>>

(* A connection that is lost, not yet there, or closed under the call; or  *)
(* a live one, when the stack is out of memory.                            *)
SendFails ==
  /\ sender = "sending"
  /\ IF Status(sending) = "up" THEN Fault ELSE UNCHANGED faults
  /\ sending' = NoSock
  /\ sender' = "failed"
  /\ UNCHANGED <<linkVars, tcpVars, beatVars, serverUp, now, overtaken, dialed, sock>>

(* Close whatever client_sock is by now. *)
SendClose ==
  /\ sender = "failed"
  /\ Close
  /\ sender' = IF client_sock = NoSock THEN "reset" ELSE "closed"
  /\ UNCHANGED <<linkVars, tcpVars, beatVars, envVars>>

SendClear ==
  /\ sender = "closed"
  /\ client_sock' = NoSock
  /\ sender' = "reset"
  /\ UNCHANGED <<connection_state, last_heartbeat_time, tcpVars, beatVars, envVars, Sockets>>

SendReset ==
  /\ sender = "reset"
  /\ connection_state' = 0
  /\ last_heartbeat_time' = 0
  /\ sender' = "idle"
  /\ UNCHANGED <<client_sock, tcpVars, beatVars, envVars, Sockets>>

(* What send_task goes on with by itself. *)
SenderStep == SendCall \/ SendOk \/ SendFails \/ SendClose \/ SendClear \/ SendReset

-----------------------------------------------------------------------------
(* heartbeat_task.                                                         *)

Elapsed(a, b) == (TimeWrap + a - b) % TimeWrap   \* a - b in uint32_t

HeartRead ==
  /\ heart = "idle"
  /\ current_time' = now
  /\ heart' = "beat"
  /\ UNCHANGED <<linkVars, tcpVars, sendVars, last_send_time, envVars, Sockets>>

(* Every 10 s, if connected: hand over an EVENT_HEARTBEAT.  send_task has  *)
(* the higher priority and sends it before this task goes on.              *)
HeartBeat ==
  /\ heart = "beat"
  /\ IF connection_state = 1 /\ Elapsed(current_time, last_send_time) >= HEARTBEAT_INTERVAL
     THEN last_send_time' = current_time /\ heart' = "stamp"
     ELSE heart' = "check" /\ UNCHANGED last_send_time
  /\ UNCHANGED <<linkVars, tcpVars, sendVars, current_time, envVars, Sockets>>

HeartStamp ==
  /\ heart = "stamp"
  /\ last_heartbeat_time' = current_time
  /\ heart' = "check"
  /\ UNCHANGED <<client_sock, connection_state, tcpVars, sendVars, current_time, last_send_time,
                 envVars, Sockets>>

HeartCheck ==
  /\ heart = "check"
  /\ heart' = IF connection_state = 1 /\ last_heartbeat_time > 0 THEN "compare" ELSE "idle"
  /\ UNCHANGED <<linkVars, tcpVars, sendVars, current_time, last_send_time, envVars, Sockets>>

(* "Heartbeat timeout, forcing reconnect", or not. *)
HeartExpires ==
  /\ heart = "compare"
  /\ Elapsed(current_time, last_heartbeat_time) > HEARTBEAT_TIMEOUT
  /\ connection_state' = 0
  /\ heart' = "closing"
  /\ UNCHANGED <<client_sock, last_heartbeat_time, tcpVars, sendVars, current_time, last_send_time,
                 envVars, Sockets>>

HeartFine ==
  /\ heart = "compare"
  /\ Elapsed(current_time, last_heartbeat_time) <= HEARTBEAT_TIMEOUT
  /\ heart' = "idle"
  /\ UNCHANGED <<linkVars, tcpVars, sendVars, current_time, last_send_time, envVars, Sockets>>

HeartClose ==
  /\ heart = "closing"
  /\ Close
  /\ heart' = IF client_sock = NoSock THEN "idle" ELSE "clear"
  /\ UNCHANGED <<linkVars, tcpVars, sendVars, current_time, last_send_time, envVars>>

HeartClear ==
  /\ heart = "clear"
  /\ client_sock' = NoSock
  /\ heart' = "idle"
  /\ UNCHANGED <<connection_state, last_heartbeat_time, tcpVars, sendVars, current_time,
                 last_send_time, envVars, Sockets>>

HeartStep == HeartBeat \/ HeartStamp \/ HeartCheck \/ HeartExpires \/ HeartFine \/ HeartClose \/ HeartClear

-----------------------------------------------------------------------------
(* The network and the clock.                                              *)

(* The bridge or the network ends a connection. *)
PeerDrops ==
  /\ Fault
  /\ \E s \in Fd : sock[s] = "up" /\ sock' = [sock EXCEPT ![s] = "down"]
  /\ UNCHANGED <<linkVars, tcpVars, sendVars, beatVars, dialed, sending, serverUp, now, overtaken>>

(* The bridge goes away, or comes back. *)
ServerChange ==
  /\ Fault
  /\ serverUp' = ~serverUp
  /\ UNCHANGED <<linkVars, tcpVars, sendVars, beatVars, Sockets, now, overtaken>>

Tick ==
  /\ now < MaxTime
  /\ now' = now + 1
  /\ UNCHANGED <<linkVars, tcpVars, sendVars, beatVars, Sockets, serverUp, faults, overtaken>>

-----------------------------------------------------------------------------
Next ==
  \/ TcpStep
  \/ SendReady \/ SenderStep
  \/ HeartRead \/ HeartStep
  \/ PeerDrops \/ ServerChange \/ Tick

Spec == Init /\ [][Next]_vars

(* The scheduler runs every task that is ready; a recv() on a dead or      *)
(* closed descriptor returns, at the latest after its 30 s.  Nothing is    *)
(* assumed of the network, the clock, or of there being frames to send.    *)
Fairness ==
  /\ SF_vars(TcpStep /\ tcp # "recv")
  /\ WF_vars(RecvFails)
  /\ WF_vars(SenderStep)
  /\ WF_vars(HeartStep)

FairSpec == Spec /\ Fairness

-----------------------------------------------------------------------------
(* Every variable stays in its range. *)
TypeOK ==
  /\ client_sock \in Fd \cup {NoSock}
  /\ connection_state \in {0, 1}
  /\ last_heartbeat_time \in 0 .. MaxTime
  /\ reconnect_interval \in Interval
  /\ tcp \in {"close", "clear", "socket", "none", "dial", "undial", "recv", "wait"}
  /\ dialed \in Fd \cup {NoSock}
  /\ sender \in {"idle", "ready", "sending", "failed", "closed", "reset"}
  /\ sending \in Fd \cup {NoSock}
  /\ heart \in {"idle", "beat", "stamp", "check", "compare", "closing", "clear"}
  /\ current_time \in 0 .. MaxTime
  /\ last_send_time \in 0 .. MaxTime
  /\ sock \in [Fd -> {"free", "new", "up", "down"}]
  /\ serverUp \in BOOLEAN
  /\ now \in 1 .. MaxTime
  /\ faults \in 0 .. MaxFaults
  /\ overtaken \in BOOLEAN

(* The task waits for commands on a live connection. *)
Usable == tcp = "recv" /\ Status(dialed) = "up"

(* While the device receives commands on a live connection it does not     *)
(* silently drop its events: connection_state is 1 and client_sock is that *)
(* connection, unless the watchdog is about to close it, or one of the     *)
(* other tasks was overtaken by the reconnection, in the middle of what it *)
(* did to the connection before (tcp_client.c:135, send_task.c:25-40).     *)
NoSilentDrop ==
  Usable /\ ~overtaken => \/ connection_state = 1 /\ client_sock = dialed
                          \/ heart = "closing"

(* send_task never uses a socket whose connection is not established,      *)
(* although it reads client_sock again after its check, unless it was      *)
(* overtaken like that (send_task.c:25-29).                                *)
SendsOnConnection == ~overtaken => Status(sending) # "new"

(* Whatever the three tasks close at the wrong moment, however late, the   *)
(* device comes back to a live connection as long as the bridge accepts    *)
(* one, and knows it for one unless a task was overtaken; or else it has   *)
(* lost track of so many open sockets that it can open no other.           *)
OutOfSockets == tcp = "none" /\ \A s \in Fd : sock[s] # "free"

LinkRecovers ==
  <>[]serverUp =>
    \/ []<>(Usable /\ (connection_state = 1 \/ overtaken))
    \/ []<>OutOfSockets

=============================================================================
