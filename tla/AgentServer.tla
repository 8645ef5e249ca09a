----------------------------- MODULE AgentServer -----------------------------
(***************************************************************************)
(* IoTAgentServer (bridge/src/server.py), from the return of start() to    *)
(* the return of stop(): the accept loop, one handler thread for every     *)
(* accepted connection, the executor threads that send commands, and the   *)
(* thread that calls stop().                                               *)
(*                                                                         *)
(* An RLock guards client_socket.  send_command holds it for as long as    *)
(* sendall takes, and sees to a failed send before it lets go; the other   *)
(* sections under the lock are single steps here.  Bytes, frames and the   *)
(* event callback are left out.                                            *)
(***************************************************************************)
EXTENDS Naturals, Sequences, FiniteSets

CONSTANTS
  Conn,      \* TCP connections that devices open, one after another or at once
  Sender,    \* executor threads inside send_command
  NoConn,    \* Python's None
  Free,      \* the lock's owner when it has none
  MaxFaults  \* bound on the timeouts and failures of one behaviour

ASSUME AgentServerAssumption ==
  /\ NoConn \notin Conn
  /\ Free \notin Sender
  /\ MaxFaults \in Nat

VARIABLES
  running,        \* IoTAgentServer.running
  woken,          \* a byte waits in the wake-up socket pair
  listening,      \* server_socket is open
  client_socket,  \* IoTAgentServer.client_socket
  connected,      \* IoTAgentServer.connected
  lock,           \* the thread inside sendall, which holds _lock, or Free
  target,         \* the socket it writes to
  server,         \* where _server_loop is
  client_sock,    \* local variable of _server_loop: the connection it accepted
  stopper,        \* where stop() is
  handler,        \* per connection, where its _client_handler is
  sock,           \* per connection, the descriptor that accept() returned
  peer,           \* per connection, the device's end
  backlog,        \* connections the kernel holds for accept()
  torn,           \* history: connections on which a send broke off
  faults          \* how many timeouts and failures happened

vars == <<running, woken, listening, client_socket, connected, lock, target, server, client_sock,
          stopper, handler, sock, peer, backlog, torn, faults>>

serverVars == <<server, client_sock>>
clientVars == <<client_socket, connected>>
lockVars   == <<lock, target>>
stopVars   == <<running, woken, listening, stopper>>
peerVars   == <<peer, backlog>>

Init ==
  /\ running = TRUE
  /\ woken = FALSE
  /\ listening = TRUE
  /\ client_socket = NoConn
  /\ connected = FALSE
  /\ lock = Free
  /\ target = NoConn
  /\ server = "loop"
  /\ client_sock = NoConn
  /\ stopper = "away"
  /\ handler = [c \in Conn |-> "none"]
  /\ sock = [c \in Conn |-> "none"]
  /\ peer = [c \in Conn |-> "none"]
  /\ backlog = <<>>
  /\ torn = {}
  /\ faults = 0

Fault == faults < MaxFaults /\ faults' = faults + 1

-----------------------------------------------------------------------------
(* Devices.                                                                *)

PeerConnect(c) ==
  /\ peer[c] = "none"
  /\ listening
  /\ peer' = [peer EXCEPT ![c] = "up"]
  /\ backlog' = Append(backlog, c)
  /\ UNCHANGED <<stopVars, clientVars, lockVars, serverVars, handler, sock, torn, faults>>

(* The device closes its end, resets, or is declared dead by keepalive. *)
PeerGone(c) ==
  /\ peer[c] = "up"
  /\ peer' = [peer EXCEPT ![c] = "gone"]
  /\ UNCHANGED <<stopVars, clientVars, lockVars, serverVars, handler, sock, backlog, torn, faults>>

-----------------------------------------------------------------------------
(* _server_loop.                                                           *)

(* select() reports a connection and no wake-up byte. *)
Select ==
  /\ server = "loop"
  /\ running
  /\ ~woken
  /\ backlog # <<>>
  /\ server' = "accept"
  /\ UNCHANGED <<stopVars, clientVars, lockVars, client_sock, handler, sock, peerVars, torn, faults>>

(* The loop ends when running was cleared, or select() reports the wake-up *)
(* byte, which is drained.                                                 *)
ServerExit ==
  /\ server = "loop"
  /\ \/ ~running /\ UNCHANGED woken
     \/ woken /\ woken' = FALSE
  /\ server' = "done"
  /\ UNCHANGED <<running, listening, stopper, clientVars, lockVars, client_sock, handler, sock,
                 peerVars, torn, faults>>

Accept ==
  /\ server = "accept"
  /\ backlog # <<>>
  /\ client_sock' = Head(backlog)
  /\ backlog' = Tail(backlog)
  /\ sock' = [sock EXCEPT ![Head(backlog)] = "open"]
  /\ server' = "install"
  /\ UNCHANGED <<stopVars, clientVars, lockVars, handler, peer, torn, faults>>

(* accept() times out: back to select(). *)
AcceptTimeout ==
  /\ server = "accept"
  /\ Fault
  /\ server' = "loop"
  /\ UNCHANGED <<stopVars, clientVars, lockVars, client_sock, handler, sock, peerVars, torn>>

(* accept() raises an OSError: the loop ends, running or not.             *)
AcceptError ==
  /\ server = "accept"
  /\ Fault
  /\ server' = "done"
  /\ UNCHANGED <<stopVars, clientVars, lockVars, client_sock, handler, sock, peerVars, torn>>

(* Variants with a fault, here and below, are named after it: no run uses  *)
(* them as they stand; substituted for the definition that follows, each   *)
(* breaks a property.                                                      *)
InstallKeepsOld ==
  /\ server = "install"
  /\ lock = Free
  /\ sock' = sock
  /\ client_socket' = client_sock
  /\ connected' = TRUE
  /\ server' = "spawn"
  /\ UNCHANGED <<stopVars, lockVars, client_sock, handler, peerVars, torn, faults>>

InstallOnlyFirst ==
  /\ server = "install"
  /\ lock = Free
  /\ IF client_socket = NoConn
     THEN client_socket' = client_sock /\ connected' = TRUE /\ server' = "spawn" /\ UNCHANGED sock
     ELSE sock' = [sock EXCEPT ![client_sock] = "closed"] /\ server' = "loop" /\ UNCHANGED clientVars
  /\ UNCHANGED <<stopVars, lockVars, client_sock, handler, peerVars, torn, faults>>

(* Under the lock: close the old connection and take the new one. *)
Install ==
  /\ server = "install"
  /\ lock = Free
  /\ sock' = [c \in Conn |-> IF c = client_socket THEN "closed" ELSE sock[c]]
  /\ client_socket' = client_sock
  /\ connected' = TRUE
  /\ server' = "spawn"
  /\ UNCHANGED <<stopVars, lockVars, client_sock, handler, peerVars, torn, faults>>

(* Start the handler thread and go back to the head of the loop. *)
Spawn ==
  /\ server = "spawn"
  /\ handler' = [handler EXCEPT ![client_sock] = "new"]
  /\ server' = "loop"
  /\ UNCHANGED <<stopVars, clientVars, lockVars, client_sock, sock, peerVars, torn, faults>>

ServerStep == Select \/ ServerExit \/ Accept \/ AcceptTimeout \/ AcceptError \/ Install \/ Spawn

-----------------------------------------------------------------------------
(* _client_handler.                                                        *)

(* settimeout() is outside the try: on a descriptor that was closed        *)
(* meanwhile it raises and the thread dies there.                          *)
HandlerStart(c) ==
  /\ handler[c] = "new"
  /\ handler' = [handler EXCEPT ![c] = IF sock[c] = "open" THEN "loop" ELSE "done"]
  /\ UNCHANGED <<stopVars, clientVars, lockVars, serverVars, sock, peerVars, torn, faults>>

HandlerEndsOnlyWhenStopped(c) ==
  /\ handler[c] = "loop"
  /\ ~running
  /\ handler' = [handler EXCEPT ![c] = "leaving"]
  /\ UNCHANGED <<stopVars, clientVars, lockVars, serverVars, sock, peerVars, torn, faults>>

HandlerEndsOnlyOnError(c) ==
  /\ handler[c] = "loop"
  /\ peer[c] = "gone" \/ sock[c] = "closed"
  /\ handler' = [handler EXCEPT ![c] = "leaving"]
  /\ UNCHANGED <<stopVars, clientVars, lockVars, serverVars, sock, peerVars, torn, faults>>

(* The loop ends: running was cleared, recv() returned nothing, or it      *)
(* raised, on a dead connection or on a descriptor closed by another       *)
(* thread.                                                                 *)
HandlerEnds(c) ==
  /\ handler[c] = "loop"
  /\ ~running \/ peer[c] = "gone" \/ sock[c] = "closed"
  /\ handler' = [handler EXCEPT ![c] = "leaving"]
  /\ UNCHANGED <<stopVars, clientVars, lockVars, serverVars, sock, peerVars, torn, faults>>

HandlerLeavesUnlocked(c) ==
  /\ handler[c] = "leaving"
  /\ handler' = [handler EXCEPT ![c] = "done"]
  /\ sock' = [sock EXCEPT ![c] = "closed"]
  /\ IF client_socket = c THEN client_socket' = NoConn /\ connected' = FALSE
                          ELSE UNCHANGED clientVars
  /\ UNCHANGED <<stopVars, lockVars, serverVars, peerVars, torn, faults>>

HandlerLeavesDroppingAny(c) ==
  /\ handler[c] = "leaving"
  /\ lock = Free
  /\ handler' = [handler EXCEPT ![c] = "done"]
  /\ sock' = [sock EXCEPT ![c] = "closed"]
  /\ client_socket' = NoConn
  /\ connected' = FALSE
  /\ UNCHANGED <<stopVars, lockVars, serverVars, peerVars, torn, faults>>

(* _handle_disconnect(client_sock): close the handler's own socket, and    *)
(* forget it if it is still the current one.                               *)
HandlerLeaves(c) ==
  /\ handler[c] = "leaving"
  /\ lock = Free
  /\ handler' = [handler EXCEPT ![c] = "done"]
  /\ sock' = [sock EXCEPT ![c] = "closed"]
  /\ IF client_socket = c THEN client_socket' = NoConn /\ connected' = FALSE
                          ELSE UNCHANGED clientVars
  /\ UNCHANGED <<stopVars, lockVars, serverVars, peerVars, torn, faults>>

HandlerStep(c) == HandlerStart(c) \/ HandlerEnds(c) \/ HandlerLeaves(c)

-----------------------------------------------------------------------------
(* send_command.                                                           *)

(* Take the lock, find a client and enter sendall.  Without a client the   *)
(* call returns False and changes nothing.                                 *)
SendBegin(s) ==
  /\ lock = Free
  /\ connected
  /\ client_socket # NoConn
  /\ lock' = s
  /\ target' = client_socket
  /\ UNCHANGED <<stopVars, clientVars, serverVars, handler, sock, peerVars, torn, faults>>

SendOk(s) ==
  /\ lock = s
  /\ lock' = Free
  /\ target' = NoConn
  /\ UNCHANGED <<stopVars, clientVars, serverVars, handler, sock, peerVars, torn, faults>>

(* sendall raises, the frame perhaps half written: the peer is gone, or    *)
(* the handler's 1 s timeout on the socket struck.  _handle_disconnect()   *)
(* drops the current client before the lock is released.                   *)
SendFail(s) ==
  /\ lock = s
  /\ IF peer[target] = "gone" THEN UNCHANGED faults ELSE Fault
  /\ torn' = torn \cup {target}
  /\ sock' = [c \in Conn |-> IF c = client_socket THEN "closed" ELSE sock[c]]
  /\ client_socket' = NoConn
  /\ connected' = FALSE
  /\ lock' = Free
  /\ target' = NoConn
  /\ UNCHANGED <<stopVars, serverVars, handler, peerVars>>

-----------------------------------------------------------------------------
(* stop().                                                                 *)

StopBegin ==
  /\ stopper = "away"
  /\ stopper' = "closing"
  /\ running' = FALSE
  /\ woken' = TRUE
  /\ UNCHANGED <<listening, clientVars, lockVars, serverVars, handler, sock, peerVars, torn, faults>>

StopCloseKeepsFlag ==
  /\ stopper = "closing"
  /\ lock = Free
  /\ stopper' = "joining"
  /\ sock' = [c \in Conn |-> IF c = client_socket THEN "closed" ELSE sock[c]]
  /\ client_socket' = NoConn
  /\ UNCHANGED <<running, woken, listening, connected, lockVars, serverVars, handler, peerVars,
                 torn, faults>>

(* Under the lock: close the current client. *)
StopClose ==
  /\ stopper = "closing"
  /\ lock = Free
  /\ stopper' = "joining"
  /\ sock' = [c \in Conn |-> IF c = client_socket THEN "closed" ELSE sock[c]]
  /\ client_socket' = NoConn
  /\ connected' = FALSE
  /\ UNCHANGED <<running, woken, listening, lockVars, serverVars, handler, peerVars, torn, faults>>

(* The server thread has ended, or the join gave up on it: it can be held  *)
(* up longer than 5 s only by a send that holds the lock.  The listening   *)
(* socket and the socket pair are closed; the kernel resets the backlog.   *)
StopFinish ==
  /\ stopper = "joining"
  /\ server = "done" \/ (server = "install" /\ lock # Free)
  /\ stopper' = "stopped"
  /\ listening' = FALSE
  /\ woken' = FALSE
  /\ peer' = [c \in Conn |-> IF \E i \in DOMAIN backlog : backlog[i] = c THEN "gone" ELSE peer[c]]
  /\ backlog' = <<>>
  /\ UNCHANGED <<running, clientVars, lockVars, serverVars, handler, sock, torn, faults>>

StopStep == StopClose \/ StopFinish

-----------------------------------------------------------------------------
Next ==
  \/ \E c \in Conn : PeerConnect(c) \/ PeerGone(c) \/ HandlerStep(c)
  \/ ServerStep
  \/ \E s \in Sender : SendBegin(s) \/ SendOk(s) \/ SendFail(s)
  \/ StopBegin
  \/ StopStep

Spec == Init /\ [][Next]_vars

(* Threads run on.  A thread that waits for the lock gets it in the end    *)
(* although senders take it again and again: the lock is no queue, but a   *)
(* waiter is woken at every release, hence strong fairness.  sendall ends, *)
(* with success or not.  Devices, stop() and the senders may do nothing.   *)
Fairness ==
  /\ SF_vars(ServerStep)
  /\ \A c \in Conn : SF_vars(HandlerStep(c))
  /\ \A s \in Sender : WF_vars(SendOk(s) \/ SendFail(s))
  /\ SF_vars(StopStep)

FairSpec == Spec /\ Fairness

-----------------------------------------------------------------------------
(* Every variable stays in its range; what sendall writes to, and what the *)
(* loop installs and starts a handler for, is a connection.                *)
TypeOK ==
  /\ running \in BOOLEAN
  /\ woken \in BOOLEAN
  /\ listening \in BOOLEAN
  /\ client_socket \in Conn \cup {NoConn}
  /\ connected \in BOOLEAN
  /\ lock \in Sender \cup {Free}
  /\ target \in Conn \cup {NoConn}
  /\ lock # Free => target \in Conn
  /\ server \in {"loop", "accept", "install", "spawn", "done"}
  /\ client_sock \in Conn \cup {NoConn}
  /\ server \in {"install", "spawn"} => client_sock \in Conn
  /\ stopper \in {"away", "closing", "joining", "stopped"}
  /\ handler \in [Conn -> {"none", "new", "loop", "leaving", "done"}]
  /\ sock \in [Conn -> {"none", "open", "closed"}]
  /\ peer \in [Conn -> {"none", "up", "gone"}]
  /\ backlog \in Seq(Conn)
  /\ torn \subseteq Conn
  /\ faults \in 0 .. MaxFaults

(* Whoever holds the lock, or finds it free, finds the flag up exactly     *)
(* when there is a current connection, and its descriptor open: what       *)
(* send_command relies on (server.py:152-157).  It holds between the       *)
(* locked sections, each of which is one step here.  is_connected(), which *)
(* takes no lock (server.py:172-174), may fall into one of them and read   *)
(* TRUE of a socket that is closed already (server.py:123-127, 213-219,    *)
(* 291-297).                                                               *)
ConnectedMeansOpen ==
  /\ connected = (client_socket # NoConn)
  /\ client_socket # NoConn => sock[client_socket] = "open"

(* No thread closes or replaces the connection that sendall writes to, and *)
(* no frame follows a broken one on the same connection.                   *)
SendUndisturbed ==
  lock # Free => /\ target = client_socket
                 /\ sock[target] = "open"
                 /\ target \notin torn

(* An accepted connection is never left open without a thread that will    *)
(* close it: it is about to be installed, or it is the current one and its *)
(* handler runs or is about to be started.                                 *)
NoLeak ==
  \A c \in Conn : sock[c] = "open" =>
    \/ server = "install" /\ client_sock = c
    \/ /\ client_socket = c
       /\ (server = "spawn" /\ client_sock = c) \/ handler[c] \in {"new", "loop", "leaving"}

(* A connection is dropped or replaced only for a reason of its own: its   *)
(* device left, a send on it failed, a newer connection came, or stop()    *)
(* was called.  The handler of an older connection never takes it down.    *)
DroppedForCause ==
  [][\A c \in Conn : client_socket = c /\ client_socket' # c
       => \/ peer[c] = "gone"
          \/ ~running
          \/ target = c
          \/ server = "install"]_vars

(* A device that connects gets its turn as the current connection, unless  *)
(* stop() is called or the accept loop has died.                           *)
DeviceServed ==
  \A c \in Conn : (\E i \in DOMAIN backlog : backlog[i] = c)
    ~> (client_socket = c \/ ~running \/ server = "done")

(* A departed device does not stay the current connection. *)
DepartureNoticed ==
  \A c \in Conn : (client_socket = c /\ peer[c] = "gone") ~> client_socket # c

(* Once called, stop() returns, and no accepted connection stays open for  *)
(* good, not even one that was accepted while stop() ran.                  *)
StopCloses ==
  ~running ~> [](stopper = "stopped" /\ ~connected /\ \A c \in Conn : sock[c] # "open")

=============================================================================
