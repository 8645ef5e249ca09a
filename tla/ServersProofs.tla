---------------------------- MODULE ServersProofs ----------------------------
(* What AgentServer guarantees for every number of connections, senders     *)
(* and faults, and Database for every number of requests, devices and menus *)
(* of operations.                                                           *)
EXTENDS AgentServer, Database, SequenceTheorems, FiniteSetTheorems, WellFoundedInduction, TLAPS

-----------------------------------------------------------------------------
(* The inductive invariant.  The safety properties alone are not inductive: *)
(* they need that a connection is handed on from thread to thread exactly   *)
(* once, from the backlog to the accept loop and on to its own handler.     *)

(* The connections in the backlog are distinct and have no descriptor yet. *)
BacklogFresh ==
  /\ \A i \in DOMAIN backlog : peer[backlog[i]] # "none" /\ sock[backlog[i]] = "none"
  /\ \A i, j \in DOMAIN backlog : backlog[i] = backlog[j] => i = j

(* A connection gets a descriptor when it is accepted, a handler later. *)
LifeCycle ==
  \A c \in Conn : /\ peer[c] = "none" => sock[c] = "none"
                  /\ sock[c] = "none" => handler[c] = "none"

(* What the accept loop holds nobody else has touched. *)
InHand ==
  /\ server = "install" => /\ sock[client_sock] = "open"
                           /\ handler[client_sock] = "none"
                           /\ client_sock # client_socket
  /\ server = "spawn" => handler[client_sock] = "none" /\ sock[client_sock] # "none"

(* A connection on which a send broke off is closed. *)
TornClosed == \A c \in torn : sock[c] = "closed"

Safe == ConnectedMeansOpen /\ SendUndisturbed /\ NoLeak

IInv == TypeOK /\ Safe /\ BacklogFresh /\ LifeCycle /\ InHand /\ TornClosed

-----------------------------------------------------------------------------
(* Every variable keeps its type, and the loop never installs None. *)
THEOREM TypeCorrect == Spec => []TypeOK
<1>1. Init => TypeOK
  <2> SUFFICES ASSUME Init PROVE TypeOK
    OBVIOUS
  <2>1. backlog \in Seq(Conn)
    BY EmptySeq DEF Init
  <2>2. faults \in 0 .. MaxFaults
    BY AgentServerAssumption DEF Init
  <2> QED BY <2>1, <2>2 DEF Init, TypeOK
<1>2. TypeOK /\ [Next]_vars => TypeOK'
  <2> SUFFICES ASSUME TypeOK, [Next]_vars PROVE TypeOK'
    OBVIOUS
  <2> USE AgentServerAssumption DEF TypeOK, vars, serverVars, clientVars, lockVars, stopVars, peerVars
  <2>1. ASSUME NEW c \in Conn, PeerConnect(c) PROVE TypeOK'
    BY <2>1 DEF PeerConnect
  <2>2. ASSUME NEW c \in Conn, PeerGone(c) PROVE TypeOK'
    BY <2>2 DEF PeerGone
  <2>3. ASSUME NEW c \in Conn, HandlerStart(c) PROVE TypeOK'
    BY <2>3 DEF HandlerStart
  <2>4. ASSUME NEW c \in Conn, HandlerEnds(c) PROVE TypeOK'
    BY <2>4 DEF HandlerEnds
  <2>5. ASSUME NEW c \in Conn, HandlerLeaves(c) PROVE TypeOK'
    BY <2>5 DEF HandlerLeaves
  <2>6. ASSUME Select PROVE TypeOK'
    BY <2>6 DEF Select
  <2>7. ASSUME ServerExit PROVE TypeOK'
    BY <2>7 DEF ServerExit
  <2>8. ASSUME Accept PROVE TypeOK'
    BY <2>8, HeadTailProperties DEF Accept
  <2>9. ASSUME AcceptTimeout PROVE TypeOK'
    BY <2>9 DEF AcceptTimeout, Fault
  <2>10. ASSUME AcceptError PROVE TypeOK'
    BY <2>10 DEF AcceptError, Fault
  <2>11. ASSUME Install PROVE TypeOK'
    BY <2>11 DEF Install
  <2>12. ASSUME Spawn PROVE TypeOK'
    BY <2>12 DEF Spawn
  <2>13. ASSUME StopBegin PROVE TypeOK'
    BY <2>13 DEF StopBegin
  <2>14. ASSUME StopClose PROVE TypeOK'
    BY <2>14 DEF StopClose
  <2>15. ASSUME StopFinish PROVE TypeOK'
    <3>1. backlog' \in Seq(Conn)
      BY <2>15, EmptySeq DEF StopFinish
    <3>2. peer' \in [Conn -> {"none", "up", "gone"}]
      BY <2>15 DEF StopFinish
    <3> QED BY <2>15, <3>1, <3>2 DEF StopFinish
  <2>16. ASSUME NEW s \in Sender, SendBegin(s) PROVE TypeOK'
    BY <2>16 DEF SendBegin
  <2>17. ASSUME NEW s \in Sender, SendOk(s) PROVE TypeOK'
    BY <2>17 DEF SendOk
  <2>18. ASSUME NEW s \in Sender, SendFail(s) PROVE TypeOK'
    <3>1. faults' \in 0 .. MaxFaults
      BY <2>18 DEF SendFail, Fault
    <3>2. sock' \in [Conn -> {"none", "open", "closed"}]
      BY <2>18 DEF SendFail
    <3>3. torn' \subseteq Conn
      BY <2>18 DEF SendFail
    <3> QED BY <2>18, <3>1, <3>2, <3>3 DEF SendFail
  <2>19. ASSUME UNCHANGED vars PROVE TypeOK'
    BY <2>19
  <2> QED
    BY <2>1, <2>2, <2>3, <2>4, <2>5, <2>6, <2>7, <2>8, <2>9, <2>10, <2>11, <2>12, <2>13, <2>14, <2>15, <2>16, <2>17, <2>18, <2>19 DEF Next, HandlerStep, ServerStep, StopStep
<1> QED BY <1>1, <1>2, PTL DEF Spec

(* Every step hands each connection on correctly. *)
LEMMA SafeInductive == IInv /\ TypeOK' /\ [Next]_vars => IInv'
<1> SUFFICES ASSUME IInv, TypeOK', [Next]_vars PROVE IInv'
  OBVIOUS
<1> USE AgentServerAssumption
    DEF IInv, Safe, BacklogFresh, LifeCycle, InHand, TornClosed, ConnectedMeansOpen,
        SendUndisturbed, NoLeak, TypeOK, vars, serverVars, clientVars, lockVars, stopVars, peerVars
<1>1. ASSUME NEW c \in Conn, PeerConnect(c) PROVE IInv'
  BY <1>1 DEF PeerConnect
<1>2. ASSUME NEW c \in Conn, PeerGone(c) PROVE IInv'
  BY <1>2 DEF PeerGone
<1>3. ASSUME NEW c \in Conn, HandlerStart(c) PROVE IInv'
  BY <1>3 DEF HandlerStart
<1>4. ASSUME NEW c \in Conn, HandlerEnds(c) PROVE IInv'
  BY <1>4 DEF HandlerEnds
<1>5. ASSUME NEW c \in Conn, HandlerLeaves(c) PROVE IInv'
  BY <1>5 DEF HandlerLeaves
<1>6. ASSUME Select PROVE IInv'
  BY <1>6 DEF Select
<1>7. ASSUME ServerExit PROVE IInv'
  BY <1>7 DEF ServerExit
<1>8. ASSUME Accept PROVE IInv'
  BY <1>8 DEF Accept
<1>9. ASSUME AcceptTimeout PROVE IInv'
  BY <1>9 DEF AcceptTimeout
<1>10. ASSUME AcceptError PROVE IInv'
  BY <1>10 DEF AcceptError
<1>11. ASSUME Install PROVE IInv'
  <2>1. /\ client_socket' = client_sock
        /\ connected' = TRUE
        /\ server' = "spawn"
        /\ \A c \in Conn : sock'[c] = IF c = client_socket THEN "closed" ELSE sock[c]
        /\ UNCHANGED <<lock, target, client_sock, handler, peer, backlog, torn>>
        /\ lock = Free
    BY <1>11 DEF Install
  <2>2. client_sock \in Conn /\ client_sock # client_socket /\ sock[client_sock] = "open"
    BY <1>11 DEF Install
  <2>3. handler[client_sock] = "none"
    BY <1>11 DEF Install
  <2>4. ConnectedMeansOpen' /\ SendUndisturbed'
    <3>1. client_socket' # NoConn /\ connected' = TRUE
      BY <2>1, <2>2
    <3>2. connected' = (client_socket' # NoConn)
      BY ONLY <3>1
    <3>3. sock'[client_socket'] = "open" /\ lock' = Free
      BY <2>1, <2>2
    <3> QED BY <3>2, <3>3
  <2>5. InHand'
    BY <2>1, <2>2, <2>3
  <2>6. NoLeak'
    BY <1>11, <2>1, <2>2
  <2>7. BacklogFresh'
    BY <2>1, <2>2
  <2>8. LifeCycle' /\ TornClosed'
    BY <2>1, <2>2
  <2> QED BY <2>4, <2>5, <2>6, <2>7, <2>8
<1>12. ASSUME Spawn PROVE IInv'
  BY <1>12 DEF Spawn
<1>13. ASSUME StopBegin PROVE IInv'
  BY <1>13 DEF StopBegin
<1>14. ASSUME StopClose PROVE IInv'
  BY <1>14 DEF StopClose
<1>15. ASSUME StopFinish PROVE IInv'
  BY <1>15 DEF StopFinish
<1>16. ASSUME NEW s \in Sender, SendBegin(s) PROVE IInv'
  BY <1>16 DEF SendBegin
<1>17. ASSUME NEW s \in Sender, SendOk(s) PROVE IInv'
  BY <1>17 DEF SendOk
<1>18. ASSUME NEW s \in Sender, SendFail(s) PROVE IInv'
  BY <1>18 DEF SendFail
<1>19. ASSUME UNCHANGED vars PROVE IInv'
  BY <1>19
<1> QED
  BY <1>1, <1>2, <1>3, <1>4, <1>5, <1>6, <1>7, <1>8, <1>9, <1>10, <1>11, <1>12, <1>13, <1>14, <1>15, <1>16, <1>17, <1>18, <1>19 DEF Next, HandlerStep, ServerStep, StopStep

(* The invariant holds in every reachable state. *)
THEOREM Invariance == Spec => []IInv
<1>1. Init => Safe /\ BacklogFresh /\ LifeCycle /\ InHand /\ TornClosed
  <2> SUFFICES ASSUME Init PROVE Safe /\ BacklogFresh /\ LifeCycle /\ InHand /\ TornClosed
    OBVIOUS
  <2>1. ConnectedMeansOpen
    <3>1. connected = FALSE /\ ~(client_socket # NoConn)
      BY DEF Init
    <3> QED BY ONLY <3>1 DEF ConnectedMeansOpen
  <2>2. SendUndisturbed /\ NoLeak /\ LifeCycle /\ TornClosed /\ InHand
    BY DEF Init, SendUndisturbed, NoLeak, LifeCycle, TornClosed, InHand
  <2>3. BacklogFresh
    <3>1. DOMAIN backlog = {}
      BY DEF Init
    <3> QED BY <3>1 DEF BacklogFresh
  <2> QED BY <2>1, <2>2, <2>3 DEF Safe
<1>2. TypeOK /\ Init => IInv
  BY <1>1 DEF IInv
<1>3. IInv /\ TypeOK' /\ [Next]_vars => IInv'
  BY SafeInductive
<1> QED BY <1>2, <1>3, TypeCorrect, PTL DEF Spec

(* Between the locked sections the flag, the current connection and its *)
(* descriptor agree.                                                    *)
THEOREM ConnectedMeansOpenHolds == Spec => []ConnectedMeansOpen
<1>1. IInv => ConnectedMeansOpen
  BY DEF IInv, Safe
<1> QED BY <1>1, Invariance, PTL

(* Nobody closes or replaces a socket under a sender. *)
THEOREM SendUndisturbedHolds == Spec => []SendUndisturbed
<1>1. IInv => SendUndisturbed
  BY DEF IInv, Safe
<1> QED BY <1>1, Invariance, PTL

(* No accepted connection is ever left open and unattended. *)
THEOREM NoLeakHolds == Spec => []NoLeak
<1>1. IInv => NoLeak
  BY DEF IInv, Safe
<1> QED BY <1>1, Invariance, PTL

(* Why a step drops or replaces the current connection c. *)
Cause(c) ==
  client_socket = c /\ client_socket' # c
    => \/ peer[c] = "gone"
       \/ ~running
       \/ target = c
       \/ server = "install"

(* While the server runs, the handler of the current connection ends only  *)
(* because its device left.                                                *)
LeavesForCause ==
  /\ \A c \in Conn : handler[c] = "leaving" /\ client_socket = c => peer[c] = "gone" \/ ~running
  /\ stopper # "away" => ~running

(* Every step keeps it: a handler leaves for a reason of its connection's, *)
(* and stop() has cleared running before it does anything else.            *)
LEMMA LeavesForCauseInductive == IInv /\ LeavesForCause /\ [Next]_vars => LeavesForCause'
<1> SUFFICES ASSUME IInv, LeavesForCause, [Next]_vars PROVE LeavesForCause'
  OBVIOUS
<1> USE DEF vars, serverVars, clientVars, lockVars, stopVars, peerVars
<1>1. /\ client_socket # NoConn => sock[client_socket] = "open"
      /\ server = "install" => handler[client_sock] = "none"
      /\ handler \in [Conn -> {"none", "new", "loop", "leaving", "done"}]
      /\ peer \in [Conn -> {"none", "up", "gone"}]
      /\ NoConn \notin Conn
  BY AgentServerAssumption DEF IInv, Safe, ConnectedMeansOpen, InHand, TypeOK
<1>2. ASSUME NEW c \in Conn, PeerConnect(c) PROVE LeavesForCause'
  BY <1>1, <1>2 DEF PeerConnect, LeavesForCause
<1>3. ASSUME NEW c \in Conn, PeerGone(c) PROVE LeavesForCause'
  BY <1>1, <1>3 DEF PeerGone, LeavesForCause
<1>4. ASSUME NEW c \in Conn, HandlerStart(c) PROVE LeavesForCause'
  BY <1>1, <1>4 DEF HandlerStart, LeavesForCause
<1>5. ASSUME NEW c \in Conn, HandlerEnds(c) PROVE LeavesForCause'
  BY <1>1, <1>5 DEF HandlerEnds, LeavesForCause
<1>6. ASSUME NEW c \in Conn, HandlerLeaves(c) PROVE LeavesForCause'
  BY <1>1, <1>6 DEF HandlerLeaves, LeavesForCause
<1>7. ASSUME Select \/ ServerExit \/ Accept \/ AcceptTimeout \/ AcceptError
      PROVE  LeavesForCause'
  BY <1>7 DEF Select, ServerExit, Accept, AcceptTimeout, AcceptError, LeavesForCause
<1>8. ASSUME Install PROVE LeavesForCause'
  BY <1>1, <1>8 DEF Install, LeavesForCause
<1>9. ASSUME Spawn PROVE LeavesForCause'
  BY <1>1, <1>9 DEF Spawn, LeavesForCause
<1>10. ASSUME NEW s \in Sender, SendBegin(s) \/ SendOk(s) \/ SendFail(s) PROVE LeavesForCause'
  BY <1>1, <1>10 DEF SendBegin, SendOk, SendFail, LeavesForCause
<1>11. ASSUME StopBegin \/ StopClose PROVE LeavesForCause'
  BY <1>1, <1>11 DEF StopBegin, StopClose, LeavesForCause
<1>12. ASSUME StopFinish PROVE LeavesForCause'
  BY <1>1, <1>12 DEF StopFinish, LeavesForCause
<1>13. ASSUME UNCHANGED vars PROVE LeavesForCause'
  BY <1>13 DEF LeavesForCause
<1> QED
  BY <1>2, <1>3, <1>4, <1>5, <1>6, <1>7, <1>8, <1>9, <1>10, <1>11, <1>12, <1>13
  DEF Next, HandlerStep, ServerStep, StopStep

(* A step that drops or replaces the current connection has a cause. *)
LEMMA StepHasCause ==
  ASSUME IInv, LeavesForCause, [Next]_vars, NEW c \in Conn
  PROVE  Cause(c)
<1> SUFFICES ASSUME client_socket = c, client_socket' # c
             PROVE  peer[c] = "gone" \/ ~running \/ target = c \/ server = "install"
  BY DEF Cause
<1> USE DEF vars, serverVars, clientVars, lockVars, stopVars, peerVars
<1>1. lock # Free => target = client_socket
  BY DEF IInv, Safe, SendUndisturbed
<1>2. ASSUME NEW d \in Conn, HandlerLeaves(d)
      PROVE  peer[c] = "gone" \/ ~running
  BY <1>2 DEF HandlerLeaves, LeavesForCause
<1>3. ASSUME NEW s \in Sender, SendFail(s) PROVE target = c
  BY <1>1, <1>3, AgentServerAssumption DEF SendFail
<1>4. ASSUME StopClose PROVE ~running
  BY <1>4 DEF StopClose, LeavesForCause
<1>5. ASSUME Install PROVE server = "install"
  BY <1>5 DEF Install
<1>6. ASSUME \/ \E d \in Conn : PeerConnect(d) \/ PeerGone(d) \/ HandlerStart(d) \/ HandlerEnds(d)
             \/ Select \/ ServerExit \/ Accept \/ AcceptTimeout \/ AcceptError \/ Spawn
             \/ \E s \in Sender : SendBegin(s) \/ SendOk(s)
             \/ StopBegin \/ StopFinish
             \/ UNCHANGED vars
      PROVE  FALSE
  BY <1>6 DEF PeerConnect, PeerGone, HandlerStart, HandlerEnds, Select, ServerExit, Accept,
              AcceptTimeout, AcceptError, Spawn, SendBegin, SendOk, StopBegin, StopFinish
<1> QED
  BY <1>2, <1>3, <1>4, <1>5, <1>6 DEF Next, HandlerStep, ServerStep, StopStep

(* A connection is dropped or replaced only for a reason of its own. *)
THEOREM DroppedForCauseHolds == Spec => DroppedForCause
<1>1. Init => LeavesForCause
  BY DEF Init, LeavesForCause
<1>2. Spec => []LeavesForCause
  BY <1>1, LeavesForCauseInductive, Invariance, PTL DEF Spec
<1>3. IInv /\ LeavesForCause /\ [Next]_vars
        => [\A c \in Conn : client_socket = c /\ client_socket' # c
              => \/ peer[c] = "gone"
                 \/ ~running
                 \/ target = c
                 \/ server = "install"]_vars
  BY StepHasCause DEF Cause
<1> QED BY <1>2, <1>3, Invariance, PTL DEF Spec, DroppedForCause

-----------------------------------------------------------------------------
(* Database.  What counts the executions: a session holds the row of the   *)
(* command as it is, but for what an update changes in it.                 *)

\* A row of CustomCommand, whatever is in its columns.
IsRow(x) ==
    /\ x = [id |-> x.id, enabled |-> x.enabled, steps |-> x.steps, count |-> x.count]
    /\ x.count \in Nat

Counting == {"count", "bump"}

\* What sessions hold: rows, where they will be written or executed.
Sessions ==
    /\ pc \in [Requests -> {"idle", "bond", "select", "commit", "step", "count", "bump",
                            "done", "refused", "failed"}]
    /\ DOMAIN op = Requests /\ DOMAIN seen = Requests
    /\ logged \in Nat /\ alone \in BOOLEAN
    /\ cmd # None => IsRow(cmd)
    /\ \A r \in Requests :
         /\ pc[r] \in {"step"} \union Counting => op[r].do = "execute" /\ IsRow(seen[r])
         /\ pc[r] = "commit" /\ op[r].do = "update" => IsRow(seen[r])

UnderWay(r) == Begun(r) /\ ~Over(r)

\* History: nothing that touches a command overlaps an execution of it.
NoOverlap ==
    alone => \A r, q \in Requests :
        r # q /\ op[r].do = "execute" /\ UnderWay(r) /\ UnderWay(q)
            => op[q].do \notin {"execute", "create", "delete"}

\* An execution holds the row as it is but for what an update changes, and the
\* log is ahead of the count by the one that is being counted.
InStep ==
    alone /\ cmd # None =>
        /\ (\A r \in Requests : pc[r] \notin Counting) => cmd.count = logged
        /\ \A r \in Requests :
             /\ pc[r] \in {"step"} \union Counting =>
                    seen[r].id = cmd.id /\ seen[r].count = cmd.count
             /\ pc[r] \in Counting => logged = cmd.count + 1

CountInv == Sessions /\ NoOverlap /\ InStep

\* An UPDATE leaves a row, and in it every column whose value the session did
\* not change.
LEMMA FlushedColumns ==
    ASSUME NEW row, NEW read, NEW wanted, IsRow(row), IsRow(read), IsRow(wanted)
    PROVE  /\ IsRow(Flushed(row, read, wanted))
           /\ wanted.id = read.id => Flushed(row, read, wanted).id = row.id
           /\ wanted.count = read.count => Flushed(row, read, wanted).count = row.count
           /\ wanted.count # read.count => Flushed(row, read, wanted).count = wanted.count
<1> DEFINE f == Flushed(row, read, wanted)
<1>1. DOMAIN row = {"id", "enabled", "steps", "count"}
  BY DEF IsRow
<1>2. f = [c \in {"id", "enabled", "steps", "count"} |->
              IF wanted[c] # read[c] THEN wanted[c] ELSE row[c]]
  BY <1>1 DEF Flushed
<1>3. f = [id |-> f.id, enabled |-> f.enabled, steps |-> f.steps, count |-> f.count]
  BY <1>2
<1>4. /\ f.id = IF wanted.id # read.id THEN wanted.id ELSE row.id
      /\ f.count = IF wanted.count # read.count THEN wanted.count ELSE row.count
  BY <1>2
<1> HIDE DEF f
<1>5. IsRow(f)
  BY <1>3, <1>4 DEF IsRow
<1> QED BY <1>4, <1>5 DEF f

\* What makes a row.
LEMMA RowOf ==
    ASSUME NEW i, NEW e, NEW s, NEW n \in Nat, NEW u,
           u = [id |-> i, enabled |-> e, steps |-> s, count |-> n]
    PROVE  IsRow(u) /\ u.id = i /\ u.count = n
<1>1. u = [id |-> u.id, enabled |-> u.enabled, steps |-> u.steps, count |-> u.count]
  OBVIOUS
<1>2. u.id = i /\ u.count = n
  OBVIOUS
<1> QED BY <1>1, <1>2 DEF IsRow

\* Steps that do not touch commands.
LEMMA OtherRows ==
    ASSUME CountInv, NEW r \in Requests, UNCHANGED <<cmd, logged, alone, op>>,
           DOMAIN seen' = Requests, \A q \in Requests \ {r} : seen'[q] = seen[q],
           NEW p \in {"commit", "done", "failed", "refused", "select"}, pc' = [pc EXCEPT ![r] = p],
           p = "commit" => op[r].do # "update",
           pc[r] \in {"bond", "select", "commit"}
    PROVE  CountInv'
<1> USE DEF CountInv
<1>1. Sessions'
  BY DEF Sessions, Counting, IsRow
<1>2. NoOverlap'
  BY DEF NoOverlap, UnderWay, Begun, Over, Sessions
<1>3. InStep'
  BY DEF InStep, Counting, Sessions
<1> QED BY <1>1, <1>2, <1>3

LEMMA CountStep == CountInv /\ [DatabaseNext]_databaseVars => CountInv'
<1> SUFFICES ASSUME CountInv, [DatabaseNext]_databaseVars PROVE CountInv'
  OBVIOUS
<1> USE DEF CountInv
<1>1. ASSUME NEW r \in Requests, Begin(r) PROVE CountInv'
  <2>1. PICK o \in menu :
          /\ op' = [op EXCEPT ![r] = o]
          /\ pc' = [pc EXCEPT ![r] = IF o.do = "unpair" THEN "bond" ELSE "select"]
          /\ alone' = (alone /\ (o.do = "execute" => ~Touching(r))
                             /\ (o.do \in {"create", "delete"} => ~Executing(r)))
    BY <1>1 DEF Begin
  <2>2. UNCHANGED <<cmd, logged, seen>> /\ pc[r] = "idle"
    BY <1>1 DEF Begin, rows
  <2>3. alone' \in BOOLEAN /\ (alone' => alone)
    BY <2>1, Zenon
  <2>4. Sessions'
    BY <2>1, <2>2, <2>3 DEF Sessions, Counting, IsRow
  <2>5. alone' => (o.do = "execute" => ~Touching(r))
                  /\ (o.do \in {"create", "delete"} => ~Executing(r))
    BY <2>1, Zenon
  <2>6. NoOverlap'
    BY <2>1, <2>2, <2>3, <2>5 DEF NoOverlap, UnderWay, Begun, Over, Sessions, Touching, Executing
  <2>7. InStep'
    BY <2>1, <2>2, <2>3 DEF InStep, Counting, Sessions
  <2> QED BY <2>4, <2>6, <2>7
<1>2. ASSUME NEW r \in Requests, DeleteBond(r) PROVE CountInv'
  BY <1>2, OtherRows DEF DeleteBond, Ends, rows, Sessions
<1>3. ASSUME NEW r \in Requests, SelectNames(r) \/ SelectPin(r) PROVE CountInv'
  <2>1. /\ UNCHANGED <<cmd, logged, alone, op>> /\ pc[r] = "select" /\ op[r].do # "update"
        /\ \E p \in {"commit", "done"} : pc' = [pc EXCEPT ![r] = p]
        /\ DOMAIN seen' = Requests /\ \A q \in Requests \ {r} : seen'[q] = seen[q]
    BY <1>3 DEF SelectNames, SelectPin, Ends, Goes, rows, Sessions
  <2> QED BY <2>1, OtherRows
<1>4. ASSUME NEW r \in Requests,
             CommitName(r) \/ CommitUnname(r) \/ CommitRemember(r) \/ CommitPin(r)
      PROVE  CountInv'
  <2>1. /\ UNCHANGED <<cmd, logged, alone, op, seen>> /\ pc[r] = "commit"
        /\ \E p \in {"failed", "done"} : pc' = [pc EXCEPT ![r] = p]
    BY <1>4 DEF CommitName, CommitUnname, CommitRemember, CommitPin, Ends
  <2> QED BY <2>1, OtherRows DEF Sessions
<1>5. ASSUME NEW r \in Requests, SelectCommand(r) PROVE CountInv'
  <2>1. UNCHANGED <<cmd, logged, alone, op>> /\ pc[r] = "select"
    BY <1>5 DEF SelectCommand, Ends, Goes, rows
  <2>2. CASE Ends(r, "refused")
    BY <2>1, <2>2, OtherRows DEF Ends, Sessions
  <2>3. CASE op[r].do # "execute" /\ Goes(r, "commit", cmd) /\ cmd # None
    <3>1. Sessions'
      BY <2>1, <2>3 DEF Goes, Sessions, Counting, IsRow
    <3>2. NoOverlap'
      BY <2>1, <2>3 DEF Goes, NoOverlap, UnderWay, Begun, Over, Sessions
    <3>3. InStep'
      BY <2>1, <2>3 DEF Goes, InStep, Counting, Sessions
    <3> QED BY <3>1, <3>2, <3>3
  <2>4. CASE op[r].do = "create" /\ Goes(r, "commit", None)
    BY <2>1, <2>4, OtherRows DEF Goes, Sessions
  <2>5. CASE op[r].do = "execute" /\ Goes(r, "step", cmd) /\ cmd # None
    <3>1. Sessions'
      BY <2>1, <2>5 DEF Goes, Sessions, Counting, IsRow
    <3>2. NoOverlap'
      BY <2>1, <2>5 DEF Goes, NoOverlap, UnderWay, Begun, Over, Sessions
    <3>3. ASSUME alone PROVE \A q \in Requests : pc[q] \notin Counting
      BY <2>1, <2>5, <3>3 DEF NoOverlap, UnderWay, Begun, Over, Sessions, Counting
    <3>4. InStep'
      BY <2>1, <2>5, <3>3 DEF Goes, InStep, Counting, Sessions
    <3> QED BY <3>1, <3>2, <3>4
  <2> QED BY <1>5, <2>2, <2>3, <2>4, <2>5 DEF SelectCommand
<1>6. ASSUME NEW r \in Requests, CommitCreate(r) PROVE CountInv'
  <2>1. pc[r] = "commit" /\ op[r].do = "create" /\ UNCHANGED <<alone, op, seen>>
    BY <1>6 DEF CommitCreate, Ends
  <2>2. CASE cmd # None
    BY <1>6, <2>1, <2>2, OtherRows DEF CommitCreate, Ends, Sessions
  <2>3. CASE cmd = None
    <3>1. /\ pc' = [pc EXCEPT ![r] = "done"] /\ logged' = 0
          /\ \E id \in {1, 2} :
               cmd' = [id |-> id, enabled |-> TRUE, steps |-> op[r].value, count |-> 0]
      BY <1>6, <2>3 DEF CommitCreate, Ends
    <3>2. IsRow(cmd') /\ cmd'.count = 0
      BY <3>1 DEF IsRow
    <3>3. Sessions'
      BY <2>1, <3>1, <3>2 DEF Sessions, Counting, IsRow
    <3>4. NoOverlap'
      BY <2>1, <3>1 DEF NoOverlap, UnderWay, Begun, Over, Sessions
    <3>5. ASSUME alone PROVE \A q \in Requests : pc[q] \notin {"step"} \union Counting
      BY <2>1, <3>5 DEF NoOverlap, UnderWay, Begun, Over, Sessions, Counting
    <3>6. InStep'
      BY <2>1, <3>1, <3>2, <3>5 DEF InStep, Counting, Sessions
    <3> QED BY <3>3, <3>4, <3>6
  <2> QED BY <2>2, <2>3
<1>7. ASSUME NEW r \in Requests, CommitUpdate(r) PROVE CountInv'
  <2>1. pc[r] = "commit" /\ op[r].do = "update" /\ UNCHANGED <<alone, op, seen, logged>>
    BY <1>7 DEF CommitUpdate, Ends
  <2>2. CASE ~SameRow(seen[r])
    BY <1>7, <2>1, <2>2, OtherRows DEF CommitUpdate, Ends, Sessions
  <2>3. CASE SameRow(seen[r])
    <3> DEFINE wanted == [seen[r] EXCEPT
                 !.enabled = IF op[r].enabled = None THEN @ ELSE op[r].enabled,
                 !.steps = IF op[r].value = None THEN @ ELSE op[r].value]
    <3>1. IsRow(cmd) /\ IsRow(seen[r]) /\ cmd # None
      BY <2>1, <2>3 DEF Sessions, SameRow
    <3>2. IsRow(wanted) /\ wanted.id = seen[r].id /\ wanted.count = seen[r].count
      <4> DEFINE e == IF op[r].enabled = None THEN seen[r].enabled ELSE op[r].enabled
                 s == IF op[r].value = None THEN seen[r].steps ELSE op[r].value
                 row == seen[r]
      <4>1. wanted = [row EXCEPT !.enabled = e, !.steps = s]
        OBVIOUS
      <4>2. IsRow(row)
        BY <3>1
      <4> HIDE DEF e, s, row, wanted
      <4> DEFINE i == row.id a == row.enabled b == row.steps n == row.count
      <4>3. row = [id |-> i, enabled |-> a, steps |-> b, count |-> n] /\ n \in Nat
        BY <4>2 DEF IsRow
      <4> HIDE DEF i, a, b, n
      <4>4. wanted = [id |-> i, enabled |-> e, steps |-> s, count |-> n]
        BY <4>1, <4>3
      <4>5. IsRow(wanted) /\ wanted.id = i /\ wanted.count = n
        BY <4>3, <4>4, RowOf
      <4> QED BY <4>5 DEF i, n, row
    <3>3. pc' = [pc EXCEPT ![r] = "done"] /\ cmd' = Flushed(cmd, seen[r], wanted)
      BY <1>7, <2>3 DEF CommitUpdate, Ends
    <3> HIDE DEF wanted
    <3>4. IsRow(cmd') /\ cmd'.id = cmd.id /\ cmd'.count = cmd.count
      BY <3>1, <3>2, <3>3, FlushedColumns
    <3>5. Sessions'
      BY <2>1, <3>3, <3>4 DEF Sessions, Counting, IsRow
    <3>6. NoOverlap'
      BY <2>1, <3>3 DEF NoOverlap, UnderWay, Begun, Over, Sessions
    <3>7. InStep'
      BY <2>1, <3>1, <3>3, <3>4 DEF InStep, Counting, Sessions
    <3> QED BY <3>5, <3>6, <3>7
  <2> QED BY <2>2, <2>3
<1>8. ASSUME NEW r \in Requests, CommitDelete(r) PROVE CountInv'
  <2>1. /\ pc[r] = "commit" /\ op[r].do = "delete" /\ UNCHANGED <<alone, op, seen, logged>>
        /\ pc' = [pc EXCEPT ![r] = "done"] /\ cmd' \in {None, cmd}
    BY <1>8 DEF CommitDelete, Ends
  <2>2. Sessions'
    BY <2>1 DEF Sessions, Counting, IsRow
  <2>3. NoOverlap'
    BY <2>1 DEF NoOverlap, UnderWay, Begun, Over, Sessions
  <2>4. InStep'
    BY <2>1 DEF InStep, Counting, Sessions
  <2> QED BY <2>2, <2>3, <2>4
<1>9. ASSUME NEW r \in Requests, Step(r) PROVE CountInv'
  <2>1. UNCHANGED <<cmd, logged, pc, op, seen, alone>>
    BY <1>9 DEF Step, rows
  <2> QED BY <2>1 DEF Sessions, NoOverlap, UnderWay, Begun, Over, InStep
<1>10. ASSUME NEW r \in Requests, Record(r) PROVE CountInv'
  <2>1. /\ pc[r] = "step" /\ op[r].do = "execute" /\ UNCHANGED <<cmd, alone, op, seen>>
        /\ pc' = [pc EXCEPT ![r] = "count"]
        /\ logged' = IF SameRow(seen[r]) THEN logged + 1 ELSE logged
    BY <1>10 DEF Record, Sessions
  <2>2. Sessions'
    BY <2>1 DEF Sessions, Counting, IsRow
  <2>3. NoOverlap'
    BY <2>1 DEF NoOverlap, UnderWay, Begun, Over, Sessions
  <2>4. ASSUME alone PROVE \A q \in Requests \ {r} : pc[q] \notin {"step"} \union Counting
    BY <2>1, <2>4 DEF NoOverlap, UnderWay, Begun, Over, Sessions, Counting
  <2>5. InStep'
    <3>1. ASSUME alone, cmd # None PROVE logged' = cmd.count + 1
      BY <2>1, <2>4, <3>1 DEF InStep, Counting, Sessions, SameRow
    <3> QED BY <2>1, <2>4, <3>1 DEF InStep, Counting, Sessions
  <2> QED BY <2>2, <2>3, <2>5
<1>11. ASSUME NEW r \in Requests, BumpRead(r) PROVE CountInv'
  <2>1. pc[r] = "count" /\ op[r].do = "execute" /\ UNCHANGED <<cmd, logged, alone, op>>
    BY <1>11 DEF BumpRead, Ends, Goes, rows, Sessions, Counting
  <2>2. CASE cmd = None
    <3>1. pc' = [pc EXCEPT ![r] = "done"] /\ UNCHANGED seen
      BY <1>11, <2>2 DEF BumpRead, Ends
    <3>2. Sessions'
      BY <2>1, <3>1 DEF Sessions, Counting, IsRow
    <3>3. NoOverlap'
      BY <2>1, <3>1 DEF NoOverlap, UnderWay, Begun, Over, Sessions
    <3> QED BY <2>1, <2>2, <3>2, <3>3 DEF InStep
  <2>3. CASE cmd # None
    <3>1. PICK x \in {seen[r], cmd} :
            /\ x = IF SameRow(seen[r]) THEN seen[r] ELSE cmd
            /\ pc' = [pc EXCEPT ![r] = "bump"] /\ seen' = [seen EXCEPT ![r] = x]
      BY <1>11, <2>3 DEF BumpRead, Goes
    <3>2. IsRow(x)
      BY <2>1, <2>3 DEF Sessions, Counting
    <3>3. Sessions'
      BY <2>1, <3>1, <3>2 DEF Sessions, Counting, IsRow
    <3>4. NoOverlap'
      BY <2>1, <3>1 DEF NoOverlap, UnderWay, Begun, Over, Sessions
    <3>5. alone => x = seen[r]
      BY <2>1, <2>3, <3>1 DEF InStep, SameRow, Counting
    <3>6. InStep'
      BY <2>1, <3>1, <3>5 DEF InStep, Counting, Sessions
    <3> QED BY <3>3, <3>4, <3>6
  <2> QED BY <2>2, <2>3
<1>12. ASSUME NEW r \in Requests, BumpWrite(r) PROVE CountInv'
  <2>1. /\ pc[r] = "bump" /\ op[r].do = "execute" /\ UNCHANGED <<logged, alone, op, seen>>
    BY <1>12 DEF BumpWrite, Ends, Sessions, Counting
  <2>2. \E p \in {"done", "failed"} : pc' = [pc EXCEPT ![r] = p]
    BY <1>12 DEF BumpWrite, Ends
  <2>3. NoOverlap'
    BY <2>1, <2>2 DEF NoOverlap, UnderWay, Begun, Over, Sessions
  <2>4. ASSUME alone PROVE \A q \in Requests \ {r} : pc[q] \notin {"step"} \union Counting
    BY <2>1, <2>4 DEF NoOverlap, UnderWay, Begun, Over, Sessions, Counting
  <2>5. CASE ~SameRow(seen[r])
    <3>1. UNCHANGED cmd
      BY <1>12, <2>5 DEF BumpWrite
    <3>2. Sessions'
      BY <2>1, <2>2, <3>1 DEF Sessions, Counting, IsRow
    <3>3. alone => cmd = None
      BY <2>1, <2>5 DEF InStep, SameRow, Counting
    <3> QED BY <2>1, <2>3, <3>1, <3>2, <3>3 DEF InStep
  <2>6. CASE SameRow(seen[r])
    <3> DEFINE wanted == [seen[r] EXCEPT !.count = @ + 1]
    <3>1. IsRow(cmd) /\ IsRow(seen[r]) /\ cmd # None
      BY <2>1, <2>6 DEF Sessions, SameRow, Counting
    <3>2. IsRow(wanted) /\ wanted.id = seen[r].id /\ wanted.count = seen[r].count + 1
      BY <3>1 DEF IsRow
    <3>3. cmd' = Flushed(cmd, seen[r], wanted)
      BY <1>12, <2>6 DEF BumpWrite
    <3> HIDE DEF wanted
    <3>4. wanted.count # seen[r].count
      BY <3>1, <3>2 DEF IsRow
    <3>5. IsRow(cmd') /\ cmd'.id = cmd.id /\ cmd'.count = seen[r].count + 1
      BY <3>1, <3>2, <3>3, <3>4, FlushedColumns
    <3>6. Sessions'
      BY <2>1, <2>2, <3>5 DEF Sessions, Counting, IsRow
    <3>7. ASSUME alone PROVE cmd'.count = logged
      BY <2>1, <3>1, <3>5, <3>7 DEF InStep, Counting
    <3>8. InStep'
      BY <2>1, <2>2, <2>4, <3>7 DEF InStep, Counting, Sessions
    <3> QED BY <2>3, <3>6, <3>8
  <2> QED BY <2>5, <2>6
<1>13. ASSUME UNCHANGED databaseVars PROVE CountInv'
  BY <1>13 DEF databaseVars, rows, Sessions, NoOverlap, UnderWay, Begun, Over, InStep
<1> QED
  BY <1>1, <1>2, <1>3, <1>4, <1>5, <1>6, <1>7, <1>8, <1>9, <1>10, <1>11, <1>12, <1>13
  DEF DatabaseNext, Do

LEMMA CountInit == DatabaseInit => CountInv
<1> SUFFICES ASSUME DatabaseInit PROVE CountInv
  OBVIOUS
<1>1. ASSUME cmd # None PROVE IsRow(cmd) /\ cmd.count = 0
  <2>1. cmd \in [id : {1}, enabled : {TRUE}, steps : Programs, count : {0}]
    BY <1>1 DEF DatabaseInit
  <2>2. cmd = [id |-> cmd.id, enabled |-> cmd.enabled, steps |-> cmd.steps, count |-> cmd.count]
    BY <2>1
  <2>3. cmd.count = 0
    BY <2>1
  <2> QED BY <2>2, <2>3 DEF IsRow
<1>2. Sessions
  BY <1>1 DEF DatabaseInit, Sessions, Counting
<1>3. NoOverlap
  BY DEF DatabaseInit, NoOverlap, UnderWay, Begun
<1>4. InStep
  BY <1>1 DEF DatabaseInit, InStep, Counting
<1> QED BY <1>2, <1>3, <1>4 DEF CountInv

\* As long as executions of a command overlap neither each other nor its
\* creation or deletion, execution_count counts the executions in its log
\* (record_execution and bump_execution_count, db/crud.py:45-82).
THEOREM CountsExecutionsHolds == DatabaseSpec => []CountsExecutions
<1>1. CountInv => CountsExecutions
  <2> SUFFICES ASSUME CountInv, alone, cmd # None
               PROVE  /\ cmd.count <= logged
                      /\ (\A r \in Requests : pc[r] \notin Counting) => cmd.count = logged
    BY DEF CountsExecutions, Counting
  <2> QED BY DEF CountInv, InStep, Sessions, IsRow
<1> QED BY <1>1, CountInit, CountStep, PTL DEF DatabaseSpec

-----------------------------------------------------------------------------
(* Rows of names and of the pin.                                           *)

NameOps == {"name", "unname", "unpair", "remember"}
PinOps  == {"lock", "unlock", "expect"}
Columns == {"locked", "mode", "value"}

\* What RowsSerial is about: the names of the devices, the columns of the pin.
Cells == ({"name"} \X Macs) \union ({"pin"} \X Columns)

Cell(x)   == IF x[1] = "name" THEN names[x[2]] ELSE Said(pin)[x[2]]
Origin(x) == IF x[1] = "name" THEN first.names[x[2]] ELSE Said(first.pin)[x[2]]

\* What a request makes of a column of the pin.
PinAfter(r, c, value) ==
    CASE op[r].do = "lock"   -> IF c = "locked" THEN TRUE ELSE value
      [] op[r].do = "unlock" -> NewPin[c]
      [] op[r].do = "expect" -> IF c = "mode" THEN op[r].value[1]
                                ELSE IF c = "value" THEN op[r].value[2] ELSE value

After(r, x, value) == IF x[1] = "name" THEN NameAfter(r, x[2], value) ELSE PinAfter(r, x[2], value)

\* What a session has read of a cell.
Read(r, x) == IF x[1] = "name" THEN seen[r][x[2]] ELSE Said(seen[r])[x[2]]

Touches(r, x) == IF x[1] = "name" THEN op[r].do \in NameOps /\ x[2] \in op[r].macs
                                  ELSE op[r].do \in PinOps

Written(x) == {r \in Requests : pc[r] = "done" /\ Touches(r, x)}
Reading(x) == {r \in Requests : pc[r] = "commit" /\ Touches(r, x)}

\* The requests that succeeded, in an order s that respects the past, make v of a
\* cell, one value after the other; and each of those that have read it has read
\* one of these, from after whatever had ended when it began.
Explains(x, s, v) ==
    LET n == Len(s)
    IN  /\ s \in Seq(Requests) /\ {s[i] : i \in 1..n} = Written(x)
        /\ \A i, j \in 1..n : s[i] = s[j] => i = j
        /\ \A i, j \in 1..n : s[i] \in past[s[j]] => i < j
        /\ v[0] = Origin(x) /\ v[n] = Cell(x)
        /\ \A i \in 1..n : v[i] = After(s[i], x, v[i - 1])
        /\ \A q \in Reading(x) : \E k \in 0..n :
             v[k] = Read(q, x) /\ \A i \in 1..n : s[i] \in past[q] => i <= k

Serial(x) == \E s, v : Explains(x, s, v)

\* What the sessions of these requests hold, and what is past.
Reads ==
    /\ menu \in Menus
    /\ pc \in [Requests -> {"idle", "bond", "select", "commit", "step", "count", "bump",
                            "done", "refused", "failed"}]
    /\ DOMAIN op = Requests /\ DOMAIN seen = Requests /\ DOMAIN past = Requests
    /\ DOMAIN names = Macs /\ pin \in PinRow \union {None}
    /\ first.pin \in PinRow \union {None}
    /\ \A r \in Requests :
         /\ pc[r] # "idle" => op[r] \in menu
         /\ \A q \in past[r] : q \in Requests /\ Over(q)
         /\ pc[r] = "commit" /\ op[r].do \in PinOps =>
              seen[r] \in PinRow \union {None} /\ (seen[r] # None => pin # None)

SerialInv == Reads /\ \A x \in Cells : Serial(x)

-----------------------------------------------------------------------------
(* A step of request r, seen from one cell.                                *)

\* What r does leaves all other requests as they are.
Others(r) == \A q \in Requests \ {r} :
    pc'[q] = pc[q] /\ op'[q] = op[q] /\ seen'[q] = seen[q] /\ past'[q] = past[q]

\* The order and the values stay when r does not succeed: if it has read the
\* cell, it has read the last of them.
LEMMA CellKept ==
    ASSUME NEW x, Serial(x), NEW r \in Requests, Others(r), pc[r] # "done",
           Cell(x)' = Cell(x), Origin(x)' = Origin(x),
           Touches(r, x)' => pc'[r] # "done",
           Touches(r, x)' /\ pc'[r] = "commit" => Read(r, x)' = Cell(x)
    PROVE  Serial(x)'
<1>1. PICK s, v : Explains(x, s, v)
  BY DEF Serial
<1> DEFINE n == Len(s)
<1>2. /\ s \in Seq(Requests) /\ {s[i] : i \in 1..n} = Written(x) /\ n \in Nat
      /\ \A i, j \in 1..n : s[i] = s[j] => i = j
      /\ \A i, j \in 1..n : s[i] \in past[s[j]] => i < j
      /\ v[0] = Origin(x) /\ v[n] = Cell(x)
      /\ \A i \in 1..n : v[i] = After(s[i], x, v[i - 1])
      /\ \A q \in Reading(x) : \E k \in 0..n :
           v[k] = Read(q, x) /\ \A i \in 1..n : s[i] \in past[q] => i <= k
  BY <1>1 DEF Explains
<1>3. \A q \in Requests \ {r} : /\ Touches(q, x)' <=> Touches(q, x)
                                /\ Read(q, x)' = Read(q, x)
                                /\ \A u : After(q, x, u)' = After(q, x, u)
  <2> SUFFICES ASSUME NEW q \in Requests \ {r}
               PROVE  /\ Touches(q, x)' <=> Touches(q, x)
                      /\ Read(q, x)' = Read(q, x)
                      /\ \A u : After(q, x, u)' = After(q, x, u)
    OBVIOUS
  <2>1. op'[q] = op[q] /\ seen'[q] = seen[q]
    BY DEF Others
  <2>2. Touches(q, x)' <=> Touches(q, x)
    BY <2>1 DEF Touches
  <2>3. Read(q, x)' = Read(q, x)
    BY <2>1 DEF Read
  <2>4. ASSUME NEW u PROVE After(q, x, u)' = After(q, x, u)
    BY <2>1 DEF After, NameAfter, PinAfter
  <2> QED BY <2>2, <2>3, <2>4
<1>4. Written(x)' = Written(x)
  BY <1>3 DEF Written, Others
<1>5. \A i \in 1..n : s[i] \in Requests \ {r}
  <2>1. \A i \in 1..n : s[i] \in Written(x)
    BY <1>2
  <2> QED BY <2>1 DEF Written
<1>6. ASSUME NEW q \in Reading(x)'
      PROVE  \E k \in 0..n : /\ v[k] = Read(q, x)'
                             /\ \A i \in 1..n : s[i] \in past'[q] => i <= k
  <2>1. CASE q = r
    <3>1. Read(r, x)' = v[n]
      BY <1>2, <1>6, <2>1 DEF Reading
    <3>2. n \in 0..n /\ \A i \in 1..n : i <= n
      BY <1>2
    <3> QED BY <2>1, <3>1, <3>2
  <2>2. CASE q # r
    <3>1. q \in Reading(x) /\ Read(q, x)' = Read(q, x) /\ past'[q] = past[q]
      BY <1>3, <1>6, <2>2 DEF Reading, Others
    <3> QED BY <1>2, <3>1
  <2> QED BY <2>1, <2>2
<1>7. \A i, j \in 1..n : s[i] \in past'[s[j]] => i < j
  BY <1>2, <1>5 DEF Others
<1>8. \A i \in 1..n : v[i] = After(s[i], x, v[i - 1])'
  BY <1>2, <1>3, <1>5
<1>9. v[0] = Origin(x)' /\ v[n] = Cell(x)'
  BY <1>2
<1> HIDE DEF n
<1>10. Explains(x, s, v)'
  BY <1>2, <1>4, <1>6, <1>7, <1>8, <1>9 DEF Explains, n
<1> QED BY <1>10 DEF Serial

\* When r succeeds, it takes a place in the order: at its end, or where the value
\* is the one that it has read and it makes nothing else of it.
LEMMA CellWritten ==
    ASSUME NEW x, Serial(x), NEW r \in Requests, Others(r), UNCHANGED <<op, past>>,
           pc[r] # "done", pc'[r] = "done", Touches(r, x), Origin(x)' = Origin(x),
           \A q \in Requests : r \notin past[q],
           \/ Cell(x)' = After(r, x, Cell(x))
           \/ /\ r \in Reading(x) /\ Cell(x)' = Cell(x)
              /\ After(r, x, Read(r, x)) = Read(r, x)
    PROVE  Serial(x)'
<1>1. PICK s, v : Explains(x, s, v)
  BY DEF Serial
<1> DEFINE n == Len(s)
<1>2. /\ s \in Seq(Requests) /\ {s[i] : i \in 1..n} = Written(x) /\ n \in Nat
      /\ \A i, j \in 1..n : s[i] = s[j] => i = j
      /\ \A i, j \in 1..n : s[i] \in past[s[j]] => i < j
      /\ v[0] = Origin(x) /\ v[n] = Cell(x)
      /\ \A i \in 1..n : v[i] = After(s[i], x, v[i - 1])
      /\ \A q \in Reading(x) : \E k \in 0..n :
           v[k] = Read(q, x) /\ \A i \in 1..n : s[i] \in past[q] => i <= k
  BY <1>1 DEF Explains
<1>3. PICK k \in 0..n :
         /\ \A i \in 1..n : s[i] \in past[r] => i <= k
         /\ Cell(x)' = IF k = n THEN After(r, x, v[k]) ELSE v[n]
         /\ k = n \/ After(r, x, v[k]) = v[k]
  <2>1. CASE Cell(x)' = After(r, x, Cell(x))
    <3>1. n \in 0..n /\ \A i \in 1..n : i <= n
      BY <1>2
    <3> QED BY <1>2, <2>1, <3>1
  <2>2. CASE r \in Reading(x) /\ Cell(x)' = Cell(x) /\ After(r, x, Read(r, x)) = Read(r, x)
    <3>1. PICK k \in 0..n : v[k] = Read(r, x) /\ \A i \in 1..n : s[i] \in past[r] => i <= k
      BY <1>2, <2>2
    <3>2. k = n => Cell(x)' = After(r, x, v[k])
      BY <1>2, <2>2, <3>1
    <3> QED BY <1>2, <2>2, <3>1, <3>2
  <2> QED BY <2>1, <2>2
<1> HIDE DEF n
<1> DEFINE t == [i \in 1..(n + 1) |-> IF i <= k THEN s[i] ELSE IF i = k + 1 THEN r ELSE s[i - 1]]
<1>4. \A i \in 1..n : s[i] \in Written(x) /\ s[i] \in Requests /\ s[i] # r
  <2>1. \A i \in 1..n : s[i] \in Written(x)
    BY <1>2
  <2> QED BY <2>1 DEF Written
<1>5. /\ \A i \in 1..k : t[i] = s[i] /\ i \in 1..n
      /\ t[k + 1] = r /\ k + 1 \in 1..(n + 1)
      /\ \A i \in (k + 2)..(n + 1) : t[i] = s[i - 1] /\ i - 1 \in 1..n
      /\ \A i \in 1..(n + 1) : i \in 1..k \/ i = k + 1 \/ i \in (k + 2)..(n + 1)
      /\ k \in Nat /\ k <= n
  BY <1>2, <1>3
<1>a. PICK w : w = [i \in 0..(n + 1) |-> IF i <= k THEN v[i]
                          ELSE IF i = k + 1 THEN After(r, x, v[k]) ELSE v[i - 1]]
  OBVIOUS
<1>6. /\ \A i \in 0..k : w[i] = v[i] /\ i \in 0..n
      /\ w[k + 1] = After(r, x, v[k])
      /\ \A i \in (k + 2)..(n + 1) : w[i] = v[i - 1]
      /\ \A i \in 0..(n + 1) : i \in 0..k \/ i = k + 1 \/ i \in (k + 2)..(n + 1)
  BY <1>2, <1>3, <1>a
<1>7. t \in Seq(Requests) /\ Len(t) = n + 1
  <2>1. \A i \in 1..(n + 1) : t[i] \in Requests
    BY <1>4, <1>5
  <2>2. n + 1 \in Nat /\ DOMAIN t = 1..(n + 1)
    BY <1>2
  <2>3. t \in [1..(n + 1) -> Requests]
    BY <2>1
  <2> HIDE DEF t
  <2> QED BY <2>2, <2>3
<1> HIDE DEF t
<1>8. \A q \in Requests : Touches(q, x)' <=> Touches(q, x)
  BY DEF Touches
<1>9. Written(x)' = Written(x) \union {r}
  BY <1>8 DEF Written, Others
<1>10. {t[i] : i \in 1..(n + 1)} = Written(x)'
  <2>1. {t[i] : i \in 1..(n + 1)} \subseteq {s[i] : i \in 1..n} \union {r}
    BY <1>5
  <2>2. ASSUME NEW i \in 1..n PROVE s[i] \in {t[j] : j \in 1..(n + 1)}
    <3>1. CASE i <= k
      <4>1. i \in 1..k /\ i \in 1..(n + 1)
        BY <1>2, <1>5, <3>1
      <4>2. t[i] = s[i]
        BY <1>5, <4>1
      <4> QED BY <4>1, <4>2
    <3>2. CASE i > k
      <4>1. i + 1 \in (k + 2)..(n + 1) /\ i + 1 \in 1..(n + 1) /\ (i + 1) - 1 = i
        BY <1>2, <1>5, <3>2
      <4>2. t[i + 1] = s[i]
        BY <1>5, <4>1
      <4> QED BY <4>1, <4>2
    <3> QED BY <1>2, <1>5, <3>1, <3>2
  <2>3. r \in {t[j] : j \in 1..(n + 1)}
    BY <1>5
  <2> DEFINE T == {t[j] : j \in 1..(n + 1)}  S == {s[i] : i \in 1..n}
  <2>4. T \subseteq S \union {r}
    BY <2>1
  <2>5. S \subseteq T
    BY <2>2
  <2>6. r \in T
    BY <2>3
  <2> HIDE DEF T, S
  <2>7. T = S \union {r}
    BY <2>4, <2>5, <2>6
  <2> QED BY <1>2, <1>9, <2>7 DEF T, S
<1> DEFINE From(i) == IF i <= k THEN i ELSE i - 1
<1>11. \A i \in 1..(n + 1) : i # k + 1 => From(i) \in 1..n /\ t[i] = s[From(i)]
  <2>1. \A i \in 1..k : From(i) = i
    OBVIOUS
  <2>2. \A i \in (k + 2)..(n + 1) : From(i) = i - 1
    BY <1>5
  <2> QED BY <1>5, <2>1, <2>2
<1>12. \A i, j \in 1..(n + 1) : i # k + 1 /\ j # k + 1 =>
         /\ From(i) < From(j) => i < j
         /\ From(i) = From(j) => i = j
         /\ From(i) <= k => i <= k
  BY <1>2, <1>5
<1> HIDE DEF From
<1>13. t[k + 1] = r /\ \A i \in 1..(n + 1) : i # k + 1 => t[i] # r
  BY <1>4, <1>5, <1>11
<1>14. ASSUME NEW i \in 1..(n + 1), NEW j \in 1..(n + 1), t[i] = t[j] PROVE i = j
  <2>1. CASE i # k + 1 /\ j # k + 1
    <3>1. From(i) \in 1..n /\ From(j) \in 1..n /\ s[From(i)] = s[From(j)]
      BY <1>11, <1>14, <2>1
    <3>2. From(i) = From(j)
      BY <1>2, <3>1
    <3> QED BY <1>12, <2>1, <3>2
  <2> QED BY <1>13, <1>14, <2>1
<1>15. ASSUME NEW i \in 1..(n + 1), NEW j \in 1..(n + 1), t[i] \in past'[t[j]] PROVE i < j
  <2>1. t[i] \in past[t[j]] /\ t[j] \in Requests
    BY <1>7, <1>15
  <2>2. i # k + 1
    BY <1>13, <2>1
  <2>3. From(i) \in 1..n /\ t[i] = s[From(i)]
    BY <1>11, <2>2
  <2>4. CASE j = k + 1
    <3>1. From(i) <= k
      BY <1>3, <1>13, <2>1, <2>3, <2>4
    <3>2. i <= k
      BY <1>12, <2>2, <3>1
    <3> QED BY <1>5, <2>4, <3>2
  <2>5. CASE j # k + 1
    <3>1. From(j) \in 1..n /\ t[j] = s[From(j)]
      BY <1>11, <2>5
    <3>2. From(i) < From(j)
      BY <1>2, <2>1, <2>3, <3>1
    <3> QED BY <1>12, <2>2, <2>5, <3>2
  <2> QED BY <2>4, <2>5
<1>16. \A q \in Requests : \A u : After(q, x, u)' = After(q, x, u)
  BY DEF After, NameAfter, PinAfter
<1>17. ASSUME NEW i \in 1..(n + 1) PROVE w[i] = After(t[i], x, w[i - 1])'
  <2>1. w[i] = After(t[i], x, w[i - 1])
    <3>1. CASE i \in 1..k
      <4>1. i \in 1..n /\ i \in 0..k /\ i - 1 \in 0..k
        BY <1>5, <3>1
      <4>2. w[i] = v[i] /\ w[i - 1] = v[i - 1] /\ t[i] = s[i]
        BY <1>5, <1>6, <3>1, <4>1
      <4> QED BY <1>2, <4>1, <4>2
    <3>2. CASE i = k + 1
      <4>1. i - 1 = k /\ k \in 0..k
        BY <1>5, <3>2
      <4>2. w[i - 1] = v[k] /\ w[i] = After(r, x, v[k]) /\ t[i] = r
        BY <1>5, <1>6, <3>2, <4>1
      <4> QED BY <4>2
    <3>3. CASE i \in (k + 2)..(n + 1)
      <4>1. i - 1 \in 1..n /\ t[i] = s[i - 1] /\ w[i] = v[i - 1]
        BY <1>5, <1>6, <3>3
      <4>2. w[i - 1] = v[(i - 1) - 1]
        <5>1. CASE i = k + 2
          <6>1. k # n /\ i - 1 = k + 1 /\ (i - 1) - 1 = k
            BY <1>5, <3>3, <5>1
          <6>2. After(r, x, v[k]) = v[k]
            BY <1>3, <6>1
          <6> QED BY <1>6, <6>1, <6>2
        <5>2. CASE i # k + 2
          <6>1. i - 1 \in (k + 2)..(n + 1)
            BY <1>2, <1>5, <3>3, <5>2
          <6> QED BY <1>6, <6>1
        <5> QED BY <5>1, <5>2
      <4> QED BY <1>2, <4>1, <4>2
    <3> QED BY <1>5, <3>1, <3>2, <3>3
  <2> QED BY <1>7, <1>16, <2>1
<1>18. w[0] = Origin(x)' /\ w[n + 1] = Cell(x)'
  <2>1. w[0] = v[0]
    BY <1>5, <1>6
  <2>2. CASE k = n
    BY <1>2, <1>3, <1>6, <2>1, <2>2
  <2>3. CASE k # n
    <3>1. n + 1 \in (k + 2)..(n + 1) /\ (n + 1) - 1 = n
      BY <1>2, <1>5, <2>3
    <3>2. w[n + 1] = v[n]
      BY <1>6, <3>1
    <3> QED BY <1>2, <1>3, <2>1, <2>3, <3>2
  <2> QED BY <2>2, <2>3
<1>19. ASSUME NEW q \in Reading(x)'
       PROVE  \E h \in 0..(n + 1) : /\ w[h] = Read(q, x)'
                                    /\ \A i \in 1..(n + 1) : t[i] \in past'[q] => i <= h
  <2>1. q \in Reading(x) /\ Read(q, x)' = Read(q, x) /\ q \in Requests /\ r \notin past[q]
    BY <1>8, <1>19 DEF Reading, Others, Read
  <2>2. PICK m \in 0..n : v[m] = Read(q, x) /\ \A i \in 1..n : s[i] \in past[q] => i <= m
    BY <1>2, <2>1
  <2>3. ASSUME NEW i \in 1..(n + 1), t[i] \in past[q]
        PROVE  i # k + 1 /\ From(i) <= m
    BY <1>11, <1>13, <2>1, <2>2, <2>3
  <2>4. CASE m <= k
    <3>1. m \in 0..k /\ m \in 0..(n + 1)
      BY <1>2, <2>2, <2>4
    <3>2. ASSUME NEW i \in 1..(n + 1), t[i] \in past[q] PROVE i <= m
      <4>1. i # k + 1 /\ From(i) <= m
        BY <2>3, <3>2
      <4> QED BY <1>2, <1>5, <2>4, <4>1 DEF From
    <3> QED BY <1>6, <2>1, <2>2, <3>1, <3>2
  <2>5. CASE m > k
    <3>1. m + 1 \in (k + 2)..(n + 1) /\ m + 1 \in 0..(n + 1) /\ (m + 1) - 1 = m
      BY <1>2, <1>5, <2>2, <2>5
    <3>2. ASSUME NEW i \in 1..(n + 1), t[i] \in past[q] PROVE i <= m + 1
      <4>1. i # k + 1 /\ From(i) <= m
        BY <2>3, <3>2
      <4> QED BY <1>2, <1>5, <2>5, <4>1 DEF From
    <3> QED BY <1>6, <2>1, <2>2, <3>1, <3>2
  <2> QED BY <1>2, <1>5, <2>2, <2>4, <2>5
<1>20. Explains(x, t, w)'
  BY <1>7, <1>10, <1>14, <1>15, <1>17, <1>18, <1>19 DEF Explains
<1> QED BY <1>20 DEF Serial
-----------------------------------------------------------------------------
(* The steps.                                                              *)

\* What a request makes of a row of the pin is a row, and of each column of it
\* what it makes of that column.
LEMMA PinMade ==
    ASSUME Reads, NEW r \in Requests, pc[r] # "idle", op[r].do \in PinOps, NEW row \in PinRow
    PROVE  /\ PinWanted(r, row) \in PinRow
           /\ \A c \in Columns : PinWanted(r, row)[c] = PinAfter(r, c, row[c])
<1>1. NewPin \in PinRow /\ \A c \in Columns : c \in DOMAIN NewPin
  BY DEF NewPin, PinRow, Expected, Columns
<1>2. PICK l, m, e : row = [locked |-> l, mode |-> m, value |-> e] /\ l \in BOOLEAN
                     /\ m \in Expected(1) /\ e \in Expected(2)
  BY DEF PinRow
<1>3. CASE op[r].do = "lock"
  <2>0. PICK t \in BOOLEAN : t = TRUE
    OBVIOUS
  <2>1. PinWanted(r, row) = [row EXCEPT !.locked = t]
    BY <1>3, <2>0, Zenon DEF PinWanted
  <2>2. \A c \in Columns : PinAfter(r, c, row[c]) = IF c = "locked" THEN t ELSE row[c]
    BY <1>3, <2>0, Zenon DEF PinAfter
  <2>3. PinWanted(r, row) = [locked |-> t, mode |-> m, value |-> e]
    BY <1>2, <2>1
  <2>4. PinWanted(r, row) \in PinRow
    BY <1>2, <2>3 DEF PinRow
  <2>5. \A c \in Columns : PinWanted(r, row)[c] = IF c = "locked" THEN t ELSE row[c]
    BY <1>2, <2>3 DEF Columns
  <2> QED BY <2>2, <2>4, <2>5
<1>4. CASE op[r].do = "unlock"
  BY <1>1, <1>4 DEF PinWanted, PinAfter, Columns
<1>5. CASE op[r].do = "expect"
  <2> DEFINE a == op[r].value[1]  b == op[r].value[2]
  <2>1. op[r] \in UNION Menus
    BY DEF Reads
  <2>2. a \in Expected(1) /\ b \in Expected(2)
    BY <1>5, <2>1 DEF Expected
  <2>3. PinWanted(r, row) = [locked |-> l, mode |-> a, value |-> b]
    BY <1>2, <1>5 DEF PinWanted
  <2>4. \A c \in Columns : PinAfter(r, c, row[c]) = IF c = "mode" THEN a ELSE
                                                     IF c = "value" THEN b ELSE row[c]
    BY <1>5 DEF PinAfter
  <2> HIDE DEF a, b
  <2>5. PinWanted(r, row) \in PinRow
    BY <1>2, <2>2, <2>3 DEF PinRow
  <2> QED BY <1>2, <2>3, <2>4, <2>5 DEF Columns
<1> QED BY <1>3, <1>4, <1>5 DEF PinOps

\* A request is in one step of its own, and only when it begins does it get an
\* operation and a past.
LEMMA OneMoves ==
    ASSUME Reads, NEW r \in Requests, Do(r), menu' = menu
    PROVE  /\ Others(r) /\ ~Over(r)
           /\ pc' \in [Requests -> {"idle", "bond", "select", "commit", "step", "count", "bump",
                                    "done", "refused", "failed"}]
           /\ DOMAIN op' = Requests /\ DOMAIN seen' = Requests /\ DOMAIN past' = Requests
           /\ pc'[r] # "idle" /\ op'[r] \in menu
           /\ Begin(r) \/ UNCHANGED <<op, past>>
           /\ \A q \in past'[r] : q \in Requests \ {r} /\ Over(q)
<1>1. CASE Begin(r)
  <2>1. PICK o \in menu : /\ op' = [op EXCEPT ![r] = o]
                          /\ pc' = [pc EXCEPT ![r] = IF o.do = "unpair" THEN "bond" ELSE "select"]
    BY <1>1 DEF Begin
  <2>2. /\ past' = [past EXCEPT ![r] = {q \in Requests : Over(q)}] /\ seen' = seen
        /\ pc[r] = "idle"
    BY <1>1 DEF Begin
  <2>3. past'[r] = {q \in Requests : Over(q)} /\ ~Over(r)
    BY <2>2 DEF Reads, Over
  <2> QED BY <1>1, <2>1, <2>2, <2>3 DEF Reads, Others
<1>2. CASE ~Begin(r)
  <2>1. /\ UNCHANGED <<op, past>> /\ pc[r] # "idle" /\ ~Over(r)
        /\ seen' = seen \/ \E read : seen' = [seen EXCEPT ![r] = read]
        /\ pc' = pc \/ \E p \in {"select", "commit", "step", "count", "bump",
                                 "done", "refused", "failed"} : pc' = [pc EXCEPT ![r] = p]
    <3>1. CASE DeleteBond(r)
      BY <3>1 DEF DeleteBond, Ends, Over
    <3>2. CASE SelectNames(r) \/ SelectPin(r)
      BY <3>2 DEF SelectNames, SelectPin, Ends, Goes, Over
    <3>3. CASE CommitName(r) \/ CommitUnname(r) \/ CommitRemember(r) \/ CommitPin(r)
      BY <3>3 DEF CommitName, CommitUnname, CommitRemember, CommitPin, Ends, Over
    <3>4. CASE SelectCommand(r)
      <4>1. \/ \E how \in {"refused"} : Ends(r, how)
            \/ \E where \in {"commit", "step"}, read \in {None, cmd} : Goes(r, where, read)
        BY <3>4 DEF SelectCommand
      <4> QED BY <3>4, <4>1 DEF SelectCommand, Ends, Goes, Over
    <3>5. CASE CommitCreate(r) \/ CommitUpdate(r) \/ CommitDelete(r)
      BY <3>5 DEF CommitCreate, CommitUpdate, CommitDelete, Ends, Over
    <3>6. CASE Step(r) \/ Record(r)
      BY <3>6 DEF Step, Record, Over
    <3>7. CASE BumpRead(r) \/ BumpWrite(r)
      BY <3>7 DEF BumpRead, BumpWrite, Ends, Goes, Over
    <3> QED BY <1>2, <3>1, <3>2, <3>3, <3>4, <3>5, <3>6, <3>7 DEF Do
  <2>2. pc'[r] # "idle"
    BY <2>1 DEF Reads
  <2>3. Others(r) /\ DOMAIN seen' = Requests
    BY <2>1 DEF Reads, Others
  <2>4. \A q \in past[r] : q \in Requests \ {r} /\ Over(q)
    BY <2>1 DEF Reads
  <2> QED BY <1>2, <2>1, <2>2, <2>3, <2>4 DEF Reads
<1> QED BY <1>1, <1>2

\* Who writes the row of the pin, and who reads it.
LEMMA PinSteps ==
    ASSUME Reads, NEW r \in Requests, Do(r), UNCHANGED <<menu, first>>
    PROVE  /\ pin' \in PinRow \union {None}
           /\ pin # None => pin' # None
           /\ pc'[r] = "commit" /\ op'[r].do \in PinOps =>
                seen'[r] \in PinRow \union {None} /\ (seen'[r] # None => pin' # None)
<1>0. None \notin PinRow
  BY DatabaseAssumption
<1>1. CASE CommitPin(r)
  <2>1. /\ pc[r] = "commit" /\ op[r].do \in PinOps
        /\ seen[r] \in PinRow \union {None} /\ (seen[r] # None => pin # None)
    BY <1>1 DEF CommitPin, PinOps, Reads
  <2>2. CASE seen[r] = None
    <3>1. PinWanted(r, NewPin) \in PinRow
      <4>1. NewPin \in PinRow
        BY DEF NewPin, PinRow, Expected
      <4> QED BY <2>1, <4>1, PinMade
    <3>2. \E how \in {"failed", "done"} : Ends(r, how)
      BY <1>1, <2>2 DEF CommitPin
    <3>3. pc'[r] # "commit"
      BY <3>2 DEF Ends, Reads
    <3> QED BY <1>0, <1>1, <2>2, <3>1, <3>3 DEF CommitPin, Reads
  <2>3. CASE seen[r] # None
    <3> DEFINE w == PinWanted(r, seen[r])
    <3>1. Ends(r, "done") /\ pin' = Flushed(pin, seen[r], w)
      BY <1>1, <2>3 DEF CommitPin
    <3>2. w \in PinRow /\ pin \in PinRow
      BY <2>1, <2>3, PinMade DEF Reads
    <3> HIDE DEF w
    <3>3. Flushed(pin, seen[r], w) \in PinRow
      <4>1. pin = [locked |-> pin.locked, mode |-> pin.mode, value |-> pin.value]
            /\ pin.locked \in BOOLEAN /\ pin.mode \in Expected(1) /\ pin.value \in Expected(2)
        BY <3>2 DEF PinRow
      <4>2. w.locked \in BOOLEAN /\ w.mode \in Expected(1) /\ w.value \in Expected(2)
        BY <3>2 DEF PinRow
      <4>3. DOMAIN pin = {"locked", "mode", "value"}
        BY <4>1
      <4> DEFINE f == Flushed(pin, seen[r], w)
      <4>4. f = [c \in {"locked", "mode", "value"} |->
                   IF w[c] # seen[r][c] THEN w[c] ELSE pin[c]]
        BY <4>3 DEF Flushed
      <4>5. f = [locked |-> f.locked, mode |-> f.mode, value |-> f.value]
        BY <4>4
      <4>6. f.locked \in BOOLEAN /\ f.mode \in Expected(1) /\ f.value \in Expected(2)
        BY <4>1, <4>2, <4>4
      <4> HIDE DEF f
      <4> QED BY <4>5, <4>6 DEF PinRow, f
    <3>4. pc'[r] # "commit"
      BY <3>1 DEF Ends, Reads
    <3> QED BY <1>0, <3>1, <3>3, <3>4
  <2> QED BY <2>2, <2>3
<1>2. CASE SelectPin(r)
  <2>1. pin' = pin /\ (Ends(r, "done") \/ Goes(r, "commit", pin))
    BY <1>2 DEF SelectPin, rows
  <2>2. Ends(r, "done") => pc'[r] # "commit"
    BY DEF Ends, Reads
  <2>3. Goes(r, "commit", pin) => seen'[r] = pin
    BY DEF Goes, Reads
  <2> QED BY <2>1, <2>2, <2>3 DEF Reads
<1>3. CASE ~CommitPin(r) /\ ~SelectPin(r)
  <2>1. pin' = pin
    <3>1. CASE Begin(r) \/ DeleteBond(r) \/ SelectNames(r) \/ Step(r)
      BY <3>1 DEF Begin, DeleteBond, SelectNames, Step, rows
    <3>2. CASE CommitName(r) \/ CommitUnname(r) \/ CommitRemember(r)
      BY <3>2 DEF CommitName, CommitUnname, CommitRemember
    <3>3. CASE SelectCommand(r) \/ CommitCreate(r) \/ CommitUpdate(r) \/ CommitDelete(r)
      BY <3>3 DEF SelectCommand, CommitCreate, CommitUpdate, CommitDelete, rows
    <3>4. CASE Record(r) \/ BumpRead(r) \/ BumpWrite(r)
      BY <3>4 DEF Record, BumpRead, BumpWrite, rows
    <3> QED BY <1>3, <3>1, <3>2, <3>3, <3>4 DEF Do
  <2>2. pc'[r] # "commit" \/ op'[r].do \notin PinOps
    <3>1. CASE Begin(r)
      <4>1. PICK o \in menu : pc' = [pc EXCEPT ![r] = IF o.do = "unpair" THEN "bond" ELSE "select"]
        BY <3>1 DEF Begin
      <4> QED BY <4>1 DEF Reads
    <3>2. CASE ~Begin(r)
      <4>0. op' = op
        BY <3>2, OneMoves
      <4>1. CASE DeleteBond(r)
        BY <4>1 DEF DeleteBond, Ends, Reads
      <4>2. CASE SelectNames(r) \/ SelectCommand(r)
        BY <4>0, <4>2 DEF SelectNames, SelectCommand, PinOps
      <4>3. CASE CommitName(r) \/ CommitUnname(r) \/ CommitRemember(r)
        BY <4>0, <4>3 DEF CommitName, CommitUnname, CommitRemember, PinOps
      <4>4. CASE CommitCreate(r) \/ CommitUpdate(r) \/ CommitDelete(r)
        BY <4>0, <4>4 DEF CommitCreate, CommitUpdate, CommitDelete, PinOps
      <4>5. CASE Step(r) \/ Record(r)
        BY <4>5 DEF Step, Record, Reads
      <4>6. CASE BumpRead(r) \/ BumpWrite(r)
        BY <4>6 DEF BumpRead, BumpWrite, Ends, Goes, Reads
      <4> QED BY <1>3, <3>2, <4>1, <4>2, <4>3, <4>4, <4>5, <4>6 DEF Do
    <3> QED BY <3>1, <3>2
  <2> QED BY <2>1, <2>2 DEF Reads
<1> QED BY <1>1, <1>2, <1>3

LEMMA ReadsStep == Reads /\ [DatabaseNext]_databaseVars => Reads'
<1> SUFFICES ASSUME Reads, [DatabaseNext]_databaseVars PROVE Reads'
  OBVIOUS
<1>1. CASE UNCHANGED databaseVars
  BY <1>1 DEF databaseVars, rows, Reads, Over
<1>2. ASSUME NEW r \in Requests, Do(r), UNCHANGED <<menu, first>> PROVE Reads'
  <2>1. /\ Others(r) /\ ~Over(r)
        /\ pc' \in [Requests -> {"idle", "bond", "select", "commit", "step", "count", "bump",
                                 "done", "refused", "failed"}]
        /\ DOMAIN op' = Requests /\ DOMAIN seen' = Requests /\ DOMAIN past' = Requests
        /\ pc'[r] # "idle" /\ op'[r] \in menu
        /\ \A q \in past'[r] : q \in Requests \ {r} /\ Over(q)
    BY <1>2, OneMoves
  <2>2. /\ pin' \in PinRow \union {None}
        /\ pin # None => pin' # None
        /\ pc'[r] = "commit" /\ op'[r].do \in PinOps =>
             seen'[r] \in PinRow \union {None} /\ (seen'[r] # None => pin' # None)
    BY <1>2, PinSteps
  <2>3. DOMAIN names' = Macs
    <3>1. names' = names \/ CommitName(r) \/ CommitUnname(r) \/ CommitRemember(r)
      BY <1>2 DEF Do, Begin, DeleteBond, SelectNames, SelectPin, CommitPin, SelectCommand,
        CommitCreate, CommitUpdate, CommitDelete, Step, Record, BumpRead, BumpWrite, rows
    <3> QED BY <3>1 DEF CommitName, CommitUnname, CommitRemember, Reads
  <2>4. ASSUME NEW q \in Requests
        PROVE  /\ pc'[q] # "idle" => op'[q] \in menu
               /\ \A p \in past'[q] : p \in Requests /\ Over(p)'
               /\ pc'[q] = "commit" /\ op'[q].do \in PinOps =>
                    seen'[q] \in PinRow \union {None} /\ (seen'[q] # None => pin' # None)
    <3>1. \A p \in Requests : Over(p) => Over(p)'
      BY <2>1 DEF Over, Others
    <3>2. past'[q] \subseteq {p \in past'[q] : p \in Requests /\ Over(p)}
      BY <2>1 DEF Reads, Others
    <3> QED BY <2>1, <2>2, <3>1, <3>2 DEF Reads, Others
  <2> QED BY <1>2, <2>1, <2>2, <2>3, <2>4 DEF Reads
<1> QED BY <1>1, <1>2 DEF DatabaseNext

\* CellKept and CellWritten, of the steps of the specification.
LEMMA CellStays ==
    ASSUME Reads, NEW r \in Requests, Do(r), UNCHANGED <<menu, first>>,
           NEW x \in Cells, Serial(x), Cell(x)' = Cell(x),
           \/ ~Touches(r, x)'
           \/ pc'[r] \notin {"done", "commit"}
           \/ pc'[r] = "commit" /\ Read(r, x)' = Cell(x)
    PROVE  Serial(x)'
<1>1. Others(r) /\ pc[r] # "done"
  BY OneMoves DEF Over
<1>2. Origin(x)' = Origin(x)
  BY DEF Origin, Said
<1> QED BY <1>1, <1>2, CellKept

LEMMA CellMade ==
    ASSUME Reads, NEW r \in Requests, Do(r), ~Begin(r), UNCHANGED <<menu, first>>,
           NEW x \in Cells, Serial(x), pc'[r] = "done", Touches(r, x),
           \/ Cell(x)' = After(r, x, Cell(x))
           \/ pc[r] = "commit" /\ Cell(x)' = Cell(x) /\ After(r, x, Read(r, x)) = Read(r, x)
    PROVE  Serial(x)'
<1>1. Others(r) /\ pc[r] # "done" /\ UNCHANGED <<op, past>>
  BY OneMoves DEF Over
<1>2. Origin(x)' = Origin(x)
  BY DEF Origin, Said
<1>3. \A q \in Requests : r \notin past[q]
  BY OneMoves DEF Reads
<1>4. pc[r] = "commit" => r \in Reading(x)
  BY DEF Reading
<1> QED BY <1>1, <1>2, <1>3, <1>4, CellWritten

\* Requests about names.
LEMMA NameSteps ==
    ASSUME Reads, NEW r \in Requests, Do(r), UNCHANGED <<menu, first>>,
           SelectNames(r) \/ CommitName(r) \/ CommitUnname(r) \/ CommitRemember(r),
           NEW x \in Cells, Serial(x)
    PROVE  Serial(x)'
<1>0. ~Begin(r) /\ op' = op /\ pc[r] \in {"select", "commit"} /\ pin' = pin /\ op[r].do \in NameOps
  <2>1. pc[r] \in {"select", "commit"} /\ pin' = pin /\ op[r].do \in NameOps
    BY DEF SelectNames, CommitName, CommitUnname, CommitRemember, rows, NameOps
  <2>2. ~Begin(r)
    BY <2>1 DEF Begin
  <2> QED BY <2>1, <2>2, OneMoves
<1>1. /\ x[1] = "name" => x[2] \in Macs /\ Cell(x) = names[x[2]] /\ Cell(x)' = names'[x[2]]
                          /\ Read(r, x) = seen[r][x[2]] /\ Read(r, x)' = seen'[r][x[2]]
                          /\ \A u : After(r, x, u) = NameAfter(r, x[2], u)
                          /\ (Touches(r, x)' <=> x[2] \in op[r].macs)
                          /\ (Touches(r, x) <=> x[2] \in op[r].macs)
      /\ x[1] # "name" => ~Touches(r, x)' /\ Cell(x)' = Cell(x)
  BY <1>0 DEF Cells, Cell, Read, After, Touches, NameOps, PinOps, Said
<1>2. \A p : Ends(r, p) => pc'[r] = p
  BY DEF Ends, Reads
<1>3. CASE x[1] # "name"
  BY <1>1, <1>3, CellStays
<1>4. ASSUME x[1] = "name", SelectNames(r) PROVE Serial(x)'
  <2> DEFINE read == [m \in op[r].macs |-> names[m]]
  <2>1. names' = names
    BY <1>4 DEF SelectNames, rows
  <2>2. CASE op[r].do \in {"unname", "unpair"} /\ \A m \in op[r].macs : read[m] = None
    <3>1. pc'[r] = "done"
      BY <1>2, <1>4, <2>2 DEF SelectNames
    <3>2. CASE x[2] \in op[r].macs
      <4>1. names[x[2]] = None
        BY <2>2, <3>2
      <4>2. After(r, x, Cell(x)) = None
        BY <1>1, <1>4, <2>2 DEF NameAfter
      <4> QED BY <1>0, <1>1, <1>4, <2>1, <3>1, <3>2, <4>1, <4>2, CellMade
    <3>3. CASE x[2] \notin op[r].macs
      BY <1>1, <1>4, <2>1, <3>3, CellStays
    <3> QED BY <3>2, <3>3
  <2>3. CASE ~(op[r].do \in {"unname", "unpair"} /\ \A m \in op[r].macs : read[m] = None)
    <3>1. Goes(r, "commit", read)
      BY <1>4, <2>3 DEF SelectNames
    <3>2. pc'[r] = "commit" /\ seen'[r] = read
      BY <3>1 DEF Goes, Reads
    <3>3. x[2] \in op[r].macs => Read(r, x)' = Cell(x)
      BY <1>1, <1>4, <3>2
    <3> QED BY <1>1, <1>4, <2>1, <3>2, <3>3, CellStays
  <2> QED BY <2>2, <2>3
<1>5. ASSUME x[1] = "name", CommitName(r) PROVE Serial(x)'
  <2>1. PICK m \in Macs : op[r].macs = {m}
    <3>1. op[r] \in UNION Menus /\ op[r].do = "name"
      BY <1>0, <1>5 DEF Reads, CommitName
    <3>2. \A o \in UNION Menus : o.do = "name" => \E m \in Macs : o.macs = {m}
      BY DatabaseAssumption, Zenon
    <3> QED BY <3>1, <3>2, Zenon
  <2>2. CASE pc'[r] = "failed"
    <3>1. names' = names
      BY <1>2, <1>5, <2>2 DEF CommitName
    <3> QED BY <1>1, <1>5, <2>2, <3>1, CellStays
  <2>3. CASE pc'[r] # "failed"
    <3>1. Ends(r, "done") /\ names' = [names EXCEPT ![m] =
                                   IF op[r].value # seen[r][m] THEN op[r].value ELSE @]
      BY <1>2, <1>5, <2>1, <2>3 DEF CommitName
    <3>2. pc'[r] = "done" /\ pc[r] = "commit"
      BY <1>2, <1>5, <3>1 DEF CommitName
    <3>3. CASE x[2] # m
      BY <1>1, <1>5, <2>1, <3>1, <3>3, CellStays DEF Reads
    <3>4. CASE x[2] = m
      <4>1. \A u : After(r, x, u) = op[r].value
        BY <1>1, <1>5 DEF NameAfter, CommitName
      <4>2. names'[m] = IF op[r].value # seen[r][m] THEN op[r].value ELSE names[m]
        BY <3>1 DEF Reads
      <4>3. Touches(r, x)
        BY <1>1, <1>5, <2>1, <3>4
      <4>4. \/ Cell(x)' = After(r, x, Cell(x))
            \/ Cell(x)' = Cell(x) /\ After(r, x, Read(r, x)) = Read(r, x)
        BY <1>1, <1>5, <3>4, <4>1, <4>2
      <4> QED BY <1>0, <3>2, <4>3, <4>4, CellMade
    <3> QED BY <3>3, <3>4
  <2> QED BY <2>2, <2>3
<1>6. ASSUME x[1] = "name", CommitUnname(r) PROVE Serial(x)'
  <2>1. pc'[r] = "done" /\ op[r].do \in {"unname", "unpair"}
        /\ names' = [m \in Macs |-> IF m \in op[r].macs THEN None ELSE names[m]]
    BY <1>2, <1>6 DEF CommitUnname
  <2>2. CASE x[2] \in op[r].macs
    <3>1. After(r, x, Cell(x)) = None
      BY <1>1, <1>6, <2>1 DEF NameAfter
    <3>2. Cell(x)' = None
      BY <1>1, <1>6, <2>1, <2>2
    <3> QED BY <1>0, <1>1, <1>6, <2>1, <2>2, <3>1, <3>2, CellMade
  <2>3. CASE x[2] \notin op[r].macs
    BY <1>1, <1>6, <2>1, <2>3, CellStays
  <2> QED BY <2>2, <2>3
<1>7. ASSUME x[1] = "name", CommitRemember(r) PROVE Serial(x)'
  <2> DEFINE new == {m \in op[r].macs : seen[r][m] = None}
  <2>1. pc[r] = "commit" /\ op[r].do = "remember"
    BY <1>7 DEF CommitRemember
  <2>2. CASE \E m \in new : names[m] # None
    <3>1. Ends(r, "failed") /\ names' = names
      BY <1>7, <2>2 DEF CommitRemember
    <3> QED BY <1>1, <1>2, <1>7, <3>1, CellStays
  <2>3. CASE \A m \in new : names[m] = None
    <3>1. Ends(r, "done") /\ names' = [m \in Macs |-> IF m \in new THEN m ELSE names[m]]
      BY <1>7, <2>3 DEF CommitRemember
    <3>2. pc'[r] = "done"
      BY <1>2, <3>1
    <3>3. \A u : After(r, x, u) = IF u = None THEN x[2] ELSE u
      BY <1>1, <1>7, <2>1 DEF NameAfter
    <3>4. CASE x[2] \notin op[r].macs
      BY <1>1, <1>7, <3>1, <3>4, CellStays
    <3>5. CASE x[2] \in op[r].macs
      <4>1. \/ Cell(x)' = After(r, x, Cell(x))
            \/ Cell(x)' = Cell(x) /\ After(r, x, Read(r, x)) = Read(r, x)
        BY <1>1, <1>7, <2>3, <3>1, <3>3, <3>5
      <4> QED BY <1>0, <1>1, <1>7, <2>1, <3>2, <3>5, <4>1, CellMade
    <3> QED BY <3>4, <3>5
  <2> QED BY <2>2, <2>3
<1> QED BY <1>3, <1>4, <1>5, <1>6, <1>7

\* Requests about the pin.
LEMMA RowSteps ==
    ASSUME Reads, NEW r \in Requests, Do(r), UNCHANGED <<menu, first>>,
           SelectPin(r) \/ CommitPin(r), NEW x \in Cells, Serial(x)
    PROVE  Serial(x)'
<1>0. ~Begin(r) /\ op' = op /\ pc[r] \in {"select", "commit"} /\ names' = names /\ op[r].do \in PinOps
  <2>1. pc[r] \in {"select", "commit"} /\ names' = names /\ op[r].do \in PinOps
    BY DEF SelectPin, CommitPin, rows, PinOps
  <2>2. ~Begin(r)
    BY <2>1 DEF Begin
  <2> QED BY <2>1, <2>2, OneMoves
<1>1. /\ x[1] = "name" => ~Touches(r, x)' /\ Cell(x)' = Cell(x)
      /\ x[1] # "name" => x[2] \in Columns /\ Cell(x) = Said(pin)[x[2]] /\ Cell(x)' = Said(pin')[x[2]]
                          /\ Read(r, x) = Said(seen[r])[x[2]] /\ Read(r, x)' = Said(seen'[r])[x[2]]
                          /\ \A u : After(r, x, u) = PinAfter(r, x[2], u)
                          /\ Touches(r, x)' /\ Touches(r, x)
  BY <1>0 DEF Cells, Cell, Read, After, Touches, NameOps, PinOps, Said
<1>2. \A p : Ends(r, p) => pc'[r] = p
  BY DEF Ends, Reads
<1>3. NewPin \in PinRow /\ None \notin PinRow
  BY DatabaseAssumption DEF NewPin, PinRow, Expected
<1>4. CASE x[1] = "name"
  BY <1>1, <1>4, CellStays
<1>5. ASSUME x[1] # "name", SelectPin(r) PROVE Serial(x)'
  <2>1. pin' = pin
    BY <1>5 DEF SelectPin, rows
  <2>2. CASE op[r].do = "unlock" /\ pin = None
    <3>1. pc'[r] = "done"
      BY <1>2, <1>5, <2>2 DEF SelectPin
    <3>2. Cell(x)' = After(r, x, Cell(x))
      BY <1>1, <1>5, <2>1, <2>2 DEF PinAfter, Said
    <3> QED BY <1>0, <1>1, <1>5, <3>1, <3>2, CellMade
  <2>3. CASE ~(op[r].do = "unlock" /\ pin = None)
    <3>1. Goes(r, "commit", pin)
      BY <1>5, <2>3 DEF SelectPin
    <3>2. pc'[r] = "commit" /\ seen'[r] = pin
      BY <3>1 DEF Goes, Reads
    <3> QED BY <1>1, <1>5, <2>1, <3>2, CellStays
  <2> QED BY <2>2, <2>3
<1>6. ASSUME x[1] # "name", CommitPin(r) PROVE Serial(x)'
  <2>1. pc[r] = "commit" /\ seen[r] \in PinRow \union {None} /\ (seen[r] # None => pin # None)
    BY <1>0, <1>6 DEF CommitPin, Reads
  <2>2. CASE seen[r] = None /\ pin # None
    <3>1. Ends(r, "failed") /\ pin' = pin
      BY <1>6, <2>2 DEF CommitPin
    <3> QED BY <1>1, <1>2, <1>6, <3>1, CellStays
  <2>3. CASE seen[r] = None /\ pin = None
    <3>1. Ends(r, "done") /\ pin' = PinWanted(r, NewPin)
      BY <1>6, <2>3 DEF CommitPin
    <3>2. pin' \in PinRow /\ pin'[x[2]] = PinAfter(r, x[2], NewPin[x[2]])
      BY <1>0, <1>1, <1>3, <1>6, <2>1, <3>1, PinMade
    <3>3. Cell(x)' = After(r, x, Cell(x))
      BY <1>1, <1>3, <1>6, <2>3, <3>2 DEF Said
    <3> QED BY <1>0, <1>1, <1>2, <1>6, <3>1, <3>3, CellMade
  <2>4. CASE seen[r] # None
    <3> DEFINE c == x[2]  w == PinWanted(r, seen[r])
    <3>1. Ends(r, "done") /\ pin' = Flushed(pin, seen[r], w)
      BY <1>6, <2>4 DEF CommitPin
    <3>2. /\ seen[r] \in PinRow /\ pin \in PinRow /\ pin # None /\ pin' # None
          /\ w[c] = PinAfter(r, c, seen[r][c])
      BY <1>0, <1>1, <1>6, <2>1, <2>4, PinMade, PinSteps DEF Reads
    <3>3. c \in DOMAIN pin
      BY <1>1, <1>6, <3>2 DEF PinRow, Columns
    <3>4. pin'[c] = IF w[c] # seen[r][c] THEN w[c] ELSE pin[c]
      BY <3>1, <3>3 DEF Flushed
    <3>5. /\ Cell(x) = pin[c] /\ Cell(x)' = pin'[c] /\ Read(r, x) = seen[r][c]
          /\ After(r, x, Cell(x)) = PinAfter(r, c, pin[c])
          /\ After(r, x, Read(r, x)) = w[c]
      BY <1>1, <1>6, <2>4, <3>2 DEF Said
    <3>6. w[c] # seen[r][c] => PinAfter(r, c, pin[c]) = w[c]
      BY <1>0, <3>2 DEF PinAfter, PinOps
    <3>7. \/ Cell(x)' = After(r, x, Cell(x))
          \/ Cell(x)' = Cell(x) /\ After(r, x, Read(r, x)) = Read(r, x)
      BY <3>4, <3>5, <3>6
    <3>8. pc'[r] = "done"
      BY <1>2, <3>1
    <3> QED BY <1>0, <1>1, <1>6, <2>1, <3>7, <3>8, CellMade
  <2> QED BY <2>2, <2>3, <2>4
<1> QED BY <1>4, <1>5, <1>6

LEMMA SerialStep ==
    ASSUME Sessions, Reads, [DatabaseNext]_databaseVars, NEW x \in Cells, Serial(x)
    PROVE  Serial(x)'
<1>1. CASE UNCHANGED databaseVars
  <2>1. /\ Cell(x)' = Cell(x) /\ Origin(x)' = Origin(x) /\ past' = past
        /\ Written(x)' = Written(x) /\ Reading(x)' = Reading(x)
        /\ \A q : Read(q, x)' = Read(q, x)
        /\ \A q, u : After(q, x, u)' = After(q, x, u)
    <3>1. UNCHANGED <<names, pin, first, past, pc, op, seen>>
      BY <1>1 DEF databaseVars, rows
    <3>2. Cell(x)' = Cell(x) /\ Origin(x)' = Origin(x)
      BY <3>1 DEF Cell, Origin, Said
    <3>3. Written(x)' = Written(x) /\ Reading(x)' = Reading(x)
      BY <3>1 DEF Written, Reading, Touches
    <3>4. \A q : Read(q, x)' = Read(q, x)
      BY <3>1 DEF Read, Said
    <3>5. \A q, u : After(q, x, u)' = After(q, x, u)
      BY <3>1 DEF After, NameAfter, PinAfter
    <3> QED BY <3>1, <3>2, <3>3, <3>4, <3>5
  <2>2. PICK s, v : Explains(x, s, v)
    BY DEF Serial
  <2>3. Explains(x, s, v)'
    BY <2>1, <2>2 DEF Explains
  <2> QED BY <2>3 DEF Serial
<1>2. ASSUME NEW r \in Requests, Do(r), UNCHANGED <<menu, first>> PROVE Serial(x)'
  <2>1. CASE SelectNames(r) \/ CommitName(r) \/ CommitUnname(r) \/ CommitRemember(r)
    BY <1>2, <2>1, NameSteps
  <2>2. CASE SelectPin(r) \/ CommitPin(r)
    BY <1>2, <2>2, RowSteps
  <2>3. CASE Begin(r) \/ DeleteBond(r) \/ SelectCommand(r) \/ CommitCreate(r) \/ CommitUpdate(r)
             \/ CommitDelete(r) \/ Step(r) \/ Record(r) \/ BumpRead(r) \/ BumpWrite(r)
    <3>1. names' = names /\ pin' = pin
      <4>1. CASE Begin(r) \/ DeleteBond(r) \/ SelectCommand(r) \/ CommitCreate(r)
        BY <4>1 DEF Begin, DeleteBond, SelectCommand, CommitCreate, rows
      <4>2. CASE CommitUpdate(r) \/ CommitDelete(r) \/ Step(r)
        BY <4>2 DEF CommitUpdate, CommitDelete, Step, rows
      <4>3. CASE Record(r) \/ BumpRead(r) \/ BumpWrite(r)
        BY <4>3 DEF Record, BumpRead, BumpWrite, rows
      <4> QED BY <2>3, <4>1, <4>2, <4>3
    <3>2. Cell(x)' = Cell(x)
      BY <3>1 DEF Cell, Said
    <3>3. CASE Begin(r)
      <4>1. PICK o \in menu : pc' = [pc EXCEPT ![r] = IF o.do = "unpair" THEN "bond" ELSE "select"]
        BY <3>3 DEF Begin
      <4>2. pc'[r] \notin {"done", "commit"}
        BY <4>1 DEF Reads
      <4> QED BY <1>2, <3>2, <4>2, CellStays
    <3>4. CASE DeleteBond(r)
      <4>1. pc'[r] \notin {"done", "commit"}
        BY <3>4 DEF DeleteBond, Ends, Reads
      <4> QED BY <1>2, <3>2, <4>1, CellStays
    <3>5. CASE ~Begin(r) /\ ~DeleteBond(r)
      <4>1. op[r].do \in {"create", "update", "delete", "execute"} /\ op' = op
        <5>1. CASE SelectCommand(r) \/ CommitCreate(r) \/ CommitUpdate(r) \/ CommitDelete(r)
          BY <1>2, <3>5, <5>1, OneMoves DEF SelectCommand, CommitCreate, CommitUpdate, CommitDelete
        <5>2. CASE Step(r) \/ Record(r) \/ BumpRead(r) \/ BumpWrite(r)
          <6>1. pc[r] \in {"step", "count", "bump"}
            BY <5>2 DEF Step, Record, BumpRead, BumpWrite
          <6> QED BY <1>2, <3>5, <6>1, OneMoves DEF Sessions, Counting
        <5> QED BY <2>3, <3>5, <5>1, <5>2
      <4>2. ~Touches(r, x)'
        BY <4>1 DEF Touches, NameOps, PinOps
      <4> QED BY <1>2, <3>2, <4>2, CellStays
    <3> QED BY <3>3, <3>4, <3>5
  <2> QED BY <1>2, <2>1, <2>2, <2>3 DEF Do
<1> QED BY <1>1, <1>2 DEF DatabaseNext

-----------------------------------------------------------------------------
(* Folding the requests of an order.  FoldLeft is defined with a recursive *)
(* function on sets of positions; its value on 1..k is what the first k    *)
(* make of the base.                                                       *)

\* A set of naturals that contains 0 and the successor of each of its members
\* contains every natural: no least one is missing.
LEMMA Induction ==
    ASSUME NEW S, 0 \in S, \A n \in Nat : n \in S => n + 1 \in S
    PROVE  Nat \subseteq S
<1> SUFFICES ASSUME Nat \ S # {} PROVE FALSE
  OBVIOUS
<1> DEFINE T == Nat \ S
<1>1. PICK m \in T : \A k \in T : ~ (<<k, m>> \in OpToRel(<, Nat))
  <2>1. T \subseteq Nat /\ T # {}
    OBVIOUS
  <2> HIDE DEF T
  <2> QED BY <2>1, NatLessThanWellFounded, WFMin
<1>2. m \in Nat /\ m - 1 \in Nat /\ m - 1 < m /\ (m - 1) + 1 = m
  OBVIOUS
<1>3. <<m - 1, m>> \in OpToRel(<, Nat)
  BY <1>2 DEF OpToRel
<1>4. m - 1 \in S
  BY <1>1, <1>2, <1>3
<1> QED BY <1>1, <1>2, <1>4
\* What is folded for the cell x: names, or rows of the pin.
Made(x, r, value) == IF x[1] = "name" THEN NameAfter(r, x[2], value) ELSE PinWanted(r, value)

\* The function on the sets of positions of s, by which FoldLeft is defined.
IsFold(g, n, s, x, base) ==
    g = [T \in SUBSET (1..n) |->
            IF T = {} THEN base ELSE Made(x, s[Max(T)], g[T \ {Max(T)}])]

LEMMA MaxOfInterval ==
    ASSUME NEW n \in Nat, NEW T \in SUBSET (1..n), n \in T
    PROVE  Max(T) = n
<1>1. n \in T /\ \A y \in T : n >= y
  OBVIOUS
<1>2. \A x \in T : (\A y \in T : x >= y) => x = n
  OBVIOUS
<1> QED BY <1>1, <1>2 DEF Max

LEMMA FoldExists ==
    ASSUME NEW x, NEW base, NEW s
    PROVE  \A n \in Nat : \E g : IsFold(g, n, s, x, base)
<1> DEFINE S == {n \in Nat : \E g : IsFold(g, n, s, x, base)}
<1>1. 0 \in S
  <2> DEFINE g == [T \in SUBSET (1..0) |-> base]
  <2>1. \A T \in SUBSET (1..0) : T = {}
    OBVIOUS
  <2>2. g = [T \in SUBSET (1..0) |-> IF T = {} THEN base ELSE Made(x, s[Max(T)], g[T \ {Max(T)}])]
    BY <2>1
  <2> QED BY <2>2 DEF IsFold
<1>2. ASSUME NEW n \in Nat, n \in S PROVE n + 1 \in S
  <2>1. PICK g : IsFold(g, n, s, x, base)
    BY <1>2
  <2> DEFINE h == [T \in SUBSET (1..(n + 1)) |->
                     IF n + 1 \in T THEN Made(x, s[n + 1], g[T \ {n + 1}]) ELSE g[T]]
             v(T) == IF T = {} THEN base ELSE Made(x, s[Max(T)], h[T \ {Max(T)}])
  <2>2. \A T \in SUBSET (1..n) : /\ g[T] = IF T = {} THEN base ELSE Made(x, s[Max(T)], g[T \ {Max(T)}])
                                 /\ T \in SUBSET (1..(n + 1)) /\ n + 1 \notin T
                                 /\ h[T] = g[T]
    <3>1. \A T \in SUBSET (1..n) : g[T] = IF T = {} THEN base ELSE Made(x, s[Max(T)], g[T \ {Max(T)}])
      BY <2>1 DEF IsFold
    <3>2. \A T \in SUBSET (1..n) : T \in SUBSET (1..(n + 1)) /\ n + 1 \notin T
      OBVIOUS
    <3> QED BY <3>1, <3>2
  <2>3. ASSUME NEW T \in SUBSET (1..(n + 1)) PROVE h[T] = v(T)
    <3>1. CASE n + 1 \in T
      <4>1. Max(T) = n + 1 /\ T # {}
        BY <3>1, MaxOfInterval
      <4>2. T \ {n + 1} \in SUBSET (1..n)
        OBVIOUS
      <4>3. h[T \ {n + 1}] = g[T \ {n + 1}]
        BY <2>2, <4>2
      <4> HIDE DEF h
      <4>4. v(T) = Made(x, s[n + 1], g[T \ {n + 1}])
        BY <4>1, <4>3
      <4> QED BY <3>1, <4>4 DEF h
    <3>2. CASE n + 1 \notin T
      <4>1. T \in SUBSET (1..n)
        BY <3>2
      <4>2. T \ {Max(T)} \in SUBSET (1..n)
        BY <4>1
      <4>3. h[T] = g[T] /\ h[T \ {Max(T)}] = g[T \ {Max(T)}]
        BY <2>2, <4>1, <4>2
      <4> HIDE DEF h
      <4> QED BY <2>2, <4>1, <4>3
    <3> QED BY <3>1, <3>2
  <2>4. h = [T \in SUBSET (1..(n + 1)) |-> v(T)]
    BY <2>3
  <2>5. IsFold(h, n + 1, s, x, base)
    BY <2>4 DEF IsFold
  <2> QED BY <2>5
<1> HIDE DEF S
<1>3. Nat \subseteq S
  BY <1>1, <1>2, Induction
<1> QED BY <1>3 DEF S


\* Its values on 1..k.
LEMMA FoldSteps ==
    ASSUME NEW n \in Nat, NEW s, NEW x, NEW base, NEW g, IsFold(g, n, s, x, base)
    PROVE  g[1..0] = base /\ \A k \in 1..n : g[1..k] = Made(x, s[k], g[1..(k - 1)])
<1>1. g[1..0] = base
  <2>1. 1..0 = {} /\ {} \in SUBSET (1..n)
    OBVIOUS
  <2> QED BY <2>1 DEF IsFold
<1>2. ASSUME NEW k \in 1..n PROVE g[1..k] = Made(x, s[k], g[1..(k - 1)])
  <2>1. 1..k \in SUBSET (1..n) /\ 1..k # {} /\ k \in Nat /\ k \in 1..k /\ 1..k \in SUBSET (1..k)
    OBVIOUS
  <2>2. Max(1..k) = k
    BY <2>1, MaxOfInterval
  <2>3. (1..k) \ {k} = 1..(k - 1)
    BY <2>1
  <2>4. g[1..k] = Made(x, s[Max(1..k)], g[(1..k) \ {Max(1..k)}])
    BY <2>1 DEF IsFold
  <2> QED BY <2>2, <2>3, <2>4
<1> QED BY <1>1, <1>2

\* The fold of names is the last of the values that Explains speaks of.
LEMMA NameFold ==
    ASSUME NEW m, NEW base, NEW s \in Seq(Requests), NEW v, v[0] = base,
           \A i \in 1..Len(s) : v[i] = NameAfter(s[i], m, v[i - 1])
    PROVE  NameOf(m, base, s) = v[Len(s)]
<1> DEFINE n == Len(s)  x == <<"name", m>>
           F(h) == [T \in SUBSET (1..n) |->
                      IF T = {} THEN base ELSE NameAfter(s[Max(T)], m, h[T \ {Max(T)}])]
           g == CHOOSE h : h = F(h)
<1>1. n \in Nat /\ DOMAIN s = 1..n
  OBVIOUS
<1>2. NameOf(m, base, s) = g[1..n]
  BY <1>1 DEF NameOf, FoldLeft, MapThenFoldSet
<1>3. \A r, u : Made(x, r, u) = NameAfter(r, m, u)
  BY DEF Made
<1>4. ASSUME NEW h PROVE IsFold(h, n, s, x, base) <=> h = F(h)
  <2> DEFINE G == [T \in SUBSET (1..n) |->
                     IF T = {} THEN base ELSE Made(x, s[Max(T)], h[T \ {Max(T)}])]
  <2>1. \A T \in SUBSET (1..n) : G[T] = F(h)[T]
    BY <1>3
  <2>2. G = F(h)
    BY <2>1
  <2> QED BY <2>2 DEF IsFold
<1>5. g = F(g)
  <2>1. \E h : h = F(h)
    BY <1>1, <1>4, FoldExists
  <2> HIDE DEF F
  <2> QED BY <2>1
<1>6. IsFold(g, n, s, x, base)
  BY <1>4, <1>5
<1> HIDE DEF F, g, x
<1>7. g[1..0] = base /\ \A k \in 1..n : g[1..k] = NameAfter(s[k], m, g[1..(k - 1)])
  <2>1. g[1..0] = base /\ \A k \in 1..n : g[1..k] = Made(x, s[k], g[1..(k - 1)])
    BY <1>1, <1>6, FoldSteps
  <2> QED BY <1>3, <2>1
<1> DEFINE S == {k \in Nat : k <= n => g[1..k] = v[k]}
<1>8. 0 \in S
  BY <1>7
<1>9. ASSUME NEW k \in Nat, k \in S PROVE k + 1 \in S
  <2> SUFFICES ASSUME k + 1 <= n PROVE g[1..(k + 1)] = v[k + 1]
    OBVIOUS
  <2>1. k + 1 \in 1..n /\ k <= n /\ (k + 1) - 1 = k
    BY <1>1
  <2> QED BY <1>7, <1>9, <2>1
<1> HIDE DEF S
<1>10. Nat \subseteq S
  BY <1>8, <1>9, Induction
<1> QED BY <1>1, <1>2, <1>10 DEF S

\* And so is every column of the fold of rows of the pin.
LEMMA PinFold ==
    ASSUME Reads, NEW c \in Columns, NEW base \in PinRow, NEW s \in Seq(Requests), NEW v,
           \A i \in 1..Len(s) : pc[s[i]] # "idle" /\ op[s[i]].do \in PinOps,
           v[0] = base[c], \A i \in 1..Len(s) : v[i] = PinAfter(s[i], c, v[i - 1])
    PROVE  PinOf(base, s)[c] = v[Len(s)]
<1> DEFINE n == Len(s)  x == <<"pin", c>>
           F(h) == [T \in SUBSET (1..n) |->
                      IF T = {} THEN base ELSE PinWanted(s[Max(T)], h[T \ {Max(T)}])]
           g == CHOOSE h : h = F(h)
<1>1. n \in Nat /\ DOMAIN s = 1..n /\ \A i \in 1..n : s[i] \in Requests
  OBVIOUS
<1>2. PinOf(base, s) = g[1..n]
  BY <1>1 DEF PinOf, FoldLeft, MapThenFoldSet
<1>3. \A r, u : Made(x, r, u) = PinWanted(r, u)
  BY DEF Made
<1>4. ASSUME NEW h PROVE IsFold(h, n, s, x, base) <=> h = F(h)
  <2> DEFINE G == [T \in SUBSET (1..n) |->
                     IF T = {} THEN base ELSE Made(x, s[Max(T)], h[T \ {Max(T)}])]
  <2>1. \A T \in SUBSET (1..n) : G[T] = F(h)[T]
    BY <1>3
  <2>2. G = F(h)
    BY <2>1
  <2> QED BY <2>2 DEF IsFold
<1>5. g = F(g)
  <2>1. \E h : h = F(h)
    BY <1>1, <1>4, FoldExists
  <2> HIDE DEF F
  <2> QED BY <2>1
<1>6. IsFold(g, n, s, x, base)
  BY <1>4, <1>5
<1> HIDE DEF F, g, x
<1>7. g[1..0] = base /\ \A k \in 1..n : g[1..k] = PinWanted(s[k], g[1..(k - 1)])
  <2>1. g[1..0] = base /\ \A k \in 1..n : g[1..k] = Made(x, s[k], g[1..(k - 1)])
    BY <1>1, <1>6, FoldSteps
  <2> QED BY <1>3, <2>1
<1> DEFINE S == {k \in Nat : k <= n => g[1..k] \in PinRow /\ g[1..k][c] = v[k]}
<1>8. 0 \in S
  BY <1>7
<1>9. ASSUME NEW k \in Nat, k \in S PROVE k + 1 \in S
  <2> SUFFICES ASSUME k + 1 <= n PROVE g[1..(k + 1)] \in PinRow /\ g[1..(k + 1)][c] = v[k + 1]
    OBVIOUS
  <2>1. k + 1 \in 1..n /\ k <= n /\ (k + 1) - 1 = k
    BY <1>1
  <2>2. /\ g[1..(k + 1)] = PinWanted(s[k + 1], g[1..k]) /\ v[k + 1] = PinAfter(s[k + 1], c, v[k])
        /\ g[1..k] \in PinRow /\ g[1..k][c] = v[k]
        /\ s[k + 1] \in Requests /\ pc[s[k + 1]] # "idle" /\ op[s[k + 1]].do \in PinOps
    BY <1>1, <1>7, <1>9, <2>1
  <2> QED BY <2>2, PinMade
<1> HIDE DEF S
<1>10. Nat \subseteq S
  BY <1>8, <1>9, Induction
<1> QED BY <1>1, <1>2, <1>10 DEF S

\* An order of Explains is one of Orders.
LEMMA InOrders ==
    ASSUME NEW W, NEW s \in Seq(W), {s[i] : i \in 1..Len(s)} = W,
           \A i, j \in 1..Len(s) : s[i] = s[j] => i = j,
           \A i, j \in 1..Len(s) : s[i] \in past[s[j]] => i < j
    PROVE  s \in Orders(W)
<1> DEFINE n == Len(s)
<1>1. n \in Nat /\ s \in [1..n -> W]
  OBVIOUS
<1>2. s \in Bijection(1..n, W)
  <2>1. \A w \in W : \E i \in 1..n : s[i] = w
    OBVIOUS
  <2> QED BY <1>1, <2>1 DEF Bijection, Injection, Surjection, IsInjective
<1>3. Cardinality(W) = n
  BY <1>1, <1>2, FS_CountingElements DEF ExistsBijection
<1>4. s \in SetToSeqs(W)
  BY <1>1, <1>3 DEF SetToSeqs
<1> QED BY <1>4 DEF Orders

LEMMA SerialRows == ASSUME SerialInv PROVE RowsSerial
<1>1. ASSUME NEW m \in Macs
      PROVE  LET rs == {r \in Successful({"name", "unname", "unpair", "remember"}) :
                          m \in op[r].macs}
             IN  \E s \in Orders(rs) :
                   NameOf(m, first.names[m], s) = names[m]
  <2> DEFINE x == <<"name", m>>  W == Written(x)
  <2>1. W = {r \in Successful({"name", "unname", "unpair", "remember"}) : m \in op[r].macs}
    BY DEF Written, Touches, Successful, NameOps
  <2>2. Serial(x) /\ Origin(x) = first.names[m] /\ Cell(x) = names[m]
        /\ \A r, u : After(r, x, u) = NameAfter(r, m, u)
    BY DEF SerialInv, Cells, Origin, Cell, After
  <2> HIDE DEF x
  <2>3. PICK s, v : Explains(x, s, v)
    BY <2>2 DEF Serial
  <2>4. /\ s \in Seq(Requests) /\ {s[i] : i \in 1..Len(s)} = W
        /\ \A i, j \in 1..Len(s) : s[i] = s[j] => i = j
        /\ \A i, j \in 1..Len(s) : s[i] \in past[s[j]] => i < j
        /\ v[0] = first.names[m] /\ v[Len(s)] = names[m]
        /\ \A i \in 1..Len(s) : v[i] = NameAfter(s[i], m, v[i - 1])
    BY <2>2, <2>3 DEF Explains
  <2>5. NameOf(m, first.names[m], s) = names[m]
    BY <2>4, NameFold
  <2> HIDE DEF W
  <2>6. s \in Seq(W)
    BY <2>4
  <2>7. s \in Orders(W)
    BY <2>4, <2>6, InOrders
  <2> QED BY <2>1, <2>5, <2>7
<1>2. ASSUME NEW c \in Columns
      PROVE  \E s \in Orders(Successful({"lock", "unlock", "expect"})) :
               PinOf(Said(first.pin), s)[c] = Said(pin)[c]
  <2> DEFINE x == <<"pin", c>>  W == Written(x)
  <2>1. W = Successful({"lock", "unlock", "expect"})
    BY DEF Written, Touches, Successful, PinOps
  <2>2. Serial(x) /\ Origin(x) = Said(first.pin)[c] /\ Cell(x) = Said(pin)[c]
        /\ \A r, u : After(r, x, u) = PinAfter(r, c, u)
    BY DEF SerialInv, Cells, Origin, Cell, After
  <2>a. \A r \in W : pc[r] = "done" /\ op[r].do \in PinOps
    BY DEF Written, Touches
  <2> HIDE DEF x
  <2>3. PICK s, v : Explains(x, s, v)
    BY <2>2 DEF Serial
  <2>4. /\ s \in Seq(Requests) /\ {s[i] : i \in 1..Len(s)} = W
        /\ \A i, j \in 1..Len(s) : s[i] = s[j] => i = j
        /\ \A i, j \in 1..Len(s) : s[i] \in past[s[j]] => i < j
        /\ v[0] = Said(first.pin)[c] /\ v[Len(s)] = Said(pin)[c]
        /\ \A i \in 1..Len(s) : v[i] = PinAfter(s[i], c, v[i - 1])
    BY <2>2, <2>3 DEF Explains
  <2> HIDE DEF W
  <2>5. PinOf(Said(first.pin), s)[c] = Said(pin)[c]
    <3>1. Said(first.pin) \in PinRow
      BY DEF Said, SerialInv, Reads, NewPin, PinRow, Expected
    <3>2. \A i \in 1..Len(s) : pc[s[i]] # "idle" /\ op[s[i]].do \in PinOps
      BY <2>a, <2>4
    <3> QED BY <2>4, <3>1, <3>2, PinFold DEF SerialInv
  <2>6. s \in Seq(W)
    BY <2>4
  <2>7. s \in Orders(W)
    BY <2>4, <2>6, InOrders
  <2> QED BY <2>1, <2>5, <2>7
<1>3. \A c \in DOMAIN NewPin : c \in Columns
  BY DEF NewPin, Columns
<1> QED BY <1>1, <1>2, <1>3 DEF RowsSerial

LEMMA SerialInit == DatabaseInit => SerialInv
<1> SUFFICES ASSUME DatabaseInit PROVE SerialInv
  OBVIOUS
<1>1. Reads
  <2>1. \A l \in BOOLEAN : [locked |-> l, mode |-> None, value |-> None] \in PinRow
    BY DEF PinRow, Expected
  <2>2. PICK t, f \in BOOLEAN : t = TRUE /\ f = FALSE
    OBVIOUS
  <2>3. NewPin = [locked |-> f, mode |-> None, value |-> None]
    BY <2>2, Zenon DEF NewPin
  <2>4. [NewPin EXCEPT !.locked = TRUE] = [NewPin EXCEPT !.locked = t]
    BY <2>2, Zenon
  <2>5. [NewPin EXCEPT !.locked = t] = [locked |-> t, mode |-> None, value |-> None]
    BY <2>3
  <2>6. pin \in {None, NewPin, [NewPin EXCEPT !.locked = TRUE]}
    BY DEF DatabaseInit
  <2>7. pin \in PinRow \union {None}
    BY <2>1, <2>3, <2>4, <2>5, <2>6
  <2> QED BY <2>7 DEF DatabaseInit, Reads
<1>2. ASSUME NEW x \in Cells PROVE Serial(x)
  <2> DEFINE v == [i \in {0} |-> Origin(x)]
  <2>1. Cell(x) = Origin(x)
    BY DEF DatabaseInit, Cell, Origin
  <2>2. Written(x) = {} /\ Reading(x) = {}
    BY DEF DatabaseInit, Written, Reading
  <2>3. <<>> \in Seq(Requests) /\ Len(<<>>) = 0 /\ v[0] = Origin(x)
    OBVIOUS
  <2> HIDE DEF v
  <2>4. Explains(x, <<>>, v)
    BY <2>1, <2>2, <2>3 DEF Explains
  <2> QED BY <2>4 DEF Serial
<1> QED BY <1>1, <1>2 DEF SerialInv

\* The names of devices and the columns of the pin are at all times what the
\* requests that succeeded make of them one after the other, in an order that
\* respects which of them had ended before which began: the reads and the partial
\* writes of overlapping sessions lose nobody's update unseen (set_ble_device_name,
\* delete_ble_device_name, _remember_ble_devices, lock_pin, unlock_pin,
\* set_expected_state).
THEOREM RowsSerialHolds == DatabaseSpec => []RowsSerial
<1>1. DatabaseInit => CountInv /\ SerialInv
  BY CountInit, SerialInit
<1>2. CountInv /\ SerialInv /\ [DatabaseNext]_databaseVars => (CountInv /\ SerialInv)'
  <2> SUFFICES ASSUME CountInv, SerialInv, [DatabaseNext]_databaseVars PROVE (CountInv /\ SerialInv)'
    OBVIOUS
  <2>1. CountInv' /\ Reads'
    BY CountStep, ReadsStep DEF SerialInv
  <2>2. \A x \in Cells : Serial(x)'
    BY SerialStep DEF SerialInv, CountInv
  <2> QED BY <2>1, <2>2 DEF SerialInv, Cells
<1>3. SerialInv => RowsSerial
  BY SerialRows
<1> QED BY <1>1, <1>2, <1>3, PTL DEF DatabaseSpec
=============================================================================
