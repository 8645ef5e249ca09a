------------------------------ MODULE LinkProofs ------------------------------
(* The two halves of the device's connection: what DeviceLink guarantees for *)
(* any number of descriptors and faults and any clock, and what Wire does for *)
(* any number of messages, cut anywhere, within WireAssumption.              *)
EXTENDS DeviceLink, Wire, SequenceTheorems, FiniteSetTheorems, WellFoundedInduction, TLAPS


-----------------------------------------------------------------------------
(* Every variable keeps its range; the wait before a reconnection takes no *)
(* other value than those of the doubling and its cap.                     *)
THEOREM TypeCorrect == Spec => []TypeOK
<1>1. Init => TypeOK
  <2> SUFFICES ASSUME Init PROVE TypeOK
    OBVIOUS
  <2>1. serverUp \in BOOLEAN /\ overtaken \in BOOLEAN
    BY Zenon DEF Init
  <2>2. /\ reconnect_interval \in Interval
        /\ now \in 1 .. MaxTime /\ faults \in 0 .. MaxFaults
        /\ last_heartbeat_time \in 0 .. MaxTime
        /\ current_time \in 0 .. MaxTime /\ last_send_time \in 0 .. MaxTime
    BY DeviceLinkAssumption DEF Init, Interval
  <2>3. /\ client_sock \in Fd \cup {NoSock} /\ dialed \in Fd \cup {NoSock}
        /\ sending \in Fd \cup {NoSock}
        /\ sock \in [Fd -> {"free", "new", "up", "down"}]
        /\ connection_state \in {0, 1}
    BY DEF Init
  <2> QED BY <2>1, <2>2, <2>3, Zenon DEF Init, TypeOK
<1>2. TypeOK /\ [Next]_vars => TypeOK'
  <2> SUFFICES ASSUME TypeOK, [Next]_vars PROVE TypeOK'
    OBVIOUS
  <2> USE DeviceLinkAssumption DEF TypeOK, linkVars, tcpVars, sendVars, beatVars, envVars, Sockets
  <2>1. ASSUME CloseOld PROVE TypeOK'
    BY <2>1 DEF CloseOld, Close
  <2>2. ASSUME ClearOld \/ Undial PROVE TypeOK'
    BY <2>2 DEF ClearOld, Undial
  <2>3. ASSUME NewSocket PROVE TypeOK'
    BY <2>3 DEF NewSocket
  <2>4. ASSUME NoSocket PROVE TypeOK'
    BY <2>4 DEF NoSocket, Fault
  <2>5. ASSUME DialOk PROVE TypeOK'
    BY <2>5 DEF DialOk, Opened, Status, Interval
  <2>6. ASSUME DialFails PROVE TypeOK'
    BY <2>6 DEF DialFails, Close, Fault
  <2>7. ASSUME Recv PROVE TypeOK'
    BY <2>7 DEF Recv, Opened, Status
  <2>8. ASSUME RecvFails PROVE TypeOK'
    BY <2>8 DEF RecvFails
  <2>9. ASSUME WaitOver PROVE TypeOK'
    <3>1. reconnect_interval' \in Interval
      BY <2>9 DEF WaitOver, Interval
    <3>2. overtaken' = Unfinished
      BY <2>9 DEF WaitOver
    <3>3. Unfinished \in BOOLEAN
      BY Zenon DEF Unfinished
    <3>4. overtaken' \in BOOLEAN
      BY <3>2, <3>3, Zenon
    <3> QED BY <2>9, <3>1, <3>4 DEF WaitOver
  <2>10. ASSUME SendReady \/ SendReset \/ SendClear PROVE TypeOK'
    BY <2>10 DEF SendReady, SendReset, SendClear
  <2>11. ASSUME SendCall PROVE TypeOK'
    BY <2>11 DEF SendCall, Opened, Status
  <2>12. ASSUME SendOk \/ SendFails PROVE TypeOK'
    BY <2>12 DEF SendOk, SendFails, Fault
  <2>13. ASSUME SendClose PROVE TypeOK'
    BY <2>13 DEF SendClose, Close
  <2>14. ASSUME HeartRead \/ HeartBeat \/ HeartStamp \/ HeartCheck PROVE TypeOK'
    BY <2>14 DEF HeartRead, HeartBeat, HeartStamp, HeartCheck
  <2>15. ASSUME HeartExpires \/ HeartFine \/ HeartClear PROVE TypeOK'
    BY <2>15 DEF HeartExpires, HeartFine, HeartClear
  <2>16. ASSUME HeartClose PROVE TypeOK'
    BY <2>16 DEF HeartClose, Close
  <2>17. ASSUME PeerDrops PROVE TypeOK'
    BY <2>17 DEF PeerDrops, Fault
  <2>18. ASSUME ServerChange \/ Tick PROVE TypeOK'
    <3>1. now' \in 1 .. MaxTime /\ faults' \in 0 .. MaxFaults
      BY <2>18 DEF ServerChange, Tick, Fault
    <3>2. serverUp' \in BOOLEAN
      BY <2>18, Zenon DEF ServerChange, Tick
    <3> QED BY <2>18, <3>1, <3>2 DEF ServerChange, Tick
  <2>19. ASSUME UNCHANGED vars PROVE TypeOK'
    BY <2>19 DEF vars
  <2> QED
    BY <2>1, <2>2, <2>3, <2>4, <2>5, <2>6, <2>7, <2>8, <2>9, <2>10, <2>11, <2>12, <2>13,
       <2>14, <2>15, <2>16, <2>17, <2>18, <2>19 DEF Next, TcpStep, SenderStep, HeartStep
<1> QED BY <1>1, <1>2, PTL DEF Spec

-----------------------------------------------------------------------------
(* The inductive invariant.  That no lock is needed for these two          *)
(* properties rests on the phases of tcp_client_task: connection_state is  *)
(* 1 in its receive loop only, so that the other tasks, once they are done *)
(* with a connection, begin nothing before the next one is there.          *)

Phases ==
    /\ tcp # "recv" => connection_state = 0
    /\ sender # "sending" => sending = NoSock
    /\ ~overtaken /\ tcp \notin {"recv", "wait"} =>
           sender = "idle" /\ heart \in {"idle", "beat", "check"}

(* A descriptor that is still connecting is known to nobody but the call   *)
(* that connects it.                                                       *)
Connecting ==
    /\ tcp \in {"recv", "wait"} => Status(client_sock) # "new"
    /\ tcp = "dial" /\ Status(client_sock) = "new" => client_sock = dialed
    /\ ~overtaken /\ sending # NoSock => sock[sending] \in {"up", "down"}

(* In the receive loop recv() waits on client_sock or on nothing; on       *)
(* nothing once another task has closed it.                                *)
Receiving ==
    tcp = "recv" /\ ~overtaken =>
        /\ dialed \in {NoSock, client_sock}
        /\ sender \in {"closed", "reset"} \/ heart = "clear" => dialed = NoSock
        /\ dialed # NoSock => connection_state = 1 \/ heart = "closing"

LinkInv == TypeOK /\ Phases /\ Connecting /\ Receiving

LEMMA CloseFrees ==
    ASSUME TypeOK, Close
    PROVE  /\ \A s \in Fd : s # client_sock => sock'[s] = sock[s]
           /\ client_sock # NoSock => sock'[client_sock] = "free"
           /\ dialed' # NoSock => dialed' = dialed /\ dialed # client_sock
           /\ sending' # NoSock => sending' = sending /\ sending # client_sock
BY DEF TypeOK, Close

LEMMA PhasesStep == LinkInv /\ [Next]_vars => Phases'
<1> SUFFICES ASSUME LinkInv, [Next]_vars PROVE Phases'
  OBVIOUS
<1> USE DEF LinkInv, TypeOK, Phases, linkVars, tcpVars, sendVars, beatVars, envVars, Sockets
<1>1. ASSUME CloseOld \/ ClearOld \/ NewSocket \/ NoSocket \/ DialFails \/ Undial PROVE Phases'
  <2>1. ASSUME CloseOld \/ DialFails PROVE Phases'
    BY <2>1 DEF CloseOld, DialFails, Close
  <2>2. ASSUME ClearOld \/ NewSocket \/ NoSocket \/ Undial PROVE Phases'
    BY <2>2 DEF ClearOld, NewSocket, NoSocket, Undial
  <2> QED BY <1>1, <2>1, <2>2
<1>2. ASSUME DialOk \/ Recv \/ RecvFails \/ WaitOver PROVE Phases'
  <2>1. ASSUME DialOk \/ Recv \/ RecvFails PROVE Phases'
    BY <2>1 DEF DialOk, Recv, RecvFails
  <2>2. ASSUME WaitOver PROVE Phases'
    <3>1. overtaken' = Unfinished
      BY <2>2 DEF WaitOver
    <3>2. ~overtaken' => sender = "idle" /\ heart = "idle"
      BY <3>1 DEF Unfinished
    <3> QED BY <2>2, <3>2 DEF WaitOver
  <2> QED BY <1>2, <2>1, <2>2
<1>3. ASSUME SendReady \/ SenderStep PROVE Phases'
  BY <1>3 DEF SendReady, SenderStep, SendCall, SendOk, SendFails, SendClose, SendClear, SendReset, Close
<1>4. ASSUME HeartRead \/ HeartStep PROVE Phases'
  BY <1>4 DEF HeartRead, HeartStep, HeartBeat, HeartStamp, HeartCheck, HeartExpires, HeartFine,
              HeartClose, HeartClear, Close
<1>5. ASSUME PeerDrops \/ ServerChange \/ Tick \/ UNCHANGED vars PROVE Phases'
  BY <1>5 DEF PeerDrops, ServerChange, Tick, vars
<1> QED BY <1>1, <1>2, <1>3, <1>4, <1>5 DEF Next, TcpStep

LEMMA ConnectingStep == LinkInv /\ [Next]_vars => Connecting'
<1> SUFFICES ASSUME LinkInv, [Next]_vars PROVE Connecting'
  OBVIOUS
<1> USE DeviceLinkAssumption
    DEF LinkInv, TypeOK, Connecting, Status, linkVars, tcpVars, sendVars, beatVars, envVars, Sockets
<1>1. ASSUME Close, client_sock' = client_sock, overtaken' = overtaken,
             tcp' # "recv", tcp' # "wait"
      PROVE  Connecting'
  BY <1>1, CloseFrees
<1>2. ASSUME Close, client_sock' = client_sock, overtaken' = overtaken, tcp' = tcp
      PROVE  Connecting'
  BY <1>2, CloseFrees
<1>3. ASSUME CloseOld \/ DialFails PROVE Connecting'
  BY <1>1, <1>3 DEF CloseOld, DialFails
<1>4. ASSUME SendClose \/ HeartClose PROVE Connecting'
  BY <1>2, <1>4 DEF SendClose, HeartClose
<1>5. ASSUME ClearOld \/ Undial \/ NoSocket PROVE Connecting'
  BY <1>5 DEF ClearOld, Undial, NoSocket
<1>6. ASSUME NewSocket PROVE Connecting'
  BY <1>6 DEF NewSocket
<1>7. ASSUME DialOk PROVE Connecting'
  BY <1>7 DEF DialOk
<1>8. ASSUME Recv \/ RecvFails \/ WaitOver PROVE Connecting'
  <2>1. ASSUME Recv \/ RecvFails PROVE Connecting'
    BY <2>1 DEF Recv, RecvFails
  <2>2. ASSUME WaitOver PROVE Connecting'
    <3>1. overtaken' = Unfinished
      BY <2>2 DEF WaitOver
    <3>2. ~overtaken' => sending = NoSock
      BY <3>1 DEF Unfinished, Phases
    <3> QED BY <2>2, <3>2 DEF WaitOver
  <2> QED BY <1>8, <2>1, <2>2
<1>9. ASSUME SendCall PROVE Connecting'
  BY <1>9 DEF SendCall, Opened, Phases
<1>10. ASSUME SendReady \/ SendOk \/ SendFails \/ SendClear \/ SendReset PROVE Connecting'
  BY <1>10 DEF SendReady, SendOk, SendFails, SendClear, SendReset
<1>11. ASSUME HeartRead \/ HeartBeat \/ HeartStamp \/ HeartCheck \/ HeartExpires \/ HeartFine
              \/ HeartClear
       PROVE  Connecting'
  BY <1>11 DEF HeartRead, HeartBeat, HeartStamp, HeartCheck, HeartExpires, HeartFine, HeartClear
<1>12. ASSUME PeerDrops PROVE Connecting'
  BY <1>12 DEF PeerDrops
<1>13. ASSUME ServerChange \/ Tick \/ UNCHANGED vars PROVE Connecting'
  BY <1>13 DEF ServerChange, Tick, vars
<1> QED
  BY <1>3, <1>4, <1>5, <1>6, <1>7, <1>8, <1>9, <1>10, <1>11, <1>12, <1>13
     DEF Next, TcpStep, SenderStep, HeartStep

LEMMA ReceivingStep == LinkInv /\ [Next]_vars => Receiving'
<1> SUFFICES ASSUME LinkInv, [Next]_vars, tcp' = "recv", ~overtaken' PROVE Receiving'
  BY DEF Receiving
<1> USE DeviceLinkAssumption
    DEF LinkInv, TypeOK, Receiving, Status, linkVars, tcpVars, sendVars, beatVars, envVars, Sockets
<1>1. ASSUME CloseOld \/ ClearOld \/ NewSocket \/ NoSocket \/ DialFails \/ Undial
             \/ RecvFails \/ WaitOver
      PROVE  FALSE
  BY <1>1 DEF CloseOld, ClearOld, NewSocket, NoSocket, DialFails, Undial, RecvFails, WaitOver
<1>2. ASSUME DialOk PROVE Receiving'
  BY <1>2 DEF DialOk, Opened, Phases, Connecting
<1>3. ASSUME Recv PROVE Receiving'
  BY <1>3 DEF Recv, Opened
<1>4. ASSUME SendClose \/ HeartClose PROVE Receiving'
  <2>1. dialed' = NoSock
    BY <1>4 DEF SendClose, HeartClose, Close
  <2> QED BY <2>1
<1>5. ASSUME SendReady \/ SendCall \/ SendOk \/ SendFails \/ SendClear \/ SendReset
      PROVE  Receiving'
  BY <1>5 DEF SendReady, SendCall, SendOk, SendFails, SendClear, SendReset
<1>6. ASSUME HeartRead \/ HeartBeat \/ HeartStamp \/ HeartCheck \/ HeartExpires \/ HeartFine
             \/ HeartClear
      PROVE  Receiving'
  BY <1>6 DEF HeartRead, HeartBeat, HeartStamp, HeartCheck, HeartExpires, HeartFine, HeartClear
<1>7. ASSUME PeerDrops \/ ServerChange \/ Tick \/ UNCHANGED vars PROVE Receiving'
  BY <1>7 DEF PeerDrops, ServerChange, Tick, vars
<1> QED
  BY <1>1, <1>2, <1>3, <1>4, <1>5, <1>6, <1>7 DEF Next, TcpStep, SenderStep, HeartStep

(* The link's inductive invariant. *)
THEOREM LinkInvariance == Spec => []LinkInv
<1>1. Init => Phases /\ Connecting /\ Receiving
  BY DEF Init, Phases, Connecting, Receiving, Status
<1>2. TypeOK /\ TypeOK' /\ Phases' /\ Connecting' /\ Receiving' => LinkInv'
  BY DEF LinkInv
<1>3. TypeOK /\ Phases /\ Connecting /\ Receiving <=> LinkInv
  BY DEF LinkInv
<1> QED
  BY <1>1, <1>2, <1>3, TypeCorrect, PhasesStep, ConnectingStep, ReceivingStep, PTL DEF Spec

(* As long as it receives on a live connection the device sends on it too, *)
(* but for the moments in which the watchdog is about to close it, unless  *)
(* the reconnection overtook another task.                                 *)
THEOREM NoSilentDropHolds == Spec => []NoSilentDrop
<1>1. LinkInv => NoSilentDrop
  BY DEF LinkInv, Receiving, NoSilentDrop, Usable, Status
<1> QED BY <1>1, LinkInvariance, PTL

(* No frame is sent on a socket that is still connecting, unless the *)
(* reconnection overtook another task.                               *)
THEOREM SendsOnConnectionHolds == Spec => []SendsOnConnection
<1>1. LinkInv => SendsOnConnection
  BY DEF LinkInv, Connecting, SendsOnConnection, Status
<1> QED BY <1>1, LinkInvariance, PTL

-----------------------------------------------------------------------------
(* Folds over sequences.  FoldLeft is defined with a recursive function on *)
(* sets of positions; its values on 1..k are the results of k turns.       *)

\* A set of naturals that contains 0 and the successor of each of its members
\* contains every natural: no least one is missing.
LEMMA Induction ==
    ASSUME NEW S, 0 \in S, \A n \in Nat : n \in S => n + 1 \in S
    PROVE  Nat \subseteq S
<1> SUFFICES ASSUME Nat \ S # {} PROVE FALSE
  OBVIOUS
<1> DEFINE T == Nat \ S
<1>1. PICK m \in T : \A k \in T : ~ (<<k, m>> \in OpToRel(<, Nat))
  <2>1. T \subseteq Nat /\ T # {}
    OBVIOUS
  <2> HIDE DEF T
  <2> QED BY <2>1, NatLessThanWellFounded, WFMin
<1>2. m \in Nat /\ m - 1 \in Nat /\ m - 1 < m /\ (m - 1) + 1 = m
  OBVIOUS
<1>3. <<m - 1, m>> \in OpToRel(<, Nat)
  BY <1>2 DEF OpToRel
<1>4. m - 1 \in S
  BY <1>1, <1>2, <1>3
<1> QED BY <1>1, <1>2, <1>4
\* What Wire folds: widths, times of pulses, lengths of frames, glitches.
Folded(x, acc, e) ==
    CASE x[1] = "widths" -> acc + e
      [] x[1] = "times"  -> acc + e.us
      [] x[1] = "frames" -> acc + Len(Frame(e))
      [] x[1] = "merge"  -> MergeEdge(x[2], acc, e)

\* The function on the sets of positions of s, by which FoldLeft is defined.
IsFold(g, n, s, x, base) ==
    g = [T \in SUBSET (1..n) |->
            IF T = {} THEN base ELSE Folded(x, g[T \ {Max(T)}], s[Max(T)])]

\* The element FoldLeft takes last of those up to n.
LEMMA MaxOfInterval ==
    ASSUME NEW n \in Nat, NEW T \in SUBSET (1..n), n \in T
    PROVE  Max(T) = n
<1>1. n \in T /\ \A y \in T : n >= y
  OBVIOUS
<1>2. \A x \in T : (\A y \in T : x >= y) => x = n
  OBVIOUS
<1> QED BY <1>1, <1>2 DEF Max

\* The recursive function of a fold exists for every length.
LEMMA FoldExists ==
    ASSUME NEW x, NEW base, NEW s
    PROVE  \A n \in Nat : \E g : IsFold(g, n, s, x, base)
<1> DEFINE S == {n \in Nat : \E g : IsFold(g, n, s, x, base)}
<1>1. 0 \in S
  <2> DEFINE g == [T \in SUBSET (1..0) |-> base]
  <2>1. \A T \in SUBSET (1..0) : T = {}
    OBVIOUS
  <2>2. g = [T \in SUBSET (1..0) |-> IF T = {} THEN base ELSE Folded(x, g[T \ {Max(T)}], s[Max(T)])]
    BY <2>1
  <2> QED BY <2>2 DEF IsFold
<1>2. ASSUME NEW n \in Nat, n \in S PROVE n + 1 \in S
  <2>1. PICK g : IsFold(g, n, s, x, base)
    BY <1>2
  <2> DEFINE h == [T \in SUBSET (1..(n + 1)) |->
                     IF n + 1 \in T THEN Folded(x, g[T \ {n + 1}], s[n + 1]) ELSE g[T]]
             v(T) == IF T = {} THEN base ELSE Folded(x, h[T \ {Max(T)}], s[Max(T)])
  <2>2. \A T \in SUBSET (1..n) : /\ g[T] = IF T = {} THEN base ELSE Folded(x, g[T \ {Max(T)}], s[Max(T)])
                                 /\ T \in SUBSET (1..(n + 1)) /\ n + 1 \notin T
                                 /\ h[T] = g[T]
    <3>1. \A T \in SUBSET (1..n) : g[T] = IF T = {} THEN base ELSE Folded(x, g[T \ {Max(T)}], s[Max(T)])
      BY <2>1 DEF IsFold
    <3>2. \A T \in SUBSET (1..n) : T \in SUBSET (1..(n + 1)) /\ n + 1 \notin T
      OBVIOUS
    <3> QED BY <3>1, <3>2
  <2>3. ASSUME NEW T \in SUBSET (1..(n + 1)) PROVE h[T] = v(T)
    <3>1. CASE n + 1 \in T
      <4>1. Max(T) = n + 1 /\ T # {}
        BY <3>1, MaxOfInterval
      <4>2. T \ {n + 1} \in SUBSET (1..n)
        OBVIOUS
      <4>3. h[T \ {n + 1}] = g[T \ {n + 1}]
        BY <2>2, <4>2
      <4> HIDE DEF h
      <4>4. v(T) = Folded(x, g[T \ {n + 1}], s[n + 1])
        BY <4>1, <4>3
      <4> QED BY <3>1, <4>4 DEF h
    <3>2. CASE n + 1 \notin T
      <4>1. T \in SUBSET (1..n)
        BY <3>2
      <4>2. T \ {Max(T)} \in SUBSET (1..n)
        BY <4>1
      <4>3. h[T] = g[T] /\ h[T \ {Max(T)}] = g[T \ {Max(T)}]
        BY <2>2, <4>1, <4>2
      <4> HIDE DEF h
      <4> QED BY <2>2, <4>1, <4>3
    <3> QED BY <3>1, <3>2
  <2>4. h = [T \in SUBSET (1..(n + 1)) |-> v(T)]
    BY <2>3
  <2>5. IsFold(h, n + 1, s, x, base)
    BY <2>4 DEF IsFold
  <2> QED BY <2>5
<1> HIDE DEF S
<1>3. Nat \subseteq S
  BY <1>1, <1>2, Induction
<1> QED BY <1>3 DEF S

\* Its values on 1..k.
LEMMA FoldSteps ==
    ASSUME NEW n \in Nat, NEW s, NEW x, NEW base, NEW g, IsFold(g, n, s, x, base)
    PROVE  g[1..0] = base /\ \A k \in 1..n : g[1..k] = Folded(x, g[1..(k - 1)], s[k])
<1>1. g[1..0] = base
  <2>1. 1..0 = {} /\ {} \in SUBSET (1..n)
    OBVIOUS
  <2> QED BY <2>1 DEF IsFold
<1>2. ASSUME NEW k \in 1..n PROVE g[1..k] = Folded(x, g[1..(k - 1)], s[k])
  <2>1. 1..k \in SUBSET (1..n) /\ 1..k # {} /\ k \in Nat /\ k \in 1..k /\ 1..k \in SUBSET (1..k)
    OBVIOUS
  <2>2. Max(1..k) = k
    BY <2>1, MaxOfInterval
  <2>3. (1..k) \ {k} = 1..(k - 1)
    BY <2>1
  <2>4. g[1..k] = Folded(x, g[(1..k) \ {Max(1..k)}], s[Max(1..k)])
    BY <2>1 DEF IsFold
  <2> QED BY <2>2, <2>3, <2>4
<1> QED BY <1>1, <1>2

\* The results of the turns, as values of positions.
Turns(v, n, s, x, base) ==
    v[0] = base /\ \A k \in 1..n : v[k] = Folded(x, v[k - 1], s[k])

\* The same values as one function of the number of turns.
LEMMA FoldTurns ==
    ASSUME NEW n \in Nat, NEW s, NEW x, NEW base, NEW g, IsFold(g, n, s, x, base)
    PROVE  \E v : Turns(v, n, s, x, base) /\ v[n] = g[1..n]
<1> DEFINE u == [k \in 0..n |-> g[1..k]]
<1>1. /\ u[0] = g[1..0] /\ u[n] = g[1..n]
      /\ \A k \in 1..n : u[k] = g[1..k] /\ u[k - 1] = g[1..(k - 1)]
  OBVIOUS
<1> HIDE DEF u
<1>2. Turns(u, n, s, x, base)
  BY <1>1, FoldSteps DEF Turns
<1> QED BY <1>1, <1>2

\* The bytes of the first fields.
LEMMA WidthsFold ==
    ASSUME NEW s, Len(s) \in Nat, DOMAIN s = 1..Len(s)
    PROVE  \E v : /\ v[0] = 0 /\ v[Len(s)] = Widths(s)
                  /\ \A k \in 1..Len(s) : v[k] = v[k - 1] + s[k]
<1> DEFINE n == Len(s)  x == <<"widths", 0>>
           F(h) == [T \in SUBSET (1..n) |->
                      IF T = {} THEN 0 ELSE h[T \ {Max(T)}] + s[Max(T)]]
           g == CHOOSE h : h = F(h)
<1>1. Widths(s) = g[1..n]
  BY DEF Widths, FoldLeft, MapThenFoldSet
<1>2. \A acc, e : Folded(x, acc, e) = acc + e
  BY DEF Folded
<1>3. ASSUME NEW h PROVE IsFold(h, n, s, x, 0) <=> h = F(h)
  <2> DEFINE G == [T \in SUBSET (1..n) |->
                     IF T = {} THEN 0 ELSE Folded(x, h[T \ {Max(T)}], s[Max(T)])]
  <2>1. \A T \in SUBSET (1..n) : G[T] = F(h)[T]
    BY <1>2
  <2>2. G = F(h)
    BY <2>1
  <2> QED BY <2>2 DEF IsFold
<1>4. g = F(g)
  <2>1. \E h : h = F(h)
    BY <1>3, FoldExists
  <2> HIDE DEF F
  <2> QED BY <2>1
<1>5. IsFold(g, n, s, x, 0)
  BY <1>3, <1>4
<1> HIDE DEF F, g, x
<1>6. PICK v : Turns(v, n, s, x, 0) /\ v[n] = g[1..n]
  BY <1>5, FoldTurns
<1> QED BY <1>1, <1>2, <1>6 DEF Turns

\* The time of the first pulses.
LEMMA TimesFold ==
    ASSUME NEW s, Len(s) \in Nat, DOMAIN s = 1..Len(s)
    PROVE  \E v : /\ v[0] = 0 /\ v[Len(s)] = TotalTime(s)
                  /\ \A k \in 1..Len(s) : v[k] = v[k - 1] + s[k].us
<1> DEFINE n == Len(s)  x == <<"times", 0>>
           F(h) == [T \in SUBSET (1..n) |->
                      IF T = {} THEN 0 ELSE h[T \ {Max(T)}] + s[Max(T)].us]
           g == CHOOSE h : h = F(h)
<1>1. TotalTime(s) = g[1..n]
  BY DEF TotalTime, FoldLeft, MapThenFoldSet
<1>2. \A acc, e : Folded(x, acc, e) = acc + e.us
  BY DEF Folded
<1>3. ASSUME NEW h PROVE IsFold(h, n, s, x, 0) <=> h = F(h)
  <2> DEFINE G == [T \in SUBSET (1..n) |->
                     IF T = {} THEN 0 ELSE Folded(x, h[T \ {Max(T)}], s[Max(T)])]
  <2>1. \A T \in SUBSET (1..n) : G[T] = F(h)[T]
    BY <1>2
  <2>2. G = F(h)
    BY <2>1
  <2> QED BY <2>2 DEF IsFold
<1>4. g = F(g)
  <2>1. \E h : h = F(h)
    BY <1>3, FoldExists
  <2> HIDE DEF F
  <2> QED BY <2>1
<1>5. IsFold(g, n, s, x, 0)
  BY <1>3, <1>4
<1> HIDE DEF F, g, x
<1>6. PICK v : Turns(v, n, s, x, 0) /\ v[n] = g[1..n]
  BY <1>5, FoldTurns
<1> QED BY <1>1, <1>2, <1>6 DEF Turns

\* The bytes of the first frames.
LEMMA FramesFold ==
    ASSUME NEW s, Len(s) \in Nat, DOMAIN s = 1..Len(s)
    PROVE  \E v : /\ v[0] = 0 /\ v[Len(s)] = Bytes(s)
                  /\ \A k \in 1..Len(s) : v[k] = v[k - 1] + Len(Frame(s[k]))
<1> DEFINE n == Len(s)  x == <<"frames", 0>>
           F(h) == [T \in SUBSET (1..n) |->
                      IF T = {} THEN 0 ELSE h[T \ {Max(T)}] + Len(Frame(s[Max(T)]))]
           g == CHOOSE h : h = F(h)
<1>1. Bytes(s) = g[1..n]
  BY DEF Bytes, FoldLeft, MapThenFoldSet
<1>2. \A acc, e : Folded(x, acc, e) = acc + Len(Frame(e))
  BY DEF Folded
<1>3. ASSUME NEW h PROVE IsFold(h, n, s, x, 0) <=> h = F(h)
  <2> DEFINE G == [T \in SUBSET (1..n) |->
                     IF T = {} THEN 0 ELSE Folded(x, h[T \ {Max(T)}], s[Max(T)])]
  <2>1. \A T \in SUBSET (1..n) : G[T] = F(h)[T]
    BY <1>2
  <2>2. G = F(h)
    BY <2>1
  <2> QED BY <2>2 DEF IsFold
<1>4. g = F(g)
  <2>1. \E h : h = F(h)
    BY <1>3, FoldExists
  <2> HIDE DEF F
  <2> QED BY <2>1
<1>5. IsFold(g, n, s, x, 0)
  BY <1>3, <1>4
<1> HIDE DEF F, g, x
<1>6. PICK v : Turns(v, n, s, x, 0) /\ v[n] = g[1..n]
  BY <1>5, FoldTurns
<1> QED BY <1>1, <1>2, <1>6 DEF Turns

\* The first turns of apply_resolution.
LEMMA MergeFold ==
    ASSUME NEW us, NEW s, Len(s) \in Nat, DOMAIN s = 1..Len(s)
    PROVE  \E v : /\ v[0] = [merged |-> <<>>, carry |-> 0] /\ v[Len(s)] = MergeEdges(us, s)
                  /\ \A k \in 1..Len(s) : v[k] = MergeEdge(us, v[k - 1], s[k])
<1> DEFINE n == Len(s)  x == <<"merge", us>>
           F(h) == [T \in SUBSET (1..n) |->
                      IF T = {} THEN [merged |-> <<>>, carry |-> 0] ELSE MergeEdge(us, h[T \ {Max(T)}], s[Max(T)])]
           g == CHOOSE h : h = F(h)
<1>1. MergeEdges(us, s) = g[1..n]
  BY DEF MergeEdges, FoldLeft, MapThenFoldSet
<1>2. \A acc, e : Folded(x, acc, e) = MergeEdge(us, acc, e)
  BY DEF Folded
<1>3. ASSUME NEW h PROVE IsFold(h, n, s, x, [merged |-> <<>>, carry |-> 0]) <=> h = F(h)
  <2> DEFINE G == [T \in SUBSET (1..n) |->
                     IF T = {} THEN [merged |-> <<>>, carry |-> 0] ELSE Folded(x, h[T \ {Max(T)}], s[Max(T)])]
  <2>1. \A T \in SUBSET (1..n) : G[T] = F(h)[T]
    BY <1>2
  <2>2. G = F(h)
    BY <2>1
  <2> QED BY <2>2 DEF IsFold
<1>4. g = F(g)
  <2>1. \E h : h = F(h)
    BY <1>3, FoldExists
  <2> HIDE DEF F
  <2> QED BY <2>1
<1>5. IsFold(g, n, s, x, [merged |-> <<>>, carry |-> 0])
  BY <1>3, <1>4
<1> HIDE DEF F, g, x
<1>6. PICK v : Turns(v, n, s, x, [merged |-> <<>>, carry |-> 0]) /\ v[n] = g[1..n]
  BY <1>5, FoldTurns
<1> QED BY <1>1, <1>2, <1>6 DEF Turns
-----------------------------------------------------------------------------
(* apply_resolution.                                                       *)

Pulse == [level : Nat, us : Nat]

\* The times of the first pulses add up to the same for pulses of the same times.
TimesOf(v, s) == v[0] = 0 /\ \A k \in 1..Len(s) : v[k] = v[k - 1] + s[k].us

LEMMA TimesAgree ==
    ASSUME NEW s \in Seq(Pulse), NEW t \in Seq(Pulse), NEW v, NEW w, TimesOf(v, s), TimesOf(w, t),
           NEW n \in Nat, n <= Len(s), n <= Len(t), \A i \in 1..n : s[i].us = t[i].us
    PROVE  v[n] = w[n] /\ v[n] \in Nat
<1> DEFINE S == {k \in Nat : k <= n => v[k] = w[k] /\ v[k] \in Nat}
<1>0. Len(s) \in Nat /\ Len(t) \in Nat /\ \A i \in 1..Len(s) : s[i].us \in Nat
  <2>1. /\ Len(s) \in Nat /\ Len(t) \in Nat
        /\ \A i \in 1..Len(s) : s[i] \in Pulse
    BY ElementOfSeq, LenProperties
  <2>2. \A p \in Pulse : p.us \in Nat
    BY DEF Pulse
  <2> QED BY <2>1, <2>2
<1>1. 0 \in S
  BY DEF TimesOf
<1>2. ASSUME NEW k \in Nat, k \in S PROVE k + 1 \in S
  <2> SUFFICES ASSUME k + 1 <= n PROVE v[k + 1] = w[k + 1] /\ v[k + 1] \in Nat
    OBVIOUS
  <2>1. /\ k + 1 \in 1..Len(s) /\ k + 1 \in 1..Len(t) /\ k + 1 \in 1..n /\ k <= n
        /\ (k + 1) - 1 = k
    BY <1>0
  <2>2. v[k + 1] = v[k] + s[k + 1].us /\ w[k + 1] = w[k] + t[k + 1].us
    BY <2>1 DEF TimesOf
  <2>3. v[k] = w[k] /\ v[k] \in Nat /\ s[k + 1].us \in Nat /\ s[k + 1].us = t[k + 1].us
    BY <1>0, <1>2, <2>1
  <2> QED BY <2>2, <2>3
<1> HIDE DEF S
<1>3. Nat \subseteq S
  BY <1>1, <1>2, Induction
<1> QED BY <1>3 DEF S

\* Widened, of a sequence that is not empty: its last pulse gets longer.
LEMMA WidenedIs ==
    ASSUME NEW s \in Seq(Pulse), s # <<>>, NEW u \in Nat
    PROVE  /\ Widened(s, u) \in Seq(Pulse) /\ Len(Widened(s, u)) = Len(s)
           /\ \A i \in 1..(Len(s) - 1) : Widened(s, u)[i] = s[i]
           /\ Widened(s, u)[Len(s)].level = s[Len(s)].level
           /\ Widened(s, u)[Len(s)].us = s[Len(s)].us + u
<1> DEFINE n == Len(s)
<1>1. n \in Nat /\ n >= 1 /\ n \in 1..n /\ s \in [1..n -> Pulse]
  OBVIOUS
<1>2. PICK e : e = [s[n] EXCEPT !.us = @ + u]
  OBVIOUS
<1>3. s[n] \in Pulse
  BY <1>1
<1>4. e \in Pulse /\ e.level = s[n].level /\ e.us = s[n].us + u
  BY <1>2, <1>3 DEF Pulse
<1>5. PICK w : w = Widened(s, u)
  OBVIOUS
<1>6. w = [s EXCEPT ![n] = e]
  BY <1>2, <1>5 DEF Widened
<1> HIDE DEF n
<1>7. w \in [1..n -> Pulse]
  BY <1>1, <1>4, <1>6
<1>8. w \in Seq(Pulse) /\ Len(w) = n
  BY <1>1, <1>7
<1>9. w[n] = e /\ \A i \in 1..(n - 1) : w[i] = s[i]
  BY <1>1, <1>6
<1> QED BY <1>4, <1>5, <1>8, <1>9 DEF n

\* Time is added up pulse by pulse.
LEMMA TotalTimes ==
    /\ TotalTime(<<>>) = 0
    /\ \A s \in Seq(Pulse) :
         /\ TotalTime(s) \in Nat
         /\ \A e \in Pulse : TotalTime(Append(s, e)) = TotalTime(s) + e.us
         /\ s # <<>> => \A u \in Nat : TotalTime(Widened(s, u)) = TotalTime(s) + u
<1>0. \A s \in Seq(Pulse) : Len(s) \in Nat /\ DOMAIN s = 1..Len(s)
  OBVIOUS
<1>1. TotalTime(<<>>) = 0
  <2>1. <<>> \in Seq(Pulse) /\ Len(<<>>) = 0
    OBVIOUS
  <2> QED BY <1>0, <2>1, TimesFold
<1>2. \A s \in Seq(Pulse) : \E v : TimesOf(v, s) /\ v[Len(s)] = TotalTime(s)
  BY <1>0, TimesFold DEF TimesOf
<1>3. ASSUME NEW s \in Seq(Pulse)
      PROVE  /\ TotalTime(s) \in Nat
             /\ \A e \in Pulse : TotalTime(Append(s, e)) = TotalTime(s) + e.us
             /\ s # <<>> => \A u \in Nat : TotalTime(Widened(s, u)) = TotalTime(s) + u
  <2>1. PICK v : TimesOf(v, s) /\ v[Len(s)] = TotalTime(s)
    BY <1>2
  <2>2. TotalTime(s) \in Nat
    BY <1>0, <2>1, TimesAgree
  <2>3. ASSUME NEW e \in Pulse PROVE TotalTime(Append(s, e)) = TotalTime(s) + e.us
    <3> DEFINE t == Append(s, e)
    <3>1. /\ t \in Seq(Pulse) /\ Len(t) = Len(s) + 1
          /\ \A i \in 1..Len(s) : t[i] = s[i]
          /\ t[Len(s) + 1] = e
      BY AppendProperties
    <3> HIDE DEF t
    <3>2. PICK w : TimesOf(w, t) /\ w[Len(t)] = TotalTime(t)
      BY <1>2, <3>1
    <3>3. v[Len(s)] = w[Len(s)]
      BY <1>0, <2>1, <3>1, <3>2, TimesAgree
    <3>4. w[Len(t)] = w[Len(s)] + e.us
      <4>1. Len(t) \in 1..Len(t) /\ Len(t) - 1 = Len(s) /\ t[Len(t)] = e
        BY <1>0, <3>1
      <4> QED BY <3>2, <4>1 DEF TimesOf
    <3> QED BY <2>1, <3>2, <3>3, <3>4 DEF t
  <2>4. ASSUME s # <<>>, NEW u \in Nat PROVE TotalTime(Widened(s, u)) = TotalTime(s) + u
    <3> DEFINE t == Widened(s, u)  n == Len(s)
    <3>1. /\ t \in Seq(Pulse) /\ Len(t) = n /\ n \in Nat /\ n >= 1
          /\ \A i \in 1..(n - 1) : t[i] = s[i]
          /\ t[n].us = s[n].us + u
      BY <2>4, WidenedIs
    <3> HIDE DEF t
    <3>2. PICK w : TimesOf(w, t) /\ w[Len(t)] = TotalTime(t)
      BY <1>2, <3>1
    <3>3. v[n - 1] = w[n - 1] /\ v[n - 1] \in Nat
      <4>1. \A i \in 1..(n - 1) : s[i].us = t[i].us
        BY <3>1
      <4>2. n - 1 \in Nat /\ n - 1 <= Len(s) /\ n - 1 <= Len(t)
        BY <3>1
      <4> HIDE DEF n
      <4> QED BY <2>1, <3>1, <3>2, <4>1, <4>2, TimesAgree
    <3>4. n \in 1..n /\ s[n].us \in Nat
      <4>1. s[n] \in Pulse
        BY <3>1
      <4> QED BY <3>1, <4>1 DEF Pulse
    <3>5. v[n] = v[n - 1] + s[n].us /\ w[n] = w[n - 1] + t[n].us
      BY <2>1, <3>1, <3>2, <3>4 DEF TimesOf
    <3> QED BY <2>1, <3>1, <3>2, <3>3, <3>4, <3>5 DEF t
  <2> QED BY <2>2, <2>3, <2>4
<1> QED BY <1>1, <1>3

\* What apply_resolution has kept, and carries, after some pulses: all of their
\* time, no pulse that is too narrow, no neighbours of one level.
Kept(us, acc) ==
    /\ acc = [merged |-> acc.merged, carry |-> acc.carry]
    /\ acc.merged \in Seq(Pulse) /\ acc.carry \in Nat
    /\ \A j \in 1..Len(acc.merged) : acc.merged[j].us >= us
    /\ \A j \in 2..Len(acc.merged) : acc.merged[j].level # acc.merged[j - 1].level
    /\ acc.carry > 0 => acc.merged = <<>>

\* The invariant of the loop of apply_resolution.
LEMMA MergeKeeps ==
    ASSUME NEW us \in Nat, us > 1, NEW acc, Kept(us, acc), NEW e \in Pulse
    PROVE  LET new == MergeEdge(us, acc, e)
           IN  /\ Kept(us, new)
               /\ new.carry + TotalTime(new.merged) = acc.carry + TotalTime(acc.merged) + e.us
               /\ new.merged = <<>> <=> acc.merged = <<>> /\ e.us < us
<1> DEFINE kept == acc.merged  c == acc.carry  n == Len(kept)
           full == [level |-> e.level, us |-> e.us + c]
           new == MergeEdge(us, acc, e)
<1>1. /\ acc = [merged |-> kept, carry |-> c] /\ kept \in Seq(Pulse) /\ c \in Nat
      /\ \A j \in 1..n : kept[j].us >= us
      /\ \A j \in 2..n : kept[j].level # kept[j - 1].level
      /\ c > 0 => kept = <<>>
      /\ n \in Nat
  BY DEF Kept
<1>2. e.us \in Nat /\ e.level \in Nat /\ full \in Pulse /\ full.us = e.us + c /\ full.level = e.level
  BY <1>1 DEF Pulse
<1>3. TotalTime(kept) \in Nat
  BY <1>1, TotalTimes
<1>4. kept # <<>> => n >= 1
  BY <1>1
<1>5. CASE e.us < us /\ kept # <<>>
  <2> DEFINE w == Widened(kept, e.us)
  <2>1. new = [merged |-> w, carry |-> c]
    BY <1>1, <1>5 DEF MergeEdge
  <2>2. /\ w \in Seq(Pulse) /\ Len(w) = n
        /\ \A i \in 1..(n - 1) : w[i] = kept[i]
        /\ w[n].level = kept[n].level /\ w[n].us = kept[n].us + e.us
    BY <1>1, <1>2, <1>5, WidenedIs
  <2>3. TotalTime(w) = TotalTime(kept) + e.us
    BY <1>1, <1>2, <1>5, TotalTimes
  <2> HIDE DEF w, new
  <2>4. new.merged = w /\ new.carry = c /\ c = 0
    BY <1>1, <1>5, <2>1
  <2>5. kept[n] \in Pulse /\ kept[n].us \in Nat
    <3>1. kept[n] \in Pulse
      BY <1>1, <1>4, <1>5
    <3> QED BY <3>1 DEF Pulse
  <2>6. \A j \in 1..n : w[j].us >= us /\ w[j].level = kept[j].level
    <3> SUFFICES ASSUME NEW j \in 1..n PROVE w[j].us >= us /\ w[j].level = kept[j].level
      OBVIOUS
    <3>1. CASE j = n
      BY <1>1, <1>2, <2>2, <2>5, <3>1
    <3>2. CASE j # n
      <4>1. j \in 1..(n - 1)
        BY <1>1, <3>2
      <4> QED BY <1>1, <2>2, <4>1
    <3> QED BY <3>1, <3>2
  <2>7. \A j \in 2..n : w[j].level # w[j - 1].level
    <3>1. \A j \in 2..n : j \in 1..n /\ j - 1 \in 1..n
      BY <1>1
    <3> QED BY <1>1, <2>6, <3>1
  <2>8. w # <<>>
    BY <1>1, <1>4, <1>5, <2>2
  <2>9. Kept(us, new)
    BY <1>1, <2>1, <2>2, <2>4, <2>6, <2>7 DEF Kept
  <2>10. new.carry + TotalTime(new.merged) = c + TotalTime(kept) + e.us
    BY <1>1, <1>2, <1>3, <2>3, <2>4
  <2>11. new.merged = <<>> <=> kept = <<>> /\ e.us < us
    BY <1>5, <2>4, <2>8
  <2> HIDE DEF kept, c
  <2> QED BY <2>9, <2>10, <2>11 DEF new, kept, c
<1>6. CASE e.us < us /\ kept = <<>>
  <2>1. new = [merged |-> <<>>, carry |-> c + e.us]
    BY <1>1, <1>6 DEF MergeEdge
  <2> HIDE DEF new
  <2>2. new.merged = <<>> /\ new.carry = c + e.us
    BY <2>1
  <2>3. Kept(us, new)
    BY <1>1, <1>2, <2>1, <2>2 DEF Kept
  <2>4. TotalTime(<<>>) = 0
    BY TotalTimes
  <2>5. new.carry + TotalTime(new.merged) = c + TotalTime(kept) + e.us
    BY <1>1, <1>2, <1>6, <2>2, <2>4
  <2>6. new.merged = <<>> <=> kept = <<>> /\ e.us < us
    BY <1>6, <2>2
  <2> HIDE DEF kept, c
  <2> QED BY <2>3, <2>5, <2>6 DEF new, kept, c
<1>7. CASE e.us >= us
  <2>0. ~(e.us < us)
    BY <1>2, <1>7
  <2>1. CASE kept # <<>> /\ Last(kept).level = e.level
    <3> DEFINE w == Widened(kept, full.us)
    <3>1. new = [merged |-> w, carry |-> 0]
      BY <2>0, <2>1 DEF MergeEdge
    <3>2. /\ w \in Seq(Pulse) /\ Len(w) = n
          /\ \A i \in 1..(n - 1) : w[i] = kept[i]
          /\ w[n].level = kept[n].level /\ w[n].us = kept[n].us + full.us
      <4>1. full.us \in Nat
        BY <1>1, <1>2
      <4> HIDE DEF full
      <4> QED BY <1>1, <2>1, <4>1, WidenedIs
    <3>3. TotalTime(w) = TotalTime(kept) + full.us
      <4>1. full.us \in Nat
        BY <1>1, <1>2
      <4> HIDE DEF full
      <4> QED BY <1>1, <2>1, <4>1, TotalTimes
    <3> HIDE DEF w, new
    <3>4. new.merged = w /\ new.carry = 0 /\ c = 0
      BY <1>1, <2>1, <3>1
    <3>5. kept[n].us \in Nat
      <4>1. kept[n] \in Pulse
        BY <1>1, <1>4, <2>1
      <4> QED BY <4>1 DEF Pulse
    <3>6. \A j \in 1..n : w[j].us >= us /\ w[j].level = kept[j].level
      <4> SUFFICES ASSUME NEW j \in 1..n PROVE w[j].us >= us /\ w[j].level = kept[j].level
        OBVIOUS
      <4>1. CASE j = n
        BY <1>1, <1>2, <3>2, <3>5, <4>1
      <4>2. CASE j # n
        <5>1. j \in 1..(n - 1)
          BY <1>1, <4>2
        <5> QED BY <1>1, <3>2, <5>1
      <4> QED BY <4>1, <4>2
    <3>7. \A j \in 2..n : w[j].level # w[j - 1].level
      <4>1. \A j \in 2..n : j \in 1..n /\ j - 1 \in 1..n
        BY <1>1
      <4> QED BY <1>1, <3>6, <4>1
    <3>8. w # <<>>
      BY <1>1, <1>4, <2>1, <3>2
    <3>9. Kept(us, new)
      BY <3>1, <3>2, <3>4, <3>6, <3>7 DEF Kept
    <3> QED BY <1>2, <1>3, <2>0, <3>3, <3>4, <3>8, <3>9 DEF new
  <2>2. CASE ~(kept # <<>> /\ Last(kept).level = e.level)
    <3> DEFINE w == Append(kept, full)
    <3>1. new = [merged |-> w, carry |-> 0]
      BY <2>0, <2>2 DEF MergeEdge
    <3>2. /\ w \in Seq(Pulse) /\ Len(w) = n + 1
          /\ \A i \in 1..n : w[i] = kept[i]
          /\ w[n + 1] = full
      BY <1>1, <1>2, AppendProperties
    <3>3. TotalTime(w) = TotalTime(kept) + full.us
      BY <1>1, <1>2, TotalTimes
    <3> HIDE DEF w, new
    <3>4. new.merged = w /\ new.carry = 0
      BY <3>1
    <3>5. \A j \in 1..(n + 1) : w[j].us >= us
      <4>1. \A j \in 1..(n + 1) : j \in 1..n \/ j = n + 1
        BY <1>1
      <4>2. full.us >= us
        BY <1>1, <1>2, <1>7
      <4> HIDE DEF full
      <4> QED BY <1>1, <3>2, <4>1, <4>2
    <3>6. \A j \in 2..(n + 1) : w[j].level # w[j - 1].level
      <4> SUFFICES ASSUME NEW j \in 2..(n + 1) PROVE w[j].level # w[j - 1].level
        OBVIOUS
      <4>1. CASE j = n + 1
        <5>1. n >= 1 /\ n \in 1..n /\ j - 1 = n /\ kept # <<>>
          BY <1>1, <4>1
        <5>2. kept[n].level # e.level
          BY <2>2, <5>1 DEF Last
        <5> QED BY <1>2, <3>2, <4>1, <5>1, <5>2
      <4>2. CASE j # n + 1
        <5>1. j \in 2..n /\ j \in 1..n /\ j - 1 \in 1..n
          BY <1>1, <4>2
        <5> QED BY <1>1, <3>2, <5>1
      <4> QED BY <4>1, <4>2
    <3>7. w # <<>>
      BY <1>1, <3>2
    <3>8. Kept(us, new)
      BY <3>1, <3>2, <3>4, <3>5, <3>6 DEF Kept
    <3> QED BY <1>1, <1>2, <1>3, <2>0, <3>3, <3>4, <3>7, <3>8 DEF new
  <2> QED BY <2>1, <2>2
<1> QED BY <1>2, <1>5, <1>6, <1>7

\* What apply_resolution (client.py:55) makes of any number of pulses, none of
\* them of no time at all, at any resolution: GlitchFree of Wire without the
\* stream.
THEOREM Resolved ==
    ASSUME NEW edges \in Seq(Pulse), \A k \in 1..Len(edges) : edges[k].us >= 1,
           NEW us \in Nat, us >= 1
    PROVE  LET merged == ApplyResolution(edges, us)
           IN  /\ \A k \in 1..Len(merged) : merged[k].us >= us
               /\ us > 1 => \A k \in 2..Len(merged) : merged[k].level # merged[k - 1].level
               /\ IF \A k \in 1..Len(edges) : edges[k].us < us
                  THEN merged = <<>> ELSE TotalTime(merged) = TotalTime(edges)
<1> DEFINE n == Len(edges)
<1>1. n \in Nat /\ DOMAIN edges = 1..n /\ \A k \in 1..n : edges[k] \in Pulse /\ edges[k].us \in Nat
  <2>1. \A k \in 1..n : edges[k] \in Pulse
    OBVIOUS
  <2> QED BY <2>1 DEF Pulse
<1>2. CASE us <= 1
  <2>1. ApplyResolution(edges, us) = edges /\ us = 1
    BY <1>2 DEF ApplyResolution
  <2>2. ASSUME \A k \in 1..n : edges[k].us < us PROVE edges = <<>>
    <3>1. \A k \in 1..n : FALSE
      BY <1>1, <2>1, <2>2
    <3>2. n = 0
      BY <1>1, <3>1
    <3> QED BY <3>2
  <2> QED BY <2>1, <2>2
<1>3. CASE edges = <<>>
  <2>1. ApplyResolution(edges, us) = <<>>
    BY <1>3 DEF ApplyResolution
  <2> QED BY <1>3, <2>1
<1>4. CASE us > 1 /\ edges # <<>>
  <2>1. PICK v : /\ v[0] = [merged |-> <<>>, carry |-> 0] /\ v[n] = MergeEdges(us, edges)
                 /\ \A k \in 1..n : v[k] = MergeEdge(us, v[k - 1], edges[k])
    BY <1>1, MergeFold
  <2>2. PICK t : TimesOf(t, edges) /\ t[n] = TotalTime(edges)
    BY <1>1, TimesFold DEF TimesOf
  <2> DEFINE Done(k) == /\ Kept(us, v[k])
                        /\ v[k].carry + TotalTime(v[k].merged) = t[k]
                        /\ v[k].merged = <<>> <=> \A j \in 1..k : edges[j].us < us
             S == {k \in Nat : k <= n => Done(k)}
  <2>3. 0 \in S
    <3>1. v[0].merged = <<>> /\ v[0].carry = 0
      BY <2>1
    <3>2. Kept(us, v[0])
      BY <2>1, <3>1 DEF Kept
    <3> QED BY <2>2, <3>1, <3>2, TotalTimes DEF TimesOf
  <2>4. ASSUME NEW k \in Nat, k \in S PROVE k + 1 \in S
    <3> SUFFICES ASSUME k + 1 <= n PROVE Done(k + 1)
      OBVIOUS
    <3>1. k + 1 \in 1..n /\ k <= n /\ (k + 1) - 1 = k
      BY <1>1
    <3>2. Done(k) /\ v[k + 1] = MergeEdge(us, v[k], edges[k + 1]) /\ t[k + 1] = t[k] + edges[k + 1].us
      BY <2>1, <2>2, <2>4, <3>1 DEF TimesOf
    <3>3. /\ Kept(us, v[k + 1])
          /\ v[k + 1].carry + TotalTime(v[k + 1].merged)
               = v[k].carry + TotalTime(v[k].merged) + edges[k + 1].us
          /\ v[k + 1].merged = <<>> <=> v[k].merged = <<>> /\ edges[k + 1].us < us
      <4>1. Kept(us, v[k]) /\ edges[k + 1] \in Pulse
        BY <1>1, <3>1, <3>2
      <4> HIDE DEF Done
      <4> QED BY <1>4, <3>2, <4>1, MergeKeeps
    <3>4. \A j \in 1..(k + 1) : j \in 1..k \/ j = k + 1
      OBVIOUS
    <3>5. k + 1 \in 1..(k + 1) /\ \A j \in 1..k : j \in 1..(k + 1)
      OBVIOUS
    <3> QED BY <3>2, <3>3, <3>4, <3>5
  <2> HIDE DEF S
  <2>5. Nat \subseteq S
    BY <2>3, <2>4, Induction
  <2>6. Done(n)
    BY <1>1, <2>5 DEF S
  <2> DEFINE end == MergeEdges(us, edges)
  <2>7. /\ Kept(us, end) /\ end.carry + TotalTime(end.merged) = TotalTime(edges)
        /\ end.merged = <<>> <=> \A j \in 1..n : edges[j].us < us
    BY <2>1, <2>2, <2>6
  <2> HIDE DEF end
  <2>8. ~(end.carry > 0 /\ end.merged # <<>>)
    BY <2>7 DEF Kept
  <2>9. ApplyResolution(edges, us) = end.merged
    BY <1>4, <2>8 DEF ApplyResolution, end
  <2>10. /\ end.merged \in Seq(Pulse) /\ end.carry \in Nat
         /\ \A j \in 1..Len(end.merged) : end.merged[j].us >= us
         /\ \A j \in 2..Len(end.merged) : end.merged[j].level # end.merged[j - 1].level
         /\ end.carry > 0 => end.merged = <<>>
    BY <2>7 DEF Kept
  <2>11. end.merged # <<>> => TotalTime(end.merged) = TotalTime(edges)
    <3>1. TotalTime(end.merged) \in Nat
      BY <2>10, TotalTimes
    <3>2. end.merged # <<>> => end.carry = 0
      BY <2>10
    <3> QED BY <2>7, <3>1, <3>2
  <2> QED BY <2>7, <2>9, <2>10, <2>11
<1> QED BY <1>2, <1>3, <1>4

-----------------------------------------------------------------------------
(* Sums, widths and concatenations.                                        *)

\* v[k] is the sum of the first k values of f.
Sums(v, n, f) == v[0] = 0 /\ \A k \in 1..n : v[k] = v[k - 1] + f[k]

LEMMA SumsAgree ==
    ASSUME NEW n \in Nat, NEW f, NEW v, NEW w, Sums(v, n, f), Sums(w, n, f)
    PROVE  v[n] = w[n]
<1> DEFINE S == {k \in Nat : k <= n => v[k] = w[k]}
<1>1. 0 \in S
  BY DEF Sums
<1>2. ASSUME NEW k \in Nat, k \in S PROVE k + 1 \in S
  <2> SUFFICES ASSUME k + 1 <= n PROVE v[k + 1] = w[k + 1]
    OBVIOUS
  <2>1. k + 1 \in 1..n /\ (k + 1) - 1 = k /\ k <= n
    OBVIOUS
  <2> QED BY <1>2, <2>1 DEF Sums
<1> HIDE DEF S
<1>3. Nat \subseteq S
  BY <1>1, <1>2, Induction
<1> QED BY <1>3 DEF S

\* Sums of natural numbers grow, by no more than the values do.
LEMMA SumsGrow ==
    ASSUME NEW n \in Nat, NEW f, \A k \in 1..n : f[k] \in Nat, NEW v, Sums(v, n, f)
    PROVE  /\ \A k \in 0..n : v[k] \in Nat /\ v[k] <= v[n]
           /\ (\A k \in 1..n : f[k] <= 8) => v[n] <= 8 * n
<1> DEFINE S == {k \in Nat : k <= n => /\ v[k] \in Nat /\ \A i \in 0..k : v[i] \in Nat /\ v[i] <= v[k]
                                       /\ (\A j \in 1..n : f[j] <= 8) => v[k] <= 8 * k}
<1>1. 0 \in S
  BY DEF Sums
<1>2. ASSUME NEW k \in Nat, k \in S PROVE k + 1 \in S
  <2> SUFFICES ASSUME k + 1 <= n
               PROVE  /\ v[k + 1] \in Nat /\ \A i \in 0..(k + 1) : v[i] \in Nat /\ v[i] <= v[k + 1]
                      /\ (\A j \in 1..n : f[j] <= 8) => v[k + 1] <= 8 * (k + 1)
    OBVIOUS
  <2>1. k + 1 \in 1..n /\ (k + 1) - 1 = k /\ k <= n
    OBVIOUS
  <2>2. v[k + 1] = v[k] + f[k + 1] /\ f[k + 1] \in Nat
    BY <2>1 DEF Sums
  <2>3. \A i \in 0..(k + 1) : i \in 0..k \/ i = k + 1
    OBVIOUS
  <2>4. /\ v[k] \in Nat /\ \A i \in 0..k : v[i] \in Nat /\ v[i] <= v[k]
        /\ (\A j \in 1..n : f[j] <= 8) => v[k] <= 8 * k
    BY <1>2, <2>1
  <2>5. v[k + 1] \in Nat /\ v[k] <= v[k + 1]
    BY <2>2, <2>4
  <2>6. \A i \in 0..(k + 1) : v[i] \in Nat /\ v[i] <= v[k + 1]
    BY <2>3, <2>4, <2>5
  <2>7. ASSUME \A j \in 1..n : f[j] <= 8 PROVE v[k + 1] <= 8 * (k + 1)
    BY <2>1, <2>2, <2>4, <2>7
  <2> QED BY <2>5, <2>6, <2>7
<1> HIDE DEF S
<1>3. Nat \subseteq S
  BY <1>1, <1>2, Induction
<1>4. n \in S
  BY <1>3
<1> QED BY <1>4 DEF S

\* The first elements of a sequence, and one more.
LEMMA PrefixGrows ==
    ASSUME NEW S, NEW s \in Seq(S)
    PROVE  /\ SubSeq(s, 1, 0) = <<>> /\ SubSeq(s, 1, Len(s)) = s
           /\ \A i \in 0..Len(s) : SubSeq(s, 1, i) \in Seq(S) /\ Len(SubSeq(s, 1, i)) = i
           /\ \A i \in 0..Len(s) : \A j \in 1..i : SubSeq(s, 1, i)[j] = s[j]
<1>1. Len(s) \in Nat /\ \A j \in 1..Len(s) : s[j] \in S
  BY LenProperties, ElementOfSeq
<1>2. ASSUME NEW i \in 0..Len(s)
      PROVE  /\ SubSeq(s, 1, i) \in Seq(S) /\ Len(SubSeq(s, 1, i)) = i
             /\ \A j \in 1..i : SubSeq(s, 1, i)[j] = s[j]
  <2>1. i \in Int /\ 1 \in Int /\ \A j \in 1..i : s[j] \in S
    BY <1>1
  <2>2. /\ SubSeq(s, 1, i) \in Seq(S)
        /\ Len(SubSeq(s, 1, i)) = IF 1 <= i THEN i - 1 + 1 ELSE 0
        /\ \A j \in 1..(i - 1 + 1) : SubSeq(s, 1, i)[j] = s[1 + j - 1]
    BY <2>1, SubSeqProperties
  <2>3. \A j \in 1..i : j \in 1..(i - 1 + 1) /\ 1 + j - 1 = j
    OBVIOUS
  <2> QED BY <2>2, <2>3
<1>3. SubSeq(s, 1, 0) = <<>> /\ SubSeq(s, 1, Len(s)) = s
  BY SubSeqEmpty, SubSeqFull
<1> QED BY <1>2, <1>3

\* Widths of the first fields.
LEMMA WidthsSums ==
    ASSUME NEW fs \in Seq(Nat), NEW v, Sums(v, Len(fs), fs)
    PROVE  \A i \in 0..Len(fs) : Widths(SubSeq(fs, 1, i)) = v[i]
<1> SUFFICES ASSUME NEW i \in 0..Len(fs) PROVE Widths(SubSeq(fs, 1, i)) = v[i]
  OBVIOUS
<1>1. Len(fs) \in Nat
  BY LenProperties
<1>2. PICK p : p = SubSeq(fs, 1, i)
  OBVIOUS
<1>3. p \in Seq(Nat) /\ Len(p) = i /\ \A j \in 1..i : p[j] = fs[j]
  BY <1>2, PrefixGrows
<1>4. Len(p) \in Nat /\ DOMAIN p = 1..Len(p)
  BY <1>3, LenProperties
<1>5. PICK w : w[0] = 0 /\ w[Len(p)] = Widths(p) /\ \A k \in 1..Len(p) : w[k] = w[k - 1] + p[k]
  BY <1>4, WidthsFold
<1>6. Sums(w, i, fs)
  BY <1>3, <1>5 DEF Sums
<1>7. Sums(v, i, fs)
  <2>1. \A k \in 1..i : k \in 1..Len(fs)
    BY <1>1
  <2> QED BY <2>1 DEF Sums
<1>8. v[i] = w[i]
  BY <1>1, <1>6, <1>7, SumsAgree
<1> QED BY <1>2, <1>3, <1>5, <1>8

\* There are sums of every finite number of values.
LEMMA SumsExist ==
    ASSUME NEW fs, Len(fs) \in Nat, DOMAIN fs = 1..Len(fs)
    PROVE  \E v : Sums(v, Len(fs), fs)
BY WidthsFold DEF Sums

\* Pieces put one after the other: each is where the lengths of those before it
\* add up to.
Pieces(seqs, n, v) ==
    /\ Len(seqs) = n /\ (n = 0 => seqs = <<>>) /\ \A i \in 1..n : seqs[i] \in Seq(Nat)
    /\ v[0] = 0 /\ \A i \in 1..n : v[i] = v[i - 1] + Len(seqs[i])

Together(flat, seqs, n, v) ==
    /\ flat \in Seq(Nat) /\ Len(flat) = v[n] /\ v[n] \in Nat
    /\ \A i \in 1..n : \A j \in 1..Len(seqs[i]) :
         v[i - 1] + j \in 1..v[n] /\ flat[v[i - 1] + j] = seqs[i][j]

LEMMA Flattened ==
    ASSUME NEW n \in Nat, NEW seqs, NEW v, Pieces(seqs, n, v)
    PROVE  Together(FlattenSeq(seqs), seqs, n, v)
<1>0. /\ Len(seqs) = n /\ (n = 0 => seqs = <<>>) /\ \A i \in 1..n : seqs[i] \in Seq(Nat)
      /\ v[0] = 0 /\ \A i \in 1..n : v[i] = v[i - 1] + Len(seqs[i])
  BY DEF Pieces
<1>1. \A i \in 1..n : Len(seqs[i]) \in Nat
  BY <1>0, LenProperties
<1>2. CASE n = 0
  <2>1. FlattenSeq(seqs) = <<>>
    BY <1>0, <1>2 DEF FlattenSeq
  <2>2. 1..n = {}
    BY <1>2
  <2>3. <<>> \in Seq(Nat) /\ Len(<<>>) = 0
    OBVIOUS
  <2> QED BY <1>0, <1>2, <2>1, <2>2, <2>3 DEF Together
<1>3. CASE n # 0
  <2> DEFINE F(h, k) == [i \in 1..k |-> IF i = 1 THEN seqs[i] ELSE h[i - 1] \o seqs[i]]
             flatten == CHOOSE h : h = F(h, n)
             S == {k \in Nat : \E h : h = F(h, k)}
  <2>1. FlattenSeq(seqs) = flatten[n]
    BY <1>0, <1>3 DEF FlattenSeq
  <2>2. 0 \in S
    <3> DEFINE h == [i \in 1..0 |-> <<>>]
    <3>1. h = F(h, 0)
      OBVIOUS
    <3> QED BY <3>1
  <2>3. ASSUME NEW k \in Nat, k \in S PROVE k + 1 \in S
    <3>1. PICK g : g = F(g, k)
      BY <2>3
    <3>2. \A i \in 1..k : g[i] = IF i = 1 THEN seqs[i] ELSE g[i - 1] \o seqs[i]
      BY <3>1
    <3> DEFINE new == IF k = 0 THEN seqs[1] ELSE g[k] \o seqs[k + 1]
    <3>3. PICK e : e = new
      OBVIOUS
    <3>4. PICK h : h = [i \in 1..(k + 1) |-> IF i = k + 1 THEN e ELSE g[i]]
      OBVIOUS
    <3>5. h[k + 1] = e /\ \A i \in 1..k : h[i] = g[i]
      BY <3>4
    <3>6. ASSUME NEW i \in 1..(k + 1) PROVE h[i] = IF i = 1 THEN seqs[i] ELSE h[i - 1] \o seqs[i]
      <4>1. CASE i = k + 1
        <5>1. CASE k = 0
          BY <3>3, <3>5, <4>1, <5>1
        <5>2. CASE k # 0
          <6>1. k \in 1..k /\ i - 1 = k /\ i # 1
            BY <4>1, <5>2
          <6> QED BY <3>3, <3>5, <4>1, <5>2, <6>1
        <5> QED BY <5>1, <5>2
      <4>2. CASE i # k + 1
        <5>1. i \in 1..k /\ (i # 1 => i - 1 \in 1..k)
          BY <4>2
        <5> QED BY <3>2, <3>5, <5>1
      <4> QED BY <4>1, <4>2
    <3>7. h = F(h, k + 1)
      BY <3>4, <3>6
    <3> HIDE DEF F
    <3> QED BY <3>7
  <2>4. Nat \subseteq S
    <3> HIDE DEF S
    <3> QED BY <2>2, <2>3, Induction
  <2>5. \E h : h = F(h, n)
    BY <2>4
  <2>6. flatten = F(flatten, n)
    <3> HIDE DEF F
    <3> QED BY <2>5
  <2> HIDE DEF flatten, S
  <2>7. \A i \in 1..n : flatten[i] = IF i = 1 THEN seqs[i] ELSE flatten[i - 1] \o seqs[i]
    BY <2>6
  <2> HIDE DEF F
  <2> DEFINE Right(k) == /\ flatten[k] \in Seq(Nat) /\ Len(flatten[k]) = v[k] /\ v[k] \in Nat
                         /\ \A i \in 1..k : \A j \in 1..Len(seqs[i]) :
                              v[i - 1] + j \in 1..v[k] /\ flatten[k][v[i - 1] + j] = seqs[i][j]
             T == {k \in Nat : k \in 1..n => Right(k)}
  <2>8. 0 \in T
    OBVIOUS
  <2>9. ASSUME NEW k \in Nat, k \in T PROVE k + 1 \in T
    <3> HIDE DEF Right
    <3> SUFFICES ASSUME k + 1 \in 1..n PROVE Right(k + 1)
      OBVIOUS
    <3> USE DEF Right
    <3>1. (k + 1) - 1 = k /\ v[k + 1] = v[k] + Len(seqs[k + 1])
      <4>1. (k + 1) - 1 = k
        OBVIOUS
      <4> QED BY <1>0, <4>1
    <3>2. CASE k = 0
      <4>1. flatten[1] = seqs[1] /\ v[1] = Len(seqs[1]) /\ v[1] \in Nat /\ seqs[1] \in Seq(Nat)
        BY <1>0, <1>1, <2>7, <3>1, <3>2
      <4>2. \A i \in 1..1 : i = 1 /\ v[i - 1] = 0
        <5>1. \A i \in 1..1 : i = 1 /\ i - 1 = 0
          OBVIOUS
        <5> QED BY <1>0, <5>1
      <4>3. Right(1)
        BY <4>1, <4>2
      <4> QED BY <3>2, <4>3
    <3>3. CASE k # 0
      <4>0. k \in 1..n /\ k + 1 # 1 /\ k + 1 \in 1..n
        BY <3>3
      <4>1. Right(k)
        BY <2>9, <4>0
      <4>2. PICK a, b, c : a = flatten[k] /\ b = seqs[k + 1] /\ c = flatten[k + 1]
        OBVIOUS
      <4>3. c = a \o b
        <5>1. flatten[k + 1] = flatten[(k + 1) - 1] \o seqs[k + 1]
          BY <2>7, <4>0
        <5> QED BY <3>1, <4>2, <5>1
      <4>4. a \in Seq(Nat) /\ b \in Seq(Nat)
        BY <1>0, <4>0, <4>1, <4>2
      <4>5. /\ Len(a) = v[k] /\ v[k] \in Nat /\ Len(b) \in Nat /\ v[k + 1] = Len(a) + Len(b)
            /\ Len(a) \in Nat
        BY <1>1, <3>1, <4>1, <4>2
      <4>6. /\ c \in Seq(Nat) /\ Len(c) = Len(a) + Len(b)
            /\ \A i \in 1..(Len(a) + Len(b)) : c[i] = IF i <= Len(a) THEN a[i] ELSE b[i - Len(a)]
        BY <4>3, <4>4, ConcatProperties
      <4>7. ASSUME NEW i \in 1..(k + 1), NEW j \in 1..Len(seqs[i])
            PROVE  v[i - 1] + j \in 1..v[k + 1] /\ c[v[i - 1] + j] = seqs[i][j]
        <5>1. CASE i = k + 1
          <6>1. v[i - 1] = Len(a) /\ j \in 1..Len(b) /\ seqs[i] = b
            BY <3>1, <4>2, <4>5, <5>1
          <6> HIDE DEF Right
          <6>2. Len(a) + j \in 1..(Len(a) + Len(b)) /\ ~(Len(a) + j <= Len(a)) /\ (Len(a) + j) - Len(a) = j
            <7>1. \A x, y \in Nat : \A z \in 1..y : x + z \in 1..(x + y) /\ ~(x + z <= x) /\ (x + z) - x = z
              OBVIOUS
            <7> QED BY <4>5, <6>1, <7>1
          <6> QED BY <4>5, <4>6, <6>1, <6>2
        <5>2. CASE i # k + 1
          <6>1. i \in 1..k
            BY <5>2
          <6>2. v[i - 1] + j \in 1..Len(a) /\ a[v[i - 1] + j] = seqs[i][j]
            BY <4>1, <4>2, <4>5, <6>1
          <6>3. v[i - 1] + j \in 1..(Len(a) + Len(b)) /\ v[i - 1] + j <= Len(a)
            <7>1. \A x, y \in Nat : \A z \in 1..x : z \in 1..(x + y) /\ z <= x
              OBVIOUS
            <7> QED BY <4>5, <6>2, <7>1
          <6> QED BY <4>5, <4>6, <6>2, <6>3
        <5> QED BY <5>1, <5>2
      <4>8. v[k + 1] \in Nat
        BY <4>5
      <4> QED BY <4>2, <4>5, <4>6, <4>7, <4>8
    <3> QED BY <3>2, <3>3
  <2>10. Nat \subseteq T
    <3> HIDE DEF T
    <3> QED BY <2>8, <2>9, Induction
  <2>11. n \in 1..n
    BY <1>3
  <2>12. Right(n)
    BY <2>10, <2>11
  <2> QED BY <2>1, <2>12 DEF Together
<1> QED BY <1>2, <1>3

-----------------------------------------------------------------------------
(* The layouts of the two sides.                                           *)

\* A layout a sender packs: fields of one to eight bytes; a field that counts
\* the items is a number of one or two bytes.
Laid(l) ==
    /\ l.fields \in Seq(1..8) /\ Len(l.fields) <= 9
    /\ l.count \in 0..Len(l.fields) /\ l.unit \in 0..8
    /\ l.count # 0 => l.fields[l.count] \in {1, 2}

LEMMA LayoutsLaid ==
    /\ \A name \in DOMAIN EventStruct   : Laid(EventStruct[name])
    /\ \A name \in DOMAIN CommandLayout : Laid(CommandLayout[name])
<1>1. Laid(Fixed(<<H, B, B, I>>))
  BY DEF Laid, Fixed, Counted, B, H, I, Q, Mac
<1>2. Laid(Fixed(<<H, B, B, Q>>))
  BY DEF Laid, Fixed, Counted, B, H, I, Q, Mac
<1>3. Laid(Fixed(<<B, B, Q>>))
  BY DEF Laid, Fixed, Counted, B, H, I, Q, Mac
<1>4. Laid(Fixed(<<H, B, H, Q>>))
  BY DEF Laid, Fixed, Counted, B, H, I, Q, Mac
<1>5. Laid(Counted(<<H, B, H, Q>>, 3, B + I))
  BY DEF Laid, Fixed, Counted, B, H, I, Q, Mac
<1>6. Laid(Counted(<<B, H, Q>>, 2, 1))
  BY DEF Laid, Fixed, Counted, B, H, I, Q, Mac
<1>7. Laid(Fixed(<<B, B, B, H, B, B>>))
  BY DEF Laid, Fixed, Counted, B, H, I, Q, Mac
<1>8. Laid(Fixed(<<B, B, B, B, B, B, H, H, H>>))
  BY DEF Laid, Fixed, Counted, B, H, I, Q, Mac
<1>9. Laid(Fixed(<<B, I, B, B, B, B, B, B, H>>))
  BY DEF Laid, Fixed, Counted, B, H, I, Q, Mac
<1>10. Laid(Counted(<<H, H, I, Q>>, 2, 1))
  BY DEF Laid, Fixed, Counted, B, H, I, Q, Mac
<1>11. Laid(Fixed(<<H, I, H, H, H>>))
  BY DEF Laid, Fixed, Counted, B, H, I, Q, Mac
<1>12. Laid(Fixed(<<I, B>>))
  BY DEF Laid, Fixed, Counted, B, H, I, Q, Mac
<1>13. Laid(Fixed(<<H, Mac, I>>))
  BY DEF Laid, Fixed, Counted, B, H, I, Q, Mac
<1>14. Laid(Fixed(<<B>>))
  BY DEF Laid, Fixed, Counted, B, H, I, Q, Mac
<1>15. Laid(Fixed(<<Mac, B>>))
  BY DEF Laid, Fixed, Counted, B, H, I, Q, Mac
<1>16. Laid(Counted(<<H, B>>, 2, Mac + B))
  BY DEF Laid, Fixed, Counted, B, H, I, Q, Mac
<1>17. Laid(Fixed(<<Mac, B, Q>>))
  BY DEF Laid, Fixed, Counted, B, H, I, Q, Mac
<1>18. Laid(Fixed(<<B, B, B, I>>))
  BY DEF Laid, Fixed, Counted, B, H, I, Q, Mac
<1>19. Laid(Fixed(<<B, B, B, B>>))
  BY DEF Laid, Fixed, Counted, B, H, I, Q, Mac
<1>20. Laid(Fixed(<<B, B>>))
  BY DEF Laid, Fixed, Counted, B, H, I, Q, Mac
<1>21. Laid(Counted(<<B, H, I, I, I, H, I>>, 2, B + I))
  BY DEF Laid, Fixed, Counted, B, H, I, Q, Mac
<1>22. Laid(Fixed(<<B, I, H>>))
  BY DEF Laid, Fixed, Counted, B, H, I, Q, Mac
<1>23. Laid(Counted(<<B, H, I, I, I, I, H>>, 2, B + I))
  BY DEF Laid, Fixed, Counted, B, H, I, Q, Mac
<1>24. Laid(Fixed(<<B, I, B, B, B, B, B>>))
  BY DEF Laid, Fixed, Counted, B, H, I, Q, Mac
<1>25. Laid(Counted(<<B, H>>, 2, 1))
  BY DEF Laid, Fixed, Counted, B, H, I, Q, Mac
<1>26. Laid(Fixed(<<B, H>>))
  BY DEF Laid, Fixed, Counted, B, H, I, Q, Mac
<1>27. Laid(Fixed(<<B, B, H>>))
  BY DEF Laid, Fixed, Counted, B, H, I, Q, Mac
<1>28. Laid(Counted(<<H, H, I>>, 2, 1))
  BY DEF Laid, Fixed, Counted, B, H, I, Q, Mac
<1>29. Laid(Fixed(<<>>))
  BY DEF Laid, Fixed, Counted, B, H, I, Q, Mac
<1>30. Laid(Fixed(<<I>>))
  BY DEF Laid, Fixed, Counted, B, H, I, Q, Mac
<1>31. Laid(Fixed(<<Mac>>))
  BY DEF Laid, Fixed, Counted, B, H, I, Q, Mac
<1>32. \A name \in DOMAIN EventStruct : Laid(EventStruct[name])
  BY <1>1, <1>2, <1>3, <1>4, <1>5, <1>6, <1>7, <1>8, <1>9, <1>10, <1>11, <1>12, <1>13,
     <1>14, <1>15, <1>16, <1>17, <1>18, <1>19, <1>20, <1>21, <1>22, <1>23, <1>24, <1>25,
     <1>26, <1>27, <1>28, <1>29, <1>30, <1>31 DEF EventStruct
<1>33. \A name \in DOMAIN CommandLayout : Laid(CommandLayout[name])
  BY <1>1, <1>2, <1>3, <1>4, <1>5, <1>6, <1>7, <1>8, <1>9, <1>10, <1>11, <1>12, <1>13,
     <1>14, <1>15, <1>16, <1>17, <1>18, <1>19, <1>20, <1>21, <1>22, <1>23, <1>24, <1>25,
     <1>26, <1>27, <1>28, <1>29, <1>30, <1>31 DEF CommandLayout, CmdAdcSample,
     CmdBleDeleteBond, CmdBleDisablePairing, CmdBleEnablePairing, CmdBleGetInRange,
     CmdBleStartScan, CmdBleStopScan, CmdGpioConfig, CmdGpioGet, CmdGpioSet,
     CmdGpioSignalExchange, CmdGpioSignalRx, CmdGpioSignalTx, CmdHeartbeat, CmdPortBind,
     CmdPortStatus, CmdPortUnbind, CmdSyn, CmdSyncRequest, CmdThreadPassthrough,
     CmdUartConfig, CmdUartRead, CmdUartSend
<1> QED BY <1>32, <1>33

\* The layout r reads what the layout w packs: the same fields, or fewer of a
\* message whose last ones the receiver has no use for.
Agrees(name, w, r) ==
    /\ r.count = w.count /\ r.unit = w.unit
    /\ \/ r.fields = w.fields
       \/ /\ name \in {"ERROR", "BLE_DISABLE_PAIRING"}
          /\ w.count = 0 /\ ~ r.exact
          /\ r.fields \in Seq(1..8) /\ Len(r.fields) <= Len(w.fields)
          /\ \A i \in 1..Len(r.fields) : r.fields[i] = w.fields[i]
    /\ r.exact \in BOOLEAN /\ (r.exact => w.count = 0)

LEMMA LayoutsAgree ==
    /\ \A name \in DOMAIN EventStruct :
         \A n \in Nat : Agrees(name, EventStruct[name], EventLayout(name, n))
    /\ \A name \in DOMAIN CommandLayout :
         Agrees(name, CommandLayout[name], CommandStruct[name])
<1>1. \A name, fs, i, u : i # 0 => Agrees(name, Counted(fs, i, u), Counted(fs, i, u))
  BY DEF Agrees, Counted
<1>2. \A name, fs : Agrees(name, Fixed(fs), Fixed(fs)) /\ Agrees(name, Fixed(fs), Exact(fs))
  BY DEF Agrees, Fixed, Exact
<1>3. /\ Agrees("ERROR", Fixed(<<H, B, B, I>>), Fixed(<<H, B, B>>))
      /\ Agrees("ERROR", Fixed(<<H, B, B, I>>), Fixed(<<H, B>>))
      /\ Agrees("BLE_DISABLE_PAIRING", Fixed(<<B>>), Fixed(<<>>))
  BY DEF Agrees, Fixed, H, B, I
<1>4. ASSUME NEW name \in DOMAIN EventStruct, NEW n \in Nat
      PROVE  Agrees(name, EventStruct[name], EventLayout(name, n))
  BY <1>1, <1>2, <1>3 DEF EventStruct, EventLayout, EventCmdAck, EventGpioValue, EventGpioEdge,
     EventAdcValue, EventGpioSignalCaptured, EventUartRx, EventThreadResponse, EventSyncResponse,
     EventPortStatus, EventBlePairingEnabled, EventBlePairingDisabled, EventBleInRangeList,
     EventBleDeviceInRange, EventBleDeviceOutOfRange, EventBleRssi, EventUartStatus,
     EventGpioStatus, EventBleStatus, EventHeartbeat, EventError
<1>5. ASSUME NEW name \in DOMAIN CommandLayout
      PROVE  Agrees(name, CommandLayout[name], CommandStruct[name])
  BY <1>1, <1>2, <1>3 DEF CommandLayout, CommandStruct, CmdGpioConfig, CmdGpioSet, CmdGpioGet,
     CmdAdcSample, CmdGpioSignalTx, CmdGpioSignalRx, CmdGpioSignalExchange, CmdUartConfig,
     CmdUartSend, CmdUartRead, CmdPortBind, CmdPortUnbind, CmdPortStatus, CmdThreadPassthrough,
     CmdSyncRequest, CmdSyn, CmdHeartbeat, CmdBleEnablePairing, CmdBleDisablePairing,
     CmdBleGetInRange, CmdBleStartScan, CmdBleStopScan, CmdBleDeleteBond
<1> QED BY <1>4, <1>5

LEMMA OpcodesAgree ==
    /\ DOMAIN EventOpcode = DOMAIN EVENT /\ DOMAIN EventStruct = DOMAIN EVENT
    /\ DOMAIN CMD = DOMAIN CommandOpcode /\ DOMAIN CommandLayout = DOMAIN CommandOpcode
    /\ \A name \in DOMAIN EVENT :
         /\ EVENT[name] \in Nat
         /\ {n \in DOMAIN EventOpcode : EventOpcode[n] = EVENT[name]} = {name}
    /\ \A name \in DOMAIN CommandOpcode :
         /\ CommandOpcode[name] \in Nat
         /\ {n \in DOMAIN CMD : CMD[n] = CommandOpcode[name]} = {name}
<1>1. /\ DOMAIN EventOpcode = DOMAIN EVENT /\ DOMAIN EventStruct = DOMAIN EVENT
      /\ \A n \in DOMAIN EVENT : EventOpcode[n] = EVENT[n] /\ EVENT[n] \in Nat
  BY DEF EVENT, EventOpcode, EventStruct
<1>2. \A n, k \in DOMAIN EVENT : EVENT[n] = EVENT[k] => n = k
  BY SMTT(60) DEF EVENT
<1>3. /\ DOMAIN CMD = DOMAIN CommandOpcode /\ DOMAIN CommandLayout = DOMAIN CommandOpcode
      /\ \A n \in DOMAIN CommandOpcode : CMD[n] = CommandOpcode[n] /\ CommandOpcode[n] \in Nat
  BY DEF CMD, CommandOpcode, CommandLayout
<1>4. \A n, k \in DOMAIN CommandOpcode : CommandOpcode[n] = CommandOpcode[k] => n = k
  BY SMTT(60) DEF CommandOpcode
<1> QED BY <1>1, <1>2, <1>3, <1>4

-----------------------------------------------------------------------------
(* Reading back what was packed.                                           *)

\* k elements after the first a.
Piece(s, a, k) == SubSeq(s, a + 1, a + k)

LEMMA PieceIs ==
    ASSUME NEW s \in Seq(Nat), NEW a \in Nat, NEW k \in Nat, a + k <= Len(s)
    PROVE  /\ Piece(s, a, k) \in Seq(Nat) /\ Len(Piece(s, a, k)) = k
           /\ \A j \in 1..k : Piece(s, a, k)[j] = s[a + j]
<1>1. Len(s) \in Nat /\ \A j \in 1..Len(s) : s[j] \in Nat
  BY LenProperties, ElementOfSeq
<1>2. a + 1 \in Int /\ a + k \in Int /\ \A j \in (a + 1)..(a + k) : s[j] \in Nat
  BY <1>1
<1>3. /\ SubSeq(s, a + 1, a + k) \in Seq(Nat)
      /\ Len(SubSeq(s, a + 1, a + k)) = IF a + 1 <= a + k THEN (a + k) - (a + 1) + 1 ELSE 0
      /\ \A j \in 1..((a + k) - (a + 1) + 1) : SubSeq(s, a + 1, a + k)[j] = s[(a + 1) + j - 1]
  BY <1>2, SubSeqProperties
<1>4. (a + k) - (a + 1) + 1 = k /\ (a + 1 <= a + k <=> k >= 1) /\ \A j \in 1..k : (a + 1) + j - 1 = a + j
  OBVIOUS
<1>5. PICK p, l : p = Piece(s, a, k) /\ l = (a + k) - (a + 1) + 1
  OBVIOUS
<1>6. /\ p \in Seq(Nat) /\ Len(p) = IF a + 1 <= a + k THEN l ELSE 0
      /\ \A j \in 1..l : p[j] = s[(a + 1) + j - 1]
  BY <1>3, <1>5 DEF Piece
<1>7. l = k
  BY <1>4, <1>5
<1>8. Len(p) = k
  BY <1>4, <1>6, <1>7
<1>9. \A j \in 1..k : p[j] = s[a + j]
  BY <1>4, <1>6, <1>7
<1> QED BY <1>5, <1>6, <1>8, <1>9

\* What Unpack reads from the fields and items of a message, laid out by w, with
\* a layout r that agrees.
LEMMA Unpacked ==
    ASSUME NEW name, NEW w, NEW r, Laid(w), Agrees(name, w, r),
           NEW fields \in Seq(Seq(Nat)), Len(fields) = Len(w.fields),
           \A i \in 1..Len(w.fields) : Len(fields[i]) = w.fields[i],
           NEW items \in Seq(Nat), w.count = 0 => items = <<>>,
           w.count # 0 => Len(items) = Number(fields[w.count]) * w.unit
    PROVE  \E got : /\ Unpack(name, r, FlattenSeq(fields) \o items) = <<got>>
                    /\ got \in [name : {name}, fields : Seq(Seq(Nat)), items : Seq(Nat)]
                    /\ got.name = name /\ IsPrefix(got.fields, fields) /\ got.items = items
                    /\ Len(got.fields) < Len(fields) => name \in {"ERROR", "BLE_DISABLE_PAIRING"}
<1> DEFINE m == Len(w.fields)
<1>1. /\ w.fields \in Seq(Nat) /\ m \in Nat /\ DOMAIN w.fields = 1..m /\ m = Len(w.fields)
      /\ \A i \in 1..m : w.fields[i] \in Nat
      /\ Len(fields) = m /\ \A i \in 1..m : Len(fields[i]) = w.fields[i]
  <2>1. w.fields \in Seq(1..8) /\ 1..8 \subseteq Nat
    BY DEF Laid
  <2>2. w.fields \in Seq(Nat)
    BY <2>1, SeqMonotonic
  <2> QED BY <2>2, LenProperties, ElementOfSeq
<1> HIDE DEF m
<1>2. PICK v : Sums(v, m, w.fields)
  BY <1>1, SumsExist
<1>3. \A k \in 0..m : v[k] \in Nat /\ v[k] <= v[m]
  BY <1>1, <1>2, SumsGrow
<1>4. PICK flat : flat = FlattenSeq(fields)
  OBVIOUS
<1>5. \A i \in 1..m : fields[i] \in Seq(Nat)
  BY <1>1, ElementOfSeq
<1>6. /\ flat \in Seq(Nat) /\ Len(flat) = v[m]
      /\ \A i \in 1..m : \A j \in 1..Len(fields[i]) :
           v[i - 1] + j \in 1..v[m] /\ flat[v[i - 1] + j] = fields[i][j]
  <2>1. v[0] = 0 /\ \A i \in 1..m : v[i] = v[i - 1] + Len(fields[i])
    BY <1>1, <1>2 DEF Sums
  <2>2. m = 0 => fields = <<>>
    BY <1>1, EmptySeq
  <2>3. Pieces(fields, m, v)
    BY <1>1, <1>5, <2>1, <2>2 DEF Pieces
  <2>4. Together(flat, fields, m, v)
    BY <1>1, <1>4, <2>3, Flattened
  <2> QED BY <2>4 DEF Together
<1>7. PICK data : data = flat \o items
  OBVIOUS
<1>8. Len(items) \in Nat /\ v[m] \in Nat
  BY <1>1, <1>3, LenProperties
<1>9. /\ data \in Seq(Nat) /\ Len(data) = v[m] + Len(items)
      /\ \A i \in 1..v[m] : data[i] = flat[i]
      /\ \A i \in 1..Len(items) : data[v[m] + i] = items[i]
  <2>1. flat \in Seq(Nat) /\ items \in Seq(Nat)
    BY <1>6
  <2>2. /\ data \in Seq(Nat) /\ Len(data) = Len(flat) + Len(items)
        /\ \A i \in 1..(Len(flat) + Len(items)) :
             data[i] = IF i <= Len(flat) THEN flat[i] ELSE items[i - Len(flat)]
    BY <1>7, <2>1, ConcatProperties
  <2>3. PICK d, k : d = v[m] /\ k = Len(items)
    OBVIOUS
  <2>4. d = Len(flat) /\ d \in Nat /\ k \in Nat
    BY <1>6, <1>8, <2>3
  <2>5. \A i \in 1..d : i \in 1..(d + k) /\ i <= d
    BY <2>4
  <2>6. \A i \in 1..k : d + i \in 1..(d + k) /\ ~(d + i <= d) /\ (d + i) - d = i
    BY <2>4
  <2>7. Len(data) = d + k /\ \A i \in 1..(d + k) : data[i] = IF i <= d THEN flat[i] ELSE items[i - d]
    BY <2>2, <2>3, <2>4
  <2>8. \A i \in 1..d : data[i] = flat[i]
    BY <2>5, <2>7
  <2>9. \A i \in 1..k : data[d + i] = items[i]
    BY <2>6, <2>7
  <2> QED BY <2>2, <2>3, <2>7, <2>8, <2>9
<1> DEFINE p == Len(r.fields)
<1>10. /\ r.fields \in Seq(Nat) /\ p \in Nat /\ p <= m /\ \A i \in 1..p : r.fields[i] = w.fields[i]
       /\ p < m => name \in {"ERROR", "BLE_DISABLE_PAIRING"} /\ w.count = 0 /\ ~ r.exact
  <2>1. CASE r.fields = w.fields
    BY <1>1, <2>1
  <2>2. CASE r.fields # w.fields
    <3>1. /\ r.fields \in Seq(1..8) /\ 1..8 \subseteq Nat /\ Len(r.fields) <= Len(w.fields)
          /\ \A i \in 1..Len(r.fields) : r.fields[i] = w.fields[i]
          /\ name \in {"ERROR", "BLE_DISABLE_PAIRING"} /\ w.count = 0 /\ ~ r.exact
      BY <2>2 DEF Agrees
    <3>2. r.fields \in Seq(Nat)
      BY <3>1, SeqMonotonic
    <3> QED BY <1>1, <3>1, <3>2, LenProperties
  <2> QED BY <2>1, <2>2
<1> HIDE DEF p
<1>11. \A i \in 1..p : i \in 1..m /\ i - 1 \in 0..m /\ i - 1 \in 0..p
  <2>1. p \in Nat /\ m \in Nat /\ p <= m
    BY <1>1, <1>10
  <2> QED BY <2>1
<1>12. Sums(v, p, r.fields)
  BY <1>2, <1>10, <1>11 DEF Sums
<1>13. /\ \A i \in 1..p : Offset(r, i) = v[i - 1]
       /\ Size(r) = v[p] /\ v[p] \in Nat /\ v[p] <= v[m]
  <2>1. \A i \in 0..p : Widths(SubSeq(r.fields, 1, i)) = v[i]
    BY <1>10, <1>12, WidthsSums DEF p
  <2>2. (p + 1) - 1 = p /\ p \in 0..p /\ p \in 0..m
    BY <1>1, <1>10
  <2> QED BY <1>3, <1>11, <2>1, <2>2 DEF Offset, Size, p
<1>14. PICK g : g = [i \in 1..p |-> SubSeq(data, Offset(r, i) + 1, Offset(r, i) + r.fields[i])]
  OBVIOUS
<1>15. ASSUME NEW i \in 1..p PROVE g[i] = fields[i]
  <2>1. /\ i \in 1..m /\ v[i - 1] \in Nat /\ r.fields[i] = Len(fields[i]) /\ Len(fields[i]) \in Nat
        /\ r.fields[i] \in Nat
    BY <1>1, <1>3, <1>10, <1>11, LenProperties, <1>5
  <2>2. PICK a, k : a = v[i - 1] /\ k = Len(fields[i])
    OBVIOUS
  <2>3. g[i] = SubSeq(data, a + 1, a + k)
    BY <1>13, <1>14, <2>1, <2>2
  <2>4. a \in Nat /\ k \in Nat
    BY <2>1, <2>2
  <2>5. \A j \in 1..k : a + j \in 1..v[m] /\ data[a + j] = fields[i][j]
    BY <1>6, <1>9, <2>1, <2>2
  <2>6. a + k <= Len(data)
    <3>1. a <= v[m]
      BY <1>3, <1>11, <2>2
    <3>2. a + k \in 1..v[m] \/ k = 0
      <4>1. k \in 1..k \/ k = 0
        BY <2>4
      <4> QED BY <2>5, <4>1
    <3>3. a + k <= v[m]
      BY <1>8, <2>4, <3>1, <3>2
    <3> QED BY <1>8, <1>9, <2>4, <3>3
  <2>7. PICK s : s = Piece(data, a, k)
    OBVIOUS
  <2>8. /\ s \in Seq(Nat) /\ Len(s) = k /\ \A j \in 1..k : s[j] = data[a + j]
    <3>1. data \in Seq(Nat)
      BY <1>9
    <3> QED BY <2>4, <2>6, <2>7, <3>1, PieceIs
  <2>9. s = fields[i]
    BY <1>5, <2>1, <2>2, <2>5, <2>8, SeqEqual
  <2> QED BY <2>3, <2>7, <2>9 DEF Piece
<1>16. PICK n : n = IF r.count = 0 THEN 0 ELSE Number(g[r.count]) * r.unit
  OBVIOUS
<1>17. n = Len(items) \/ w.count = 0
  <2>1. CASE w.count # 0
    <3>1. r.count = w.count /\ r.unit = w.unit
      BY DEF Agrees
    <3>2. p = m
      BY <1>1, <1>10, <2>1
    <3>3. w.count \in 1..p
      BY <1>1, <2>1, <3>2 DEF Laid
    <3> QED BY <1>15, <1>16, <2>1, <3>1, <3>3
  <2> QED BY <2>1
<1>18. PICK end : end = IF v[p] + n < Len(data) THEN v[p] + n ELSE Len(data)
  OBVIOUS
<1>19. SubSeq(data, v[p] + 1, end) = items
  <2>1. CASE w.count = 0
    <3>1. items = <<>> /\ Len(items) = 0 /\ n = 0
      BY <1>16, <2>1 DEF Agrees
    <3>2. end = v[p]
      BY <1>8, <1>9, <1>13, <1>18, <3>1
    <3>3. v[p] + 1 \in Int /\ end \in Int /\ end < v[p] + 1
      BY <1>13, <3>2
    <3> QED BY <3>1, <3>3, SubSeqEmpty
  <2>2. CASE w.count # 0
    <3>1. p = m /\ n = Len(items)
      BY <1>1, <1>10, <1>17, <2>2
    <3>2. PICK d, k : d = v[m] /\ k = Len(items)
      OBVIOUS
    <3>3. d \in Nat /\ k \in Nat
      BY <1>8, <3>2
    <3>4. end = d + k
      BY <1>9, <1>18, <3>1, <3>2, <3>3
    <3>5. PICK s : s = Piece(data, d, k)
      OBVIOUS
    <3>6. s \in Seq(Nat) /\ Len(s) = k /\ \A j \in 1..k : s[j] = data[d + j]
      <4>1. d + k <= Len(data)
        BY <1>9, <3>2, <3>3
      <4>2. data \in Seq(Nat)
        BY <1>9
      <4> QED BY <3>3, <3>5, <4>1, <4>2, PieceIs
    <3>7. \A j \in 1..k : data[d + j] = items[j]
      BY <1>9, <3>2
    <3>8. s = items
      BY <3>2, <3>6, <3>7, SeqEqual
    <3> QED BY <3>1, <3>2, <3>4, <3>5, <3>8 DEF Piece
  <2> QED BY <2>1, <2>2
<1>20. ~(Len(data) < v[p] \/ (r.exact /\ Len(data) # v[p]))
  <2>1. r.exact \in BOOLEAN /\ (r.exact => w.count = 0)
    BY DEF Agrees
  <2>2. r.exact => p = m /\ Len(items) = 0
    BY <1>1, <1>10, <2>1
  <2> QED BY <1>8, <1>9, <1>13, <2>2
<1>21. Unpack(name, r, data) = << [name |-> name, fields |-> g, items |-> items] >>
  <2>1. Unpack(name, r, data) =
          IF Len(data) < Size(r) \/ (r.exact /\ Len(data) # Size(r)) THEN <<>>
          ELSE << [name |-> name, fields |-> g,
                   items |-> SubSeq(data, Size(r) + 1, IF Size(r) + n < Len(data) THEN Size(r) + n
                                                       ELSE Len(data))] >>
    BY <1>14, <1>16 DEF Unpack, p
  <2> QED BY <1>13, <1>18, <1>19, <1>20, <2>1
<1>22. /\ g \in Seq(Seq(Nat)) /\ Len(g) = p
  <2>1. \A i \in 1..p : g[i] \in Seq(Nat)
    BY <1>5, <1>11, <1>15
  <2>2. g \in [1..p -> Seq(Nat)]
    BY <1>14, <2>1
  <2> QED BY <1>10, <2>2
<1>23. IsPrefix(g, fields)
  <2>1. SubSeq(g, 1, p) = g
    BY <1>22, SubSeqFull
  <2>2. /\ SubSeq(fields, 1, p) \in Seq(Seq(Nat)) /\ Len(SubSeq(fields, 1, p)) = p
        /\ \A j \in 1..p : SubSeq(fields, 1, p)[j] = fields[j]
    BY <1>1, <1>10, PrefixGrows
  <2>3. SubSeq(fields, 1, p) = g
    <3>1. PICK s, u : s = SubSeq(fields, 1, p) /\ u = g
      OBVIOUS
    <3>2. s \in Seq(Seq(Nat)) /\ u \in Seq(Seq(Nat)) /\ Len(s) = Len(u) /\ Len(s) = p
      BY <1>22, <2>2, <3>1
    <3>3. \A j \in 1..p : s[j] = u[j]
      BY <1>15, <2>2, <3>1
    <3>4. \A j \in 1..Len(s) : s[j] = u[j]
      BY <3>2, <3>3
    <3>5. s = u
      BY <3>2, <3>4, SeqEqual
    <3> QED BY <3>1, <3>5
  <2> QED BY <1>1, <1>10, <1>22, <2>1, <2>3 DEF IsPrefix
<1>24. Len(g) < Len(fields) => name \in {"ERROR", "BLE_DISABLE_PAIRING"}
  BY <1>1, <1>10, <1>22
<1>25. PICK got : got = [name |-> name, fields |-> g, items |-> items]
  OBVIOUS
<1>26. /\ got \in [name : {name}, fields : Seq(Seq(Nat)), items : Seq(Nat)]
       /\ got.name = name /\ got.fields = g /\ got.items = items
  BY <1>22, <1>25
<1> QED BY <1>4, <1>7, <1>21, <1>23, <1>24, <1>25, <1>26

-----------------------------------------------------------------------------
(* The messages.                                                           *)

\* A counting field reads as the number that was put there.
LEMMA LittleIs ==
    ASSUME NEW n \in Nat, NEW w \in Nat
    PROVE  /\ Little(n, w) \in Seq(Nat) /\ Len(Little(n, w)) = w
           /\ w = 1 /\ n < 256 => Number(Little(n, w)) = n
           /\ w > 1 => Number(Little(n, w)) = n
<1>1. n % 256 \in Nat /\ n \div 256 \in Nat /\ n = (n % 256) + 256 * (n \div 256) /\ (n < 256 => n % 256 = n)
  OBVIOUS
<1>2. PICK a, b : a = n % 256 /\ b = n \div 256
  OBVIOUS
<1>a. a \in Nat /\ b \in Nat /\ n = a + 256 * b /\ (n < 256 => a = n)
  BY <1>1, <1>2
<1>3. PICK s : s = [j \in 1..w |-> IF j = 1 THEN a ELSE IF j = 2 THEN b ELSE 0]
  OBVIOUS
<1>4. s = Little(n, w)
  BY <1>2, <1>3 DEF Little
<1>5. s \in [1..w -> Nat] /\ \A j \in 1..w : s[j] = IF j = 1 THEN a ELSE IF j = 2 THEN b ELSE 0
  BY <1>3, <1>a
<1>6. s \in Seq(Nat) /\ Len(s) = w
  BY <1>5
<1>7. ASSUME w = 1, n < 256 PROVE Number(s) = n
  BY <1>5, <1>6, <1>7, <1>a DEF Number
<1>8. ASSUME w > 1 PROVE Number(s) = n
  <2>1. 1 \in 1..w /\ 2 \in 1..w /\ Len(s) # 1
    BY <1>6, <1>8
  <2> QED BY <1>5, <2>1, <1>a DEF Number
<1> QED BY <1>2, <1>4, <1>5, <1>6, <1>7, <1>8

\* The pulses of a capture.
Captured == {p \in Pulse : p.us >= 1 /\ p.us < 65536}

\* What EventGpioSignalCaptured.from_bytes reads is what
\* build_signal_capture_payload wrote.
LEMMA PulsesRead ==
    ASSUME NEW ps \in Seq(Captured)
    PROVE  /\ PulseBytes(ps) \in Seq(Nat) /\ Len(PulseBytes(ps)) = 5 * Len(ps)
           /\ PulsesOf(PulseBytes(ps)) = ps
<1> DEFINE n == Len(ps)
<1>1. n \in Nat /\ DOMAIN ps = 1..n /\ \A k \in 1..n : ps[k] \in Captured
  BY LenProperties, ElementOfSeq
<1> HIDE DEF n
<1>2. \A k \in 1..n : ps[k].level \in Nat /\ ps[k].us \in Nat /\ ps[k].us < 65536
  BY <1>1 DEF Captured, Pulse
<1>3. PICK seqs : seqs = [k \in 1..n |-> <<ps[k].level>> \o Little(ps[k].us, I)]
  OBVIOUS
<1>4. ASSUME NEW k \in 1..n
      PROVE  /\ seqs[k] \in Seq(Nat) /\ Len(seqs[k]) = 5 /\ seqs[k][1] = ps[k].level
             /\ \A j \in 1..4 : seqs[k][1 + j] = Little(ps[k].us, 4)[j]
  <2>1. PICK a, b : a = <<ps[k].level>> /\ b = Little(ps[k].us, 4)
    OBVIOUS
  <2>2. a \in Seq(Nat) /\ Len(a) = 1 /\ a[1] = ps[k].level
    BY <1>2, <2>1
  <2>3. b \in Seq(Nat) /\ Len(b) = 4
    <3>1. PICK u : u = ps[k].us
      OBVIOUS
    <3>2. u \in Nat /\ b = Little(u, 4)
      BY <1>2, <2>1, <3>1
    <3> QED BY <3>2, LittleIs
  <2>4. seqs[k] = a \o b
    BY <1>3, <2>1 DEF I
  <2>5. PICK c : c = seqs[k]
    OBVIOUS
  <2>6. /\ c \in Seq(Nat) /\ Len(c) = Len(a) + Len(b)
        /\ \A i \in 1..(Len(a) + Len(b)) : c[i] = IF i <= Len(a) THEN a[i] ELSE b[i - Len(a)]
    <3>1. c = a \o b /\ a \in Seq(Nat) /\ b \in Seq(Nat)
      BY <2>2, <2>3, <2>4, <2>5
    <3> QED BY <3>1, ConcatProperties
  <2>7. Len(c) = 5 /\ \A i \in 1..5 : c[i] = IF i <= 1 THEN a[i] ELSE b[i - 1]
    <3>1. Len(a) + Len(b) = 5
      BY <2>2, <2>3
    <3> QED BY <2>2, <2>6, <3>1
  <2>8. \A j \in 1..4 : c[1 + j] = b[j]
    <3>1. \A j \in 1..4 : 1 + j \in 1..5 /\ ~(1 + j <= 1) /\ (1 + j) - 1 = j
      OBVIOUS
    <3> QED BY <2>7, <3>1
  <2>9. c[1] = a[1]
    BY <2>7
  <2> QED BY <2>1, <2>2, <2>5, <2>6, <2>7, <2>8, <2>9
<1>5. PICK v : v = [k \in 0..n |-> 5 * k]
  OBVIOUS
<1>6. v[0] = 0 /\ v[n] = 5 * n /\ \A k \in 1..n : v[k - 1] = 5 * k - 5 /\ v[k] = v[k - 1] + 5
  <2>1. 0 \in 0..n /\ n \in 0..n /\ \A k \in 1..n : k \in 0..n /\ k - 1 \in 0..n
    BY <1>1
  <2> QED BY <1>5, <2>1
<1>7. Len(seqs) = n /\ (n = 0 => seqs = <<>>)
  BY <1>1, <1>3
<1>8. Pieces(seqs, n, v)
  BY <1>4, <1>6, <1>7 DEF Pieces
<1>9. PICK items : items = PulseBytes(ps)
  OBVIOUS
<1>10. items = FlattenSeq(seqs)
  BY <1>3, <1>9 DEF PulseBytes, n
<1>11. Together(items, seqs, n, v)
  BY <1>1, <1>8, <1>10, Flattened
<1>12. /\ items \in Seq(Nat) /\ Len(items) = 5 * n
       /\ \A k \in 1..n : \A j \in 1..5 : items[(5 * k - 5) + j] = seqs[k][j]
  <2>1. /\ items \in Seq(Nat) /\ Len(items) = v[n]
        /\ \A k \in 1..n : \A j \in 1..Len(seqs[k]) : items[v[k - 1] + j] = seqs[k][j]
    BY <1>11 DEF Together
  <2>2. \A k \in 1..n : Len(seqs[k]) = 5 /\ v[k - 1] = 5 * k - 5
    BY <1>4, <1>6
  <2> QED BY <1>6, <2>1, <2>2
<1>13. Len(items) \div 5 = n
  <2>1. (5 * n) \div 5 = n
    BY <1>1
  <2> QED BY <1>12, <2>1
<1>14. ASSUME NEW k \in 1..n
       PROVE  items[5 * k - 4] = ps[k].level /\ Number(SubSeq(items, 5 * k - 3, 5 * k)) = ps[k].us
  <2>1. PICK a : a = 5 * k - 4
    OBVIOUS
  <2>0. \A j \in 1..5 : items[(5 * k - 5) + j] = seqs[k][j]
    BY <1>12
  <2>2. /\ a \in Nat /\ a + 4 <= 5 * n /\ a + 1 = 5 * k - 3 /\ a + 4 = 5 * k /\ (5 * k - 5) + 1 = a
        /\ \A j \in 1..4 : (5 * k - 5) + (1 + j) = a + j /\ 1 + j \in 1..5
        /\ 1 \in 1..5
    BY <1>1, <2>1
  <2>3. items[a] = ps[k].level
    BY <1>4, <2>0, <2>2
  <2>4. PICK s : s = Piece(items, a, 4)
    OBVIOUS
  <2>5. s \in Seq(Nat) /\ Len(s) = 4 /\ \A j \in 1..4 : s[j] = items[a + j]
    <3>1. items \in Seq(Nat) /\ 4 \in Nat /\ a \in Nat /\ a + 4 <= Len(items)
      BY <1>12, <2>2
    <3> QED BY <2>4, <3>1, PieceIs
  <2>6. PICK b : b = Little(ps[k].us, 4)
    OBVIOUS
  <2>7. b \in Seq(Nat) /\ Len(b) = 4 /\ Number(b) = ps[k].us
    <3>1. PICK u : u = ps[k].us
      OBVIOUS
    <3>2. u \in Nat /\ b = Little(u, 4)
      BY <1>2, <2>6, <3>1
    <3>3. b \in Seq(Nat) /\ Len(b) = 4 /\ Number(b) = u
      <4>1. Little(u, 4) \in Seq(Nat) /\ Len(Little(u, 4)) = 4
        BY <3>2, LittleIs
      <4>2. Number(Little(u, 4)) = u
        BY <3>2, LittleIs
      <4> QED BY <3>2, <4>1, <4>2
    <3> QED BY <3>1, <3>3
  <2>8. \A j \in 1..4 : s[j] = b[j]
    <3>1. \A j \in 1..4 : items[a + j] = seqs[k][1 + j]
      BY <2>0, <2>2
    <3> QED BY <1>4, <2>5, <2>6, <3>1
  <2>9. s = b
    BY <2>5, <2>7, <2>8, SeqEqual
  <2> QED BY <2>1, <2>2, <2>3, <2>4, <2>7, <2>9 DEF Piece
<1>15. PulsesOf(items) = [k \in 1..n |-> [level |-> ps[k].level, us |-> ps[k].us]]
  BY <1>13, <1>14 DEF PulsesOf
<1>16. PulsesOf(items) = ps
  <2>1. \A p \in Captured : p = [level |-> p.level, us |-> p.us]
    BY DEF Captured, Pulse
  <2>2. \A k \in 1..n : PulsesOf(items)[k] = ps[k]
    BY <1>1, <1>15, <2>1
  <2>3. ps = [k \in 1..n |-> ps[k]]
    BY <1>1
  <2>4. PulsesOf(items) = [k \in 1..n |-> PulsesOf(items)[k]]
    BY <1>15
  <2> QED BY <2>2, <2>3, <2>4
<1> QED BY <1>9, <1>12, <1>16 DEF n

\* What a message says of itself: fields as wide as the layout has them, and as
\* many items as the field that counts them says.
Packed(m, name, l) ==
    /\ m.name = name
    /\ m.fields \in Seq(Seq(Nat)) /\ Len(m.fields) = Len(l.fields)
    /\ \A i \in 1..Len(l.fields) : Len(m.fields[i]) = l.fields[i]
    /\ m.items \in Seq(Nat) /\ Len(m.items) <= 2040
    /\ l.count = 0 => m.items = <<>>
    /\ l.count # 0 => Len(m.items) = Number(m.fields[l.count]) * l.unit
    /\ name = "GPIO_SIGNAL_CAPTURED" => PulsesOf(m.items) \in Seq(Captured)

\* A field with bytes of its own.
LEMMA OwnIs ==
    ASSUME NEW i \in Nat, NEW w \in Nat
    PROVE  Own(i, w) \in Seq(Nat) /\ Len(Own(i, w)) = w
<1>1. PICK s : s = Own(i, w)
  OBVIOUS
<1>2. s \in [1..w -> Nat]
  BY <1>1 DEF Own
<1>3. s \in Seq(Nat) /\ Len(s) = w
  BY <1>2
<1> QED BY <1>1, <1>3

\* A message filled in for a layout is packed by it.
LEMMA FilledIs ==
    ASSUME NEW name, NEW l, Laid(l), NEW n \in Nat, NEW items,
           l.count # 0 /\ l.fields[l.count] = 1 => n < 256
    PROVE  LET m == Filled(name, l, n, items)
           IN  /\ m.name = name /\ m.items = items
               /\ m.fields \in Seq(Seq(Nat)) /\ Len(m.fields) = Len(l.fields)
               /\ \A i \in 1..Len(l.fields) : Len(m.fields[i]) = l.fields[i]
               /\ l.count # 0 => Number(m.fields[l.count]) = n
<1>1. PICK w, c, k : w = l.fields /\ c = l.count /\ k = Len(l.fields)
  OBVIOUS
<1>2. /\ k \in Nat /\ \A i \in 1..k : w[i] \in Nat
      /\ c # 0 => c \in 1..k /\ w[c] \in {1, 2}
      /\ c # 0 /\ w[c] = 1 => n < 256
  <2>1. w \in Seq(1..8) /\ 1..8 \subseteq Nat
    BY <1>1 DEF Laid
  <2>2. Len(w) \in Nat /\ \A i \in 1..Len(w) : w[i] \in 1..8
    BY <2>1, LenProperties, ElementOfSeq
  <2>3. c \in 0..k /\ (c # 0 => w[c] \in {1, 2})
    BY <1>1 DEF Laid
  <2> QED BY <1>1, <2>1, <2>2, <2>3
<1>3. PICK f : f = [i \in 1..k |-> IF i = c THEN Little(n, w[i]) ELSE Own(i, w[i])]
  OBVIOUS
<1>4. Filled(name, l, n, items) = [name |-> name, fields |-> f, items |-> items]
  BY <1>1, <1>3 DEF Filled
<1>5. \A i \in 1..k : f[i] \in Seq(Nat) /\ Len(f[i]) = w[i]
  <2> SUFFICES ASSUME NEW i \in 1..k PROVE f[i] \in Seq(Nat) /\ Len(f[i]) = w[i]
    OBVIOUS
  <2>1. w[i] \in Nat /\ i \in Nat
    BY <1>2
  <2>2. CASE i = c
    <3>1. f[i] = Little(n, w[i])
      BY <1>3, <2>2
    <3> QED BY <2>1, <3>1, LittleIs
  <2>3. CASE i # c
    <3>1. f[i] = Own(i, w[i])
      BY <1>3, <2>3
    <3> QED BY <2>1, <3>1, OwnIs
  <2> QED BY <2>2, <2>3
<1>6. f \in Seq(Seq(Nat)) /\ Len(f) = k
  <2>1. f \in [1..k -> Seq(Nat)]
    BY <1>3, <1>5
  <2> QED BY <1>2, <2>1
<1>7. c # 0 => Number(f[c]) = n
  <2> SUFFICES ASSUME c # 0 PROVE Number(f[c]) = n
    OBVIOUS
  <2>1. c \in 1..k /\ f[c] = Little(n, w[c])
    BY <1>2, <1>3
  <2>2. w[c] \in Nat /\ ((w[c] = 1 /\ n < 256) \/ w[c] > 1)
    BY <1>2
  <2>3. Number(Little(n, w[c])) = n
    BY <2>2, LittleIs
  <2> QED BY <2>1, <2>3
<1> QED BY <1>1, <1>4, <1>5, <1>6, <1>7

\* So is every message of Messages.
LEMMA MessageIs ==
    ASSUME NEW name, NEW l, Laid(l),
           name = "GPIO_SIGNAL_CAPTURED" => l.count = 3 /\ l.fields[3] = 2 /\ l.unit = 5,
           NEW m \in Messages(name, l)
    PROVE  Packed(m, name, l)
<1>1. CASE l.count = 0
  <2>1. m = Filled(name, l, 0, <<>>)
    BY <1>1 DEF Messages
  <2>2. <<>> \in Seq(Nat) /\ Len(<<>>) = 0
    OBVIOUS
  <2>3. /\ m.name = name /\ m.items = <<>>
        /\ m.fields \in Seq(Seq(Nat)) /\ Len(m.fields) = Len(l.fields)
        /\ \A i \in 1..Len(l.fields) : Len(m.fields[i]) = l.fields[i]
    BY <1>1, <2>1, FilledIs
  <2> QED BY <1>1, <2>2, <2>3 DEF Packed
<1>2. CASE l.count # 0 /\ name = "GPIO_SIGNAL_CAPTURED"
  <2>1. PICK ps \in BoundedSeq(Pulses, MaxPulses) : m = Filled(name, l, Len(ps), PulseBytes(ps))
    BY <1>2 DEF Messages
  <2>2. ps \in Seq(Captured) /\ Len(ps) \in Nat /\ Len(ps) <= 256
    <3>1. PICK k \in 0..MaxPulses : ps \in [1..k -> Pulses]
      BY <2>1 DEF BoundedSeq, SeqOf
    <3>2. k \in Nat /\ k <= 256
      BY <3>1, WireAssumption
    <3>3. Pulses \subseteq Captured
      <4>1. \A p \in Pulses : p \in [level : {0, 1}, us : Nat] /\ p.us > 0 /\ p.us < 65536
        BY WireAssumption
      <4>2. \A p \in [level : {0, 1}, us : Nat] : p \in Pulse /\ p.us \in Nat
        BY DEF Pulse
      <4> QED BY <4>1, <4>2 DEF Captured
    <3>4. ps \in [1..k -> Captured]
      BY <3>1, <3>3
    <3>5. ps \in Seq(Captured) /\ Len(ps) = k
      BY <3>2, <3>4
    <3> QED BY <3>2, <3>5
  <2>3. PICK items, n : items = PulseBytes(ps) /\ n = Len(ps)
    OBVIOUS
  <2>4. items \in Seq(Nat) /\ Len(items) = 5 * n /\ PulsesOf(items) = ps
    BY <2>2, <2>3, PulsesRead
  <2>5. m = Filled(name, l, n, items)
    BY <2>1, <2>3
  <2>6. l.count = 3 /\ l.fields[l.count] = 2 /\ l.unit = 5
    BY <1>2
  <2>7. /\ m.name = name /\ m.items = items
        /\ m.fields \in Seq(Seq(Nat)) /\ Len(m.fields) = Len(l.fields)
        /\ \A i \in 1..Len(l.fields) : Len(m.fields[i]) = l.fields[i]
        /\ Number(m.fields[l.count]) = n
    <3>1. n \in Nat /\ (l.fields[l.count] = 1 => n < 256)
      BY <2>2, <2>3, <2>6
    <3> QED BY <1>2, <2>5, <3>1, FilledIs
  <2>8. Len(items) <= 2040 /\ Len(items) = Number(m.fields[l.count]) * l.unit
    BY <2>2, <2>3, <2>4, <2>6, <2>7
  <2> QED BY <1>2, <2>2, <2>4, <2>7, <2>8 DEF Packed
<1>3. CASE l.count # 0 /\ name # "GPIO_SIGNAL_CAPTURED"
  <2>1. PICK n \in Items : m = Filled(name, l, n, [k \in 1..(n * l.unit) |-> (200 + k) % 256])
    BY <1>3 DEF Messages
  <2>2. n \in Nat /\ n <= 255 /\ l.unit \in 0..8
    BY WireAssumption DEF Laid
  <2>3. PICK k : k = n * l.unit
    OBVIOUS
  <2>4. k \in Nat /\ k <= 2040
    <3>1. \A u \in 0..8 : n * u \in Nat /\ n * u <= 8 * n
      <4>1. \A u \in 0..8 : u = 0 \/ u = 1 \/ u = 2 \/ u = 3 \/ u = 4 \/ u = 5 \/ u = 6 \/ u = 7 \/ u = 8
        OBVIOUS
      <4> QED BY <2>2, <4>1
    <3>2. k \in Nat /\ k <= 8 * n
      BY <2>2, <2>3, <3>1
    <3> QED BY <2>2, <3>2
  <2>5. PICK items : items = [i \in 1..k |-> (200 + i) % 256]
    OBVIOUS
  <2>6. items \in Seq(Nat) /\ Len(items) = k
    <3>1. items \in [1..k -> Nat]
      BY <2>4, <2>5
    <3> QED BY <2>4, <3>1
  <2>7. m = Filled(name, l, n, items)
    BY <2>1, <2>3, <2>5
  <2>8. n \in Nat /\ n < 256
    BY <2>2
  <2>9. /\ m.name = name /\ m.items = items
        /\ m.fields \in Seq(Seq(Nat)) /\ Len(m.fields) = Len(l.fields)
        /\ \A i \in 1..Len(l.fields) : Len(m.fields[i]) = l.fields[i]
        /\ Number(m.fields[l.count]) = n
    BY <1>3, <2>7, <2>8, FilledIs
  <2> QED BY <1>3, <2>3, <2>4, <2>6, <2>9 DEF Packed
<1> QED BY <1>1, <1>2, <1>3

-----------------------------------------------------------------------------
(* The frames.                                                             *)

\* The type of a frame, the opcodes and the layouts of the messages to r.
TypeTo(r)   == IF r = "bridge" THEN 3 ELSE 1
OpcodeTo(r) == IF r = "bridge" THEN EVENT ELSE CommandOpcode
LayoutTo(r) == IF r = "bridge" THEN EventStruct ELSE CommandLayout

Body(fields, items) == FlattenSeq(fields) \o items
Payload(op, m)      == <<op>> \o Body(m.fields, m.items)
Header(ty, n)       == <<1, ty, n % 256, n \div 256, 0, 0, 0, 0>>

Framed(ty, p)       == Header(ty, Len(p)) \o p

FrameTo(r, m) ==
    LET payload == Payload(OpcodeTo(r)[m.name], m)
    IN  Framed(TypeTo(r), payload)

MessagesTo(r) == UNION {Messages(name, LayoutTo(r)[name]) : name \in DOMAIN LayoutTo(r)}

\* What r reads from a payload.
ReadBy(r, payload) == IF r = "bridge" THEN ReadEvent(payload) ELSE ReadCommand(payload)

Readings == [name : DOMAIN EVENT \cup DOMAIN CMD, fields : Seq(Seq(Nat)), items : Seq(Nat)]

\* got is what m says, and its pulses are ones a capture may have.
Reads(got, m) ==
    /\ Means(got, m)
    /\ got.name = "GPIO_SIGNAL_CAPTURED" => PulsesOf(got.items) \in Seq(Captured)

\* The payload of frame f reads as m.
WellRead(r, f, m) ==
    \E got \in Readings : ReadBy(r, Piece(f, 8, Len(f) - 8)) = <<got>> /\ Reads(got, m)

\* A frame says how long it is, and its payload reads as its message.
WellFramed(r, m) ==
    LET f == FrameTo(r, m)
    IN  /\ f \in Seq(Nat) /\ Len(f) \in Nat /\ Len(f) >= 9 /\ Len(f) <= 4104
        /\ f[2] = TypeTo(r) /\ f[3] + 256 * f[4] = Len(f) - 8
        /\ WellRead(r, f, m)

\* What p must be for a payload with opcode op of fields and items.
Carries(p, op, fields, items) ==
    /\ FlattenSeq(fields) \in Seq(Nat) /\ items \in Seq(Nat)
    /\ p \in Seq(Nat) /\ p # <<>> /\ Len(p) <= 4096 /\ p[1] = op
    /\ Tail(p) = Body(fields, items)

LEMMA PayloadIs ==
    ASSUME NEW op \in Nat, NEW name, NEW l, Laid(l), NEW m, Packed(m, name, l)
    PROVE  Carries(Payload(op, m), op, m.fields, m.items)
<1>1. PICK fields, items, w, k : fields = m.fields /\ items = m.items /\ w = l.fields /\ k = Len(l.fields)
  OBVIOUS
<1>2. /\ fields \in Seq(Seq(Nat)) /\ Len(fields) = k /\ \A i \in 1..k : Len(fields[i]) = w[i]
      /\ items \in Seq(Nat) /\ Len(items) <= 2040
  BY <1>1 DEF Packed
<1>3. /\ k \in Nat /\ k <= 9 /\ Len(w) = k /\ DOMAIN w = 1..k /\ \A i \in 1..k : w[i] \in Nat /\ w[i] <= 8
  <2>1. w \in Seq(1..8) /\ Len(w) = k /\ k <= 9
    BY <1>1 DEF Laid
  <2>2. k \in Nat /\ DOMAIN w = 1..k /\ \A i \in 1..k : w[i] \in 1..8
    BY <2>1, LenProperties, ElementOfSeq
  <2> QED BY <2>1, <2>2
<1>4. PICK v : Sums(v, k, w)
  BY <1>3, SumsExist
<1>5. v[k] \in Nat /\ v[k] <= 8 * k
  <2>1. k \in 0..k
    BY <1>3
  <2> QED BY <1>3, <1>4, <2>1, SumsGrow
<1>6. Pieces(fields, k, v)
  <2>1. \A i \in 1..k : fields[i] \in Seq(Nat)
    BY <1>2, ElementOfSeq
  <2>2. k = 0 => fields = <<>>
    BY <1>2, EmptySeq
  <2>3. v[0] = 0 /\ \A i \in 1..k : v[i] = v[i - 1] + Len(fields[i])
    <3>1. \A i \in 1..k : Len(fields[i]) = w[i]
      BY <1>2
    <3>2. v[0] = 0 /\ \A i \in 1..k : v[i] = v[i - 1] + w[i]
      BY <1>4 DEF Sums
    <3> QED BY <3>1, <3>2, Zenon
  <2> QED BY <1>2, <2>1, <2>2, <2>3 DEF Pieces
<1>7. PICK flat : flat = FlattenSeq(fields)
  OBVIOUS
<1>8. Together(flat, fields, k, v)
  BY <1>3, <1>6, <1>7, Flattened
<1>9. flat \in Seq(Nat) /\ Len(flat) \in Nat /\ Len(flat) <= 72
  <2>1. flat \in Seq(Nat) /\ Len(flat) = v[k]
    BY <1>8 DEF Together
  <2> QED BY <1>3, <1>5, <2>1
<1>10. PICK data : data = Body(fields, items)
  OBVIOUS
<1>b. data = flat \o items
  BY <1>7, <1>10 DEF Body
<1>11. data \in Seq(Nat) /\ Len(data) \in Nat /\ Len(data) <= 2112
  <2>1. data \in Seq(Nat) /\ Len(data) = Len(flat) + Len(items)
    BY <1>2, <1>9, <1>b, ConcatProperties
  <2>2. Len(items) \in Nat
    BY <1>2, LenProperties
  <2> QED BY <1>2, <1>9, <2>1, <2>2
<1>12. PICK p, o : p = o \o data /\ o = <<op>>
  OBVIOUS
<1>13. o \in Seq(Nat) /\ Len(o) = 1 /\ o[1] = op
  BY <1>12
<1>14. /\ p \in Seq(Nat) /\ Len(p) = 1 + Len(data)
       /\ \A i \in 1..(1 + Len(data)) : p[i] = IF i <= 1 THEN o[i] ELSE data[i - 1]
  BY <1>11, <1>12, <1>13, ConcatProperties
<1>15. Len(p) \in Nat /\ Len(p) >= 1 /\ Len(p) <= 4096 /\ p[1] = op
  BY <1>11, <1>13, <1>14
<1>16. p # <<>>
  BY <1>15
<1>17. Tail(p) = data
  <2>1. /\ Tail(p) \in Seq(Nat) /\ Len(Tail(p)) = Len(p) - 1
        /\ \A i \in 1..Len(Tail(p)) : Tail(p)[i] = p[i + 1]
    BY <1>14, <1>16, HeadTailProperties
  <2>2. PICK t : t = Tail(p)
    OBVIOUS
  <2>3. t \in Seq(Nat) /\ Len(t) = Len(data)
    BY <1>11, <1>14, <2>1, <2>2
  <2>4. ASSUME NEW i \in 1..Len(data) PROVE t[i] = data[i]
    <3>1. i + 1 \in 1..(1 + Len(data)) /\ ~(i + 1 <= 1) /\ (i + 1) - 1 = i
      BY <1>11
    <3>2. t[i] = p[i + 1]
      BY <2>1, <2>2, <2>3
    <3> QED BY <1>14, <3>1, <3>2
  <2>5. t = data
    BY <1>11, <2>3, <2>4, SeqEqual
  <2> QED BY <2>2, <2>5
<1>18. Payload(op, m) = p
  BY <1>1, <1>10, <1>12 DEF Payload
<1>19. Carries(p, op, fields, items)
  BY <1>2, <1>7, <1>9, <1>10, <1>14, <1>15, <1>16, <1>17 DEF Carries
<1> QED BY <1>1, <1>18, <1>19

\* What f must be for a frame of type ty with payload p.
IsFrame(f, ty, p) ==
    /\ f \in Seq(Nat) /\ Len(f) = Len(p) + 8
    /\ f[2] = ty /\ f[3] + 256 * f[4] = Len(p)
    /\ Piece(f, 8, Len(p)) = p

LEMMA FramedIs ==
    ASSUME NEW p \in Seq(Nat), NEW ty \in Nat
    PROVE  IsFrame(Framed(ty, p), ty, p)
<1>0. PICK f : f = Framed(ty, p)
  OBVIOUS
<1>1. PICK n, a, b : n = Len(p) /\ a = n % 256 /\ b = n \div 256
  OBVIOUS
<1>2. n \in Nat /\ a \in Nat /\ b \in Nat /\ a + 256 * b = n
  <2>1. n \in Nat
    BY <1>1, LenProperties
  <2>2. \A x \in Nat : x % 256 \in Nat /\ x \div 256 \in Nat /\ (x % 256) + 256 * (x \div 256) = x
    OBVIOUS
  <2> QED BY <1>1, <2>1, <2>2
<1>3. PICK h : h = <<1, ty, a, b, 0, 0, 0, 0>>
  OBVIOUS
<1>4. h \in Seq(Nat) /\ Len(h) = 8 /\ h[2] = ty /\ h[3] = a /\ h[4] = b
  BY <1>2, <1>3
<1>5. f = h \o p
  BY <1>0, <1>1, <1>3 DEF Header, Framed
<1>6. /\ f \in Seq(Nat) /\ Len(f) = Len(h) + Len(p)
      /\ \A i \in 1..(Len(h) + Len(p)) : f[i] = IF i <= Len(h) THEN h[i] ELSE p[i - Len(h)]
  <2>1. h \in Seq(Nat) /\ p \in Seq(Nat)
    BY <1>4
  <2> QED BY <1>5, <2>1, ConcatProperties
<1>7. Len(f) = 8 + n /\ \A i \in 1..(8 + n) : f[i] = IF i <= 8 THEN h[i] ELSE p[i - 8]
  BY <1>1, <1>4, <1>6
<1>8. f[2] = ty /\ f[3] = a /\ f[4] = b
  <2>1. 2 \in 1..(8 + n) /\ 3 \in 1..(8 + n) /\ 4 \in 1..(8 + n)
    BY <1>2
  <2>2. f[2] = h[2] /\ f[3] = h[3] /\ f[4] = h[4]
    BY <1>7, <2>1
  <2> QED BY <1>4, <2>2
<1>9. Piece(f, 8, n) = p
  <2>1. PICK s : s = Piece(f, 8, n)
    OBVIOUS
  <2>2. 8 \in Nat /\ 8 + n <= Len(f)
    BY <1>2, <1>7
  <2>3. s \in Seq(Nat) /\ Len(s) = n /\ \A j \in 1..n : s[j] = f[8 + j]
    <3>1. f \in Seq(Nat) /\ n \in Nat
      BY <1>2, <1>6
    <3> QED BY <2>1, <2>2, <3>1, PieceIs
  <2>4. \A j \in 1..n : 8 + j \in 1..(8 + n) /\ ~(8 + j <= 8) /\ (8 + j) - 8 = j
    BY <1>2
  <2>5. \A j \in 1..n : s[j] = p[j]
    BY <1>7, <2>3, <2>4
  <2>6. s = p
    BY <1>1, <2>3, <2>5, SeqEqual
  <2> QED BY <2>1, <2>6
<1>10. f \in Seq(Nat) /\ Len(f) = Len(p) + 8
  BY <1>1, <1>2, <1>6, <1>7
<1>11. f[3] + 256 * f[4] = Len(p)
  BY <1>1, <1>2, <1>8
<1>12. IsFrame(f, ty, p)
  BY <1>1, <1>8, <1>9, <1>10, <1>11 DEF IsFrame
<1> QED BY <1>0, <1>12

\* The receiver finds the sender's message in a payload.
ReadsAs(r, name, p, fields, items) ==
    \E l : /\ Agrees(name, LayoutTo(r)[name], l)
           /\ ReadBy(r, p) = Unpack(name, l, Body(fields, items))

LEMMA PayloadsRead ==
    ASSUME NEW r \in {"bridge", "device"}, NEW name \in DOMAIN LayoutTo(r), NEW p, NEW fields, NEW items,
           Carries(p, OpcodeTo(r)[name], fields, items), Len(Body(fields, items)) \in Nat
    PROVE  ReadsAs(r, name, p, fields, items)
<1>1. PICK data : data = Body(fields, items)
  OBVIOUS
<1>2. p # <<>> /\ p[1] = OpcodeTo(r)[name] /\ Tail(p) = data /\ Len(data) \in Nat
  BY <1>1 DEF Carries
<1>3. \A n : (CHOOSE x \in {n} : TRUE) = n
  OBVIOUS
<1>4. CASE r = "bridge"
  <2>1. name \in DOMAIN EVENT /\ LayoutTo(r) = EventStruct /\ p[1] = EVENT[name]
    BY <1>2, <1>4, OpcodesAgree DEF LayoutTo, OpcodeTo
  <2>2. {n \in DOMAIN EventOpcode : p # <<>> /\ EventOpcode[n] = p[1]} = {name}
    <3>1. {n \in DOMAIN EventOpcode : EventOpcode[n] = EVENT[name]} = {name}
      BY <2>1, OpcodesAgree
    <3> QED BY <1>2, <2>1, <3>1
  <2>3. ReadEvent(p) = Unpack(name, EventLayout(name, Len(data)), data)
    <3>1. {name} # {} /\ (CHOOSE x \in {name} : TRUE) = name
      BY <1>3
    <3> QED BY <1>2, <2>2, <3>1 DEF ReadEvent
  <2>4. Agrees(name, EventStruct[name], EventLayout(name, Len(data)))
    BY <1>2, <2>1, LayoutsAgree, OpcodesAgree
  <2> QED BY <1>1, <1>4, <2>1, <2>3, <2>4 DEF ReadBy, ReadsAs
<1>5. CASE r = "device"
  <2>1. name \in DOMAIN CommandOpcode /\ LayoutTo(r) = CommandLayout /\ p[1] = CommandOpcode[name]
    BY <1>2, <1>5, OpcodesAgree DEF LayoutTo, OpcodeTo
  <2>2. {n \in DOMAIN CMD : CMD[n] = p[1]} = {name}
    BY <2>1, OpcodesAgree
  <2>3. ReadCommand(p) = Unpack(name, CommandStruct[name], data)
    <3>1. {name} # {} /\ (CHOOSE x \in {name} : TRUE) = name
      BY <1>3
    <3> QED BY <1>2, <2>2, <3>1 DEF ReadCommand
  <2>4. Agrees(name, CommandLayout[name], CommandStruct[name])
    BY <2>1, LayoutsAgree, OpcodesAgree
  <2> QED BY <1>1, <1>5, <2>1, <2>3, <2>4 DEF ReadBy, ReadsAs
<1> QED BY <1>4, <1>5

\* The two descriptions of the protocol agree: the frame of every message the
\* sender may write says how long it is, and its payload reads, on the other
\* side, as that message (Frame, ReadEvent and ReadCommand of Wire).
THEOREM FramesRead ==
    ASSUME NEW r \in {"bridge", "device"}, NEW m \in MessagesTo(r)
    PROVE  WellFramed(r, m)
<1>1. PICK name \in DOMAIN LayoutTo(r) : m \in Messages(name, LayoutTo(r)[name])
  BY DEF MessagesTo
<1>2. PICK l : l = LayoutTo(r)[name]
  OBVIOUS
<1>3. Laid(l)
  BY <1>2, LayoutsLaid DEF LayoutTo
<1>4. name = "GPIO_SIGNAL_CAPTURED" => l.count = 3 /\ l.fields[3] = 2 /\ l.unit = 5
  <2> SUFFICES ASSUME name = "GPIO_SIGNAL_CAPTURED" PROVE l.count = 3 /\ l.fields[3] = 2 /\ l.unit = 5
    OBVIOUS
  <2>1. r = "bridge"
    <3>1. "GPIO_SIGNAL_CAPTURED" \notin DOMAIN CommandLayout
      BY DEF CommandLayout
    <3> QED BY <1>1, <3>1 DEF LayoutTo
  <2>2. EventStruct["GPIO_SIGNAL_CAPTURED"] = Counted(<<H, B, H, Q>>, 3, B + I)
    BY DEF EventStruct
  <2>3. l = Counted(<<H, B, H, Q>>, 3, B + I)
    BY <1>2, <2>1, <2>2 DEF LayoutTo
  <2> QED BY <2>3 DEF Counted, H, B, I
<1>5. Packed(m, name, l)
  BY <1>1, <1>2, <1>3, <1>4, MessageIs
<1>6. PICK fields, items, op : fields = m.fields /\ items = m.items /\ op = OpcodeTo(r)[name]
  OBVIOUS
<1>7. m.name = name /\ op \in Nat
  BY <1>1, <1>5, <1>6, OpcodesAgree DEF Packed, OpcodeTo, LayoutTo
<1>8. PICK p : p = Payload(op, m)
  OBVIOUS
<1>9. Carries(p, op, fields, items)
  BY <1>3, <1>5, <1>6, <1>7, <1>8, PayloadIs
<1>10. PICK f : f = FrameTo(r, m)
  OBVIOUS
<1>11. f = Framed(TypeTo(r), p)
  BY <1>6, <1>7, <1>8, <1>10 DEF FrameTo
<1>12. p \in Seq(Nat) /\ p # <<>> /\ Len(p) \in Nat /\ Len(p) >= 1 /\ Len(p) <= 4096 /\ TypeTo(r) \in Nat
  <2>1. p \in Seq(Nat) /\ p # <<>> /\ Len(p) <= 4096
    BY <1>9 DEF Carries
  <2>2. Len(p) \in Nat \ {0}
    BY <2>1, EmptySeq
  <2> QED BY <2>1, <2>2 DEF TypeTo
<1>13. /\ f \in Seq(Nat) /\ Len(f) = Len(p) + 8
       /\ f[2] = TypeTo(r) /\ f[3] + 256 * f[4] = Len(p)
       /\ Piece(f, 8, Len(p)) = p
  <2>1. IsFrame(f, TypeTo(r), p)
    BY <1>11, <1>12, FramedIs
  <2> QED BY <2>1 DEF IsFrame
<1>14. /\ fields \in Seq(Seq(Nat)) /\ Len(fields) = Len(l.fields)
       /\ \A i \in 1..Len(l.fields) : Len(fields[i]) = l.fields[i]
       /\ items \in Seq(Nat)
       /\ l.count = 0 => items = <<>>
       /\ l.count # 0 => Len(items) = Number(fields[l.count]) * l.unit
       /\ name = "GPIO_SIGNAL_CAPTURED" => PulsesOf(items) \in Seq(Captured)
  BY <1>5, <1>6 DEF Packed
<1>15. Len(Body(fields, items)) \in Nat
  <2>1. FlattenSeq(fields) \in Seq(Nat) /\ items \in Seq(Nat)
    BY <1>9 DEF Carries
  <2>2. Body(fields, items) \in Seq(Nat)
    BY <2>1, ConcatProperties DEF Body
  <2> QED BY <2>2, LenProperties
<1>16. PICK rl : Agrees(name, l, rl) /\ ReadBy(r, p) = Unpack(name, rl, Body(fields, items))
  <2>1. Carries(p, OpcodeTo(r)[name], fields, items)
    BY <1>6, <1>9
  <2>2. ReadsAs(r, name, p, fields, items)
    BY <1>1, <1>15, <2>1, PayloadsRead
  <2> QED BY <1>2, <2>2 DEF ReadsAs
<1>17. PICK got : /\ Unpack(name, rl, FlattenSeq(fields) \o items) = <<got>>
                  /\ got \in [name : {name}, fields : Seq(Seq(Nat)), items : Seq(Nat)]
                  /\ got.name = name /\ IsPrefix(got.fields, fields) /\ got.items = items
                  /\ Len(got.fields) < Len(fields) => name \in {"ERROR", "BLE_DISABLE_PAIRING"}
  BY <1>3, <1>14, <1>16, Unpacked
<1>18. ReadBy(r, p) = <<got>>
  BY <1>16, <1>17 DEF Body
<1>19. Means(got, m)
  BY <1>6, <1>7, <1>17 DEF Means
<1>20. got \in Readings
  <2>1. name \in DOMAIN EVENT \cup DOMAIN CMD
    BY <1>1, OpcodesAgree DEF LayoutTo
  <2> QED BY <1>17, <2>1 DEF Readings
<1>21. got.name = "GPIO_SIGNAL_CAPTURED" => PulsesOf(got.items) \in Seq(Captured)
  BY <1>14, <1>17
<1>22. Len(f) \in Nat /\ Len(f) >= 9 /\ Len(f) <= 4104 /\ Len(f) - 8 = Len(p)
  <2>1. \A x, y : x \in Nat /\ x >= 1 /\ x <= 4096 /\ y = x + 8 => y \in Nat /\ y >= 9 /\ y <= 4104 /\ y - 8 = x
    OBVIOUS
  <2>2. Len(f) = Len(p) + 8
    BY <1>13
  <2> QED BY <1>12, <2>1, <2>2
<1>23. ReadBy(r, Piece(f, 8, Len(f) - 8)) = <<got>>
  BY <1>13, <1>18, <1>22
<1>24. f[3] + 256 * f[4] = Len(f) - 8
  BY <1>13, <1>22
<1>25. WellRead(r, f, m)
  BY <1>19, <1>20, <1>21, <1>23 DEF WellRead, Reads
<1> QED BY <1>10, <1>13, <1>22, <1>24, <1>25 DEF WellFramed

-----------------------------------------------------------------------------
(* The stream.                                                             *)

\* e[i] is the number of bytes up to the end of the i-th frame.
Ends(e, r, ms) == e[0] = 0 /\ \A i \in 1..Len(ms) : e[i] = e[i - 1] + Len(FrameTo(r, ms[i]))

\* The bytes on their way are those of the frames after the k-th.
InFlight(r, ms, k, all, e) ==
    /\ Ends(e, r, ms)
    /\ all \in Seq(Nat) /\ Len(all) = e[Len(ms)] - e[k]
    /\ \A i \in (k + 1)..Len(ms) : \A j \in 1..Len(FrameTo(r, ms[i])) :
         all[(e[i - 1] - e[k]) + j] = FrameTo(r, ms[i])[j]

LEMMA EndsGrow ==
    ASSUME NEW r \in {"bridge", "device"}, NEW ms \in Seq(MessagesTo(r)), NEW e, Ends(e, r, ms)
    PROVE  /\ \A i \in 0..Len(ms) : e[i] \in Nat
           /\ \A i \in 0..Len(ms) : \A j \in 0..i : e[j] <= e[i]
           /\ \A i \in 1..Len(ms) : /\ Len(FrameTo(r, ms[i])) \in Nat /\ Len(FrameTo(r, ms[i])) >= 9
                                    /\ e[i] = e[i - 1] + Len(FrameTo(r, ms[i]))
<1>1. PICK n, f : n = Len(ms) /\ f = [i \in 1..n |-> Len(FrameTo(r, ms[i]))]
  OBVIOUS
<1>2. n \in Nat /\ \A i \in 1..n : ms[i] \in MessagesTo(r)
  BY <1>1, LenProperties, ElementOfSeq
<1>3. \A i \in 1..n : f[i] = Len(FrameTo(r, ms[i])) /\ f[i] \in Nat /\ f[i] >= 9
  <2> SUFFICES ASSUME NEW i \in 1..n
               PROVE  f[i] = Len(FrameTo(r, ms[i])) /\ f[i] \in Nat /\ f[i] >= 9
    OBVIOUS
  <2>1. WellFramed(r, ms[i])
    BY <1>2, FramesRead
  <2>2. Len(FrameTo(r, ms[i])) \in Nat /\ Len(FrameTo(r, ms[i])) >= 9
    BY <2>1 DEF WellFramed
  <2> QED BY <1>1, <2>2
<1>4. Sums(e, n, f)
  BY <1>1, <1>3 DEF Ends, Sums
<1>5. ASSUME NEW i \in 0..n PROVE e[i] \in Nat /\ \A j \in 0..i : e[j] <= e[i]
  <2>1. \A j \in 1..i : j \in 1..n
    BY <1>2
  <2>2. i \in Nat /\ Sums(e, i, f) /\ \A j \in 1..i : f[j] \in Nat
    BY <1>2, <1>3, <1>4, <2>1 DEF Sums
  <2>3. \A j \in 0..i : e[j] \in Nat /\ e[j] <= e[i]
    BY <2>2, SumsGrow
  <2>4. i \in 0..i
    BY <2>2
  <2> QED BY <2>3, <2>4
<1>6. \A i \in 1..n : e[i] = e[i - 1] + Len(FrameTo(r, ms[i]))
  BY <1>1 DEF Ends
<1> QED BY <1>1, <1>3, <1>5, <1>6

\* One more frame at the end.
LEMMA FrameWritten ==
    ASSUME NEW r \in {"bridge", "device"}, NEW ms \in Seq(MessagesTo(r)), NEW k \in 0..Len(ms),
           NEW all, NEW e, InFlight(r, ms, k, all, e), NEW m \in MessagesTo(r)
    PROVE  \E d : InFlight(r, Append(ms, m), k, all \o FrameTo(r, m), d)
<1>1. PICK n, f, new, more : n = Len(ms) /\ f = FrameTo(r, m) /\ new = Append(ms, m) /\ more = all \o f
  OBVIOUS
<1>2. n \in Nat /\ k \in Nat /\ k <= n
  BY <1>1, LenProperties
<1>3. new \in Seq(MessagesTo(r)) /\ Len(new) = n + 1 /\ new[n + 1] = m /\ \A i \in 1..n : new[i] = ms[i]
  BY <1>1, AppendProperties
<1>4. /\ Ends(e, r, ms) /\ all \in Seq(Nat) /\ Len(all) = e[n] - e[k]
      /\ \A i \in (k + 1)..n : \A j \in 1..Len(FrameTo(r, ms[i])) :
           all[(e[i - 1] - e[k]) + j] = FrameTo(r, ms[i])[j]
  BY <1>1 DEF InFlight
<1>5. /\ \A i \in 0..n : e[i] \in Nat /\ \A j \in 0..i : e[j] <= e[i]
      /\ \A i \in 1..n : /\ Len(FrameTo(r, ms[i])) \in Nat /\ Len(FrameTo(r, ms[i])) >= 9
                         /\ e[i] = e[i - 1] + Len(FrameTo(r, ms[i]))
  BY <1>1, <1>4, EndsGrow
<1>6. f \in Seq(Nat) /\ Len(f) \in Nat
  <2>1. WellFramed(r, m)
    BY FramesRead
  <2> QED BY <1>1, <2>1 DEF WellFramed
<1>7. PICK d : d = [i \in 0..(n + 1) |-> IF i = n + 1 THEN e[n] + Len(f) ELSE e[i]]
  OBVIOUS
<1>8. d[n + 1] = e[n] + Len(f) /\ \A i \in 0..n : d[i] = e[i]
  BY <1>2, <1>7
<1>9. Ends(d, r, new)
  <2>1. d[0] = 0
    <3>1. 0 \in 0..n
      BY <1>2
    <3> QED BY <1>4, <1>8, <3>1 DEF Ends
  <2>2. ASSUME NEW i \in 1..(n + 1) PROVE d[i] = d[i - 1] + Len(FrameTo(r, new[i]))
    <3>1. CASE i = n + 1
      <4>1. i - 1 = n /\ n \in 0..n
        BY <1>2, <3>1
      <4> QED BY <1>1, <1>3, <1>8, <3>1, <4>1
    <3>2. CASE i # n + 1
      <4>1. i \in 1..n /\ i \in 0..n /\ i - 1 \in 0..n
        BY <1>2, <3>2
      <4> QED BY <1>3, <1>5, <1>8, <4>1
    <3> QED BY <3>1, <3>2
  <2> QED BY <1>3, <2>1, <2>2 DEF Ends
<1>10. k \in 0..n /\ n \in 0..n /\ e[k] \in Nat /\ e[n] \in Nat /\ e[k] <= e[n]
  <2>1. k \in 0..n /\ n \in 0..n
    BY <1>2
  <2> QED BY <1>5, <2>1
<1>11. PICK a : a = Len(all)
  OBVIOUS
<1>12. a \in Nat /\ a = e[n] - e[k]
  BY <1>4, <1>10, <1>11
<1>13. /\ more \in Seq(Nat) /\ Len(more) = a + Len(f)
       /\ \A i \in 1..(a + Len(f)) : more[i] = IF i <= a THEN all[i] ELSE f[i - a]
  <2>1. all \in Seq(Nat)
    BY <1>4
  <2> QED BY <1>1, <1>6, <1>11, <2>1, ConcatProperties
<1>14. Len(more) = d[n + 1] - d[k]
  BY <1>6, <1>8, <1>10, <1>12, <1>13
<1>15. ASSUME NEW i \in (k + 1)..(n + 1), NEW j \in 1..Len(FrameTo(r, new[i]))
       PROVE  more[(d[i - 1] - d[k]) + j] = FrameTo(r, new[i])[j]
  <2>1. CASE i = n + 1
    <3>1. d[i - 1] - d[k] = a /\ FrameTo(r, new[i]) = f
      <4>1. i - 1 = n
        BY <1>2, <2>1
      <4> QED BY <1>1, <1>3, <1>8, <1>10, <1>12, <2>1, <4>1
    <3>2. a + j \in 1..(a + Len(f)) /\ ~(a + j <= a) /\ (a + j) - a = j
      BY <1>6, <1>12, <3>1
    <3> QED BY <1>13, <3>1, <3>2
  <2>2. CASE i # n + 1
    <3>1. i \in (k + 1)..n /\ i \in 1..n /\ i \in 0..n /\ i - 1 \in 0..n /\ k \in 0..(i - 1)
      BY <1>2, <2>2
    <3>2. PICK x, l : x = e[i - 1] - e[k] /\ l = Len(FrameTo(r, ms[i]))
      OBVIOUS
    <3>3. /\ new[i] = ms[i] /\ d[i - 1] - d[k] = x /\ l \in Nat
          /\ e[i] = e[i - 1] + l /\ e[i] <= e[n] /\ e[k] <= e[i - 1] /\ j \in 1..l
      <4>1. new[i] = ms[i] /\ d[i - 1] = e[i - 1] /\ d[k] = e[k]
        BY <1>3, <1>8, <1>10, <3>1
      <4>2. e[k] <= e[i - 1] /\ e[i] <= e[n] /\ l \in Nat /\ e[i] = e[i - 1] + l
        BY <1>5, <1>10, <3>1, <3>2
      <4> QED BY <3>2, <4>1, <4>2
    <3>4. e[i - 1] \in Nat /\ e[i] \in Nat
      BY <1>5, <3>1
    <3>5. x + j \in 1..a /\ x + j \in 1..(a + Len(f)) /\ x + j <= a
      <4>1. PICK p, q, c, z, g : p = e[i - 1] /\ q = e[i] /\ c = e[k] /\ z = e[n] /\ g = Len(f)
        OBVIOUS
      <4>2. p \in Nat /\ q \in Nat /\ c \in Nat /\ z \in Nat /\ g \in Nat /\ a \in Nat /\ a = z - c
        BY <1>6, <1>10, <1>12, <3>4, <4>1
      <4>3. x = p - c /\ q = p + l /\ q <= z /\ c <= p /\ l \in Nat /\ j \in 1..l
        BY <3>2, <3>3, <4>1
      <4>4. x + j \in 1..a /\ x + j \in 1..(a + g) /\ x + j <= a
        BY <4>2, <4>3
      <4> QED BY <4>1, <4>4
    <3>6. all[x + j] = FrameTo(r, ms[i])[j]
      BY <1>4, <3>1, <3>2, <3>3
    <3> QED BY <1>13, <3>3, <3>5, <3>6
  <2> QED BY <2>1, <2>2
<1>16. InFlight(r, new, k, more, d)
  BY <1>3, <1>9, <1>13, <1>14, <1>15 DEF InFlight
<1> QED BY <1>1, <1>16

\* The first frame, and what is left after it.
Ahead(r, ms, k, all, e, f) ==
    /\ f \in Seq(Nat) /\ Len(f) \in Nat /\ Len(f) <= Len(all) /\ e[k + 1] = e[k] + Len(f)
    /\ \A j \in 1..Len(f) : all[j] = f[j]
    /\ InFlight(r, ms, k + 1, Piece(all, Len(f), Len(all) - Len(f)), e)

LEMMA FrameAhead ==
    ASSUME NEW r \in {"bridge", "device"}, NEW ms \in Seq(MessagesTo(r)), NEW k \in 0..Len(ms),
           NEW all, NEW e, InFlight(r, ms, k, all, e), k < Len(ms),
           NEW f, f = FrameTo(r, ms[k + 1])
    PROVE  Ahead(r, ms, k, all, e, f)
<1>1. PICK n : n = Len(ms)
  OBVIOUS
<1>2. n \in Nat /\ k \in Nat /\ k + 1 <= n /\ k + 1 \in 1..n /\ (k + 1) - 1 = k /\ n \in 0..n
  BY <1>1, LenProperties
<1>3. /\ Ends(e, r, ms) /\ all \in Seq(Nat) /\ Len(all) = e[n] - e[k]
      /\ \A i \in (k + 1)..n : \A j \in 1..Len(FrameTo(r, ms[i])) :
           all[(e[i - 1] - e[k]) + j] = FrameTo(r, ms[i])[j]
  BY <1>1 DEF InFlight
<1>4. /\ \A i \in 0..n : e[i] \in Nat /\ \A j \in 0..i : e[j] <= e[i]
      /\ \A i \in 1..n : /\ Len(FrameTo(r, ms[i])) \in Nat /\ Len(FrameTo(r, ms[i])) >= 9
                         /\ e[i] = e[i - 1] + Len(FrameTo(r, ms[i]))
  BY <1>1, <1>3, EndsGrow
<1>5. f \in Seq(Nat)
  <2>1. ms[k + 1] \in MessagesTo(r)
    BY <1>1, <1>2, ElementOfSeq
  <2>2. WellFramed(r, ms[k + 1])
    BY <2>1, FramesRead
  <2> QED BY <2>2 DEF WellFramed
<1>6. PICK l, a, rest : l = Len(f) /\ a = Len(all) /\ rest = Piece(all, l, a - l)
  OBVIOUS
<1>7. /\ e[k] \in Nat /\ e[k + 1] \in Nat /\ e[n] \in Nat /\ l \in Nat /\ e[k + 1] = e[k] + l
      /\ e[k + 1] <= e[n] /\ a = e[n] - e[k]
  <2>1. k \in 0..n /\ k + 1 \in 0..n
    BY <1>2
  <2> QED BY <1>2, <1>3, <1>4, <1>6, <2>1
<1>8. l <= a /\ a \in Nat /\ a - l \in Nat /\ l + (a - l) = a /\ a - l = e[n] - e[k + 1]
  <2>1. PICK c, q, z : c = e[k] /\ q = e[k + 1] /\ z = e[n]
    OBVIOUS
  <2>2. /\ c \in Nat /\ q \in Nat /\ z \in Nat /\ l \in Nat
        /\ q = c + l /\ q <= z /\ a = z - c
    BY <1>7, <2>1
  <2>3. l <= a /\ a \in Nat /\ a - l \in Nat /\ l + (a - l) = a /\ a - l = z - q
    BY <2>2
  <2> QED BY <2>1, <2>3
<1>9. ASSUME NEW j \in 1..l PROVE all[j] = f[j]
  <2>1. k + 1 \in (k + 1)..n /\ e[(k + 1) - 1] - e[k] = 0 /\ 0 + j = j
    BY <1>2, <1>7
  <2> QED BY <1>3, <1>6, <2>1
<1>10. rest \in Seq(Nat) /\ Len(rest) = a - l /\ \A j \in 1..(a - l) : rest[j] = all[l + j]
  <2>1. all \in Seq(Nat) /\ l \in Nat /\ a - l \in Nat /\ l + (a - l) <= Len(all)
    BY <1>3, <1>6, <1>7, <1>8
  <2>2. PICK b : b = a - l
    OBVIOUS
  <2>3. all \in Seq(Nat) /\ l \in Nat /\ b \in Nat /\ l + b <= Len(all) /\ rest = Piece(all, l, b)
    BY <1>6, <2>1, <2>2
  <2>4. rest \in Seq(Nat) /\ Len(rest) = b /\ \A j \in 1..b : rest[j] = all[l + j]
    BY <2>3, PieceIs
  <2> QED BY <2>2, <2>4
<1>11. ASSUME NEW i \in ((k + 1) + 1)..n, NEW j \in 1..Len(FrameTo(r, ms[i]))
       PROVE  rest[(e[i - 1] - e[k + 1]) + j] = FrameTo(r, ms[i])[j]
  <2>1. i \in (k + 1)..n /\ i \in 1..n /\ i \in 0..n /\ i - 1 \in 0..n /\ k + 1 \in 0..(i - 1)
    BY <1>2
  <2>2. PICK x, y : x = e[i - 1] - e[k + 1] /\ y = Len(FrameTo(r, ms[i]))
    OBVIOUS
  <2>3. /\ e[i - 1] \in Nat /\ e[i] \in Nat /\ e[k + 1] <= e[i - 1] /\ e[i] <= e[n]
        /\ e[i] = e[i - 1] + y /\ y \in Nat /\ j \in 1..y
    BY <1>2, <1>4, <2>1, <2>2
  <2>4. x + j \in 1..(a - l) /\ l + (x + j) = (e[i - 1] - e[k]) + j
    <3>1. PICK p, q, b, c, z : p = e[i - 1] /\ q = e[i] /\ b = e[k + 1] /\ c = e[k] /\ z = e[n]
      OBVIOUS
    <3>2. /\ p \in Nat /\ q \in Nat /\ b \in Nat /\ c \in Nat /\ z \in Nat /\ l \in Nat /\ y \in Nat
          /\ b = c + l /\ a - l = z - b /\ b <= p /\ q <= z /\ q = p + y /\ x = p - b /\ j \in 1..y
      BY <1>7, <1>8, <2>2, <2>3, <3>1
    <3>3. x + j \in 1..(z - b) /\ l + (x + j) = (p - c) + j
      BY <3>2
    <3> QED BY <3>1, <3>2, <3>3
  <2>5. all[(e[i - 1] - e[k]) + j] = FrameTo(r, ms[i])[j]
    BY <1>3, <2>1
  <2> QED BY <1>10, <2>2, <2>4, <2>5
<1>12. InFlight(r, ms, k + 1, rest, e)
  BY <1>1, <1>3, <1>8, <1>10, <1>11 DEF InFlight
<1> QED BY <1>5, <1>6, <1>7, <1>8, <1>9, <1>12 DEF Ahead

-----------------------------------------------------------------------------
(* The buffer and the stream behind it.                                    *)

Joined(b, s) == b \o s

IsJoined(p, b, s, x, y) ==
    /\ x \in Nat /\ y \in Nat /\ p \in Seq(Nat) /\ Len(p) = x + y
    /\ \A i \in 1..(x + y) : p[i] = IF i <= x THEN b[i] ELSE s[i - x]

LEMMA JoinedIs ==
    ASSUME NEW b \in Seq(Nat), NEW s \in Seq(Nat)
    PROVE  IsJoined(Joined(b, s), b, s, Len(b), Len(s))
BY ConcatProperties, LenProperties DEF Joined, IsJoined

\* x is the part of s from position a on, k long.
CutFrom(x, s, a, k) == x \in Seq(Nat) /\ Len(x) = k /\ \A j \in 1..k : x[j] = s[a + j]

LEMMA PieceCut ==
    ASSUME NEW s \in Seq(Nat), NEW a \in Nat, NEW k \in Nat, a + k <= Len(s)
    PROVE  CutFrom(Piece(s, a, k), s, a, k)
BY PieceIs DEF CutFrom

LEMMA JoinedTwice ==
    ASSUME NEW b \in Seq(Nat), NEW s \in Seq(Nat), NEW f \in Seq(Nat)
    PROVE  Joined(Joined(b, s), f) = Joined(b, Joined(s, f))
<1>1. PICK bs, sf, p, q : /\ bs = Joined(b, s) /\ sf = Joined(s, f)
                          /\ p = Joined(bs, f) /\ q = Joined(b, sf)
  OBVIOUS
<1>2. PICK x, y, z : x = Len(b) /\ y = Len(s) /\ z = Len(f)
  OBVIOUS
<1>3. /\ x \in Nat /\ y \in Nat /\ bs \in Seq(Nat) /\ Len(bs) = x + y
      /\ \A i \in 1..(x + y) : bs[i] = IF i <= x THEN b[i] ELSE s[i - x]
  <2>1. IsJoined(bs, b, s, x, y)
    BY <1>1, <1>2, JoinedIs
  <2> QED BY <2>1 DEF IsJoined
<1>4. /\ z \in Nat /\ sf \in Seq(Nat) /\ Len(sf) = y + z
      /\ \A i \in 1..(y + z) : sf[i] = IF i <= y THEN s[i] ELSE f[i - y]
  <2>1. IsJoined(sf, s, f, y, z)
    BY <1>1, <1>2, JoinedIs
  <2> QED BY <2>1 DEF IsJoined
<1>5. /\ p \in Seq(Nat) /\ Len(p) = (x + y) + z
      /\ \A i \in 1..((x + y) + z) : p[i] = IF i <= x + y THEN bs[i] ELSE f[i - (x + y)]
  <2>1. bs \in Seq(Nat) /\ Len(bs) = x + y /\ z = Len(f) /\ p = Joined(bs, f)
    BY <1>1, <1>2, <1>3
  <2>2. IsJoined(p, bs, f, x + y, z)
    BY <2>1, JoinedIs
  <2> QED BY <2>2 DEF IsJoined
<1>6. /\ q \in Seq(Nat) /\ Len(q) = x + (y + z)
      /\ \A i \in 1..(x + (y + z)) : q[i] = IF i <= x THEN b[i] ELSE sf[i - x]
  <2>1. sf \in Seq(Nat) /\ Len(sf) = y + z /\ x = Len(b) /\ q = Joined(b, sf)
    BY <1>1, <1>2, <1>4
  <2>2. IsJoined(q, b, sf, x, y + z)
    BY <2>1, JoinedIs
  <2> QED BY <2>2 DEF IsJoined
<1>7. (x + y) + z = x + (y + z)
  BY <1>3, <1>4
<1>8. ASSUME NEW i \in 1..(x + (y + z)) PROVE p[i] = q[i]
  <2>1. CASE i <= x
    <3>1. i <= x + y /\ i \in 1..(x + y)
      BY <1>3, <1>4, <2>1
    <3> QED BY <1>3, <1>5, <1>6, <1>7, <2>1, <3>1
  <2>2. CASE ~(i <= x) /\ i <= x + y
    <3>1. i \in 1..(x + y) /\ i - x \in 1..(y + z) /\ i - x <= y
      BY <1>3, <1>4, <2>2
    <3> QED BY <1>3, <1>4, <1>5, <1>6, <1>7, <2>2, <3>1
  <2>3. CASE ~(i <= x + y)
    <3>1. ~(i <= x) /\ i - x \in 1..(y + z) /\ ~(i - x <= y) /\ (i - x) - y = i - (x + y)
      BY <1>3, <1>4, <2>3
    <3> QED BY <1>4, <1>5, <1>6, <1>7, <2>3, <3>1
  <2> QED BY <2>1, <2>2, <2>3
<1>9. p = q
  BY <1>5, <1>6, <1>7, <1>8, SeqEqual
<1> QED BY <1>1, <1>9

\* What is received is no longer in the stream.
LEMMA Moved ==
    ASSUME NEW b \in Seq(Nat), NEW s \in Seq(Nat), NEW n \in 1..Len(s)
    PROVE  /\ Joined(b, SubSeq(s, 1, n)) \in Seq(Nat) /\ SubSeq(s, n + 1, Len(s)) \in Seq(Nat)
           /\ Joined(Joined(b, SubSeq(s, 1, n)), SubSeq(s, n + 1, Len(s))) = Joined(b, s)
<1>1. PICK z, c, x, y : z = Len(s) /\ c = z - n /\ x = Piece(s, 0, n) /\ y = Piece(s, n, c)
  OBVIOUS
<1>2. z \in Nat /\ n \in Nat /\ n <= z /\ c \in Nat /\ n + c = z
  <2>1. z \in Nat
    BY <1>1, LenProperties
  <2>2. n \in 1..z
    BY <1>1
  <2> QED BY <1>1, <2>1, <2>2
<1>3. x = SubSeq(s, 1, n) /\ y = SubSeq(s, n + 1, Len(s))
  <2>1. 0 + 1 = 1 /\ 0 + n = n
    BY <1>2
  <2> QED BY <1>1, <1>2, <2>1 DEF Piece
<1>4. x \in Seq(Nat) /\ Len(x) = n /\ \A j \in 1..n : x[j] = s[j]
  <2>1. 0 + n <= Len(s) /\ 0 \in Nat /\ x = Piece(s, 0, n)
    BY <1>1, <1>2
  <2>2. CutFrom(x, s, 0, n)
    BY <1>2, <2>1, PieceCut
  <2>3. \A j \in 1..n : 0 + j = j
    BY <1>2
  <2> QED BY <2>2, <2>3 DEF CutFrom
<1>5. y \in Seq(Nat) /\ Len(y) = c /\ \A j \in 1..c : y[j] = s[n + j]
  <2>1. n + c <= Len(s) /\ y = Piece(s, n, c)
    BY <1>1, <1>2
  <2>2. CutFrom(y, s, n, c)
    BY <1>2, <2>1, PieceCut
  <2> QED BY <2>2 DEF CutFrom
<1>6. PICK u : u = Joined(x, y)
  OBVIOUS
<1>7. u = s
  <2>1. /\ u \in Seq(Nat) /\ Len(u) = n + c
        /\ \A i \in 1..(n + c) : u[i] = IF i <= n THEN x[i] ELSE y[i - n]
    <3>1. IsJoined(u, x, y, n, c)
      BY <1>4, <1>5, <1>6, JoinedIs
    <3> QED BY <3>1 DEF IsJoined
  <2>2. ASSUME NEW i \in 1..z PROVE u[i] = s[i]
    <3>1. CASE i <= n
      <4>1. i \in 1..n /\ i \in 1..(n + c)
        BY <1>2, <3>1
      <4> QED BY <1>4, <2>1, <3>1, <4>1
    <3>2. CASE ~(i <= n)
      <4>1. i - n \in 1..c /\ n + (i - n) = i /\ i \in 1..(n + c)
        BY <1>2, <3>2
      <4> QED BY <1>5, <2>1, <3>2, <4>1
    <3> QED BY <3>1, <3>2
  <2> QED BY <1>1, <1>2, <2>1, <2>2, SeqEqual
<1>8. Joined(Joined(b, x), y) = Joined(b, s)
  <2>1. x \in Seq(Nat) /\ y \in Seq(Nat) /\ Joined(x, y) = s
    BY <1>4, <1>5, <1>6, <1>7
  <2>2. Joined(Joined(b, x), y) = Joined(b, Joined(x, y))
    BY <2>1, JoinedTwice
  <2> QED BY <2>1, <2>2
<1>9. Joined(b, x) \in Seq(Nat)
  <2>1. IsJoined(Joined(b, x), b, x, Len(b), Len(x))
    BY <1>4, JoinedIs
  <2> QED BY <2>1 DEF IsJoined
<1> QED BY <1>3, <1>5, <1>8, <1>9

\* What the parser takes was ahead of all else.
LeftAfter(b, s, n, all) ==
    /\ SubSeq(b, n + 1, Len(b)) \in Seq(Nat)
    /\ Joined(SubSeq(b, n + 1, Len(b)), s) = Piece(all, n, Len(all) - n)

LEMMA Taken ==
    ASSUME NEW b \in Seq(Nat), NEW s \in Seq(Nat), NEW n \in Nat, n <= Len(b),
           NEW all, all = Joined(b, s)
    PROVE  LeftAfter(b, s, n, all)
<1>1. PICK z, w, c, d, x : /\ z = Len(b) /\ w = Len(s) /\ c = z - n /\ d = Len(all) - n
                           /\ x = Piece(b, n, c)
  OBVIOUS
<1>2. /\ all \in Seq(Nat) /\ Len(all) = z + w /\ z \in Nat /\ w \in Nat
      /\ \A i \in 1..(z + w) : all[i] = IF i <= z THEN b[i] ELSE s[i - z]
  <2>1. IsJoined(all, b, s, z, w)
    BY <1>1, JoinedIs
  <2> QED BY <2>1 DEF IsJoined
<1>3. c \in Nat /\ d \in Nat /\ n + c = z /\ d = c + w /\ n + d = z + w
  <2>1. n <= z /\ c = z - n /\ d = (z + w) - n
    BY <1>1, <1>2
  <2> QED BY <1>2, <2>1
<1>4. x = SubSeq(b, n + 1, Len(b))
  BY <1>1, <1>3 DEF Piece
<1>5. x \in Seq(Nat) /\ Len(x) = c /\ \A j \in 1..c : x[j] = b[n + j]
  <2>1. n + c <= Len(b) /\ x = Piece(b, n, c)
    BY <1>1, <1>2, <1>3
  <2>2. CutFrom(x, b, n, c)
    BY <1>3, <2>1, PieceCut
  <2> QED BY <2>2 DEF CutFrom
<1>6. PICK p, q : p = Piece(all, n, d) /\ q = Joined(x, s)
  OBVIOUS
<1>7. p \in Seq(Nat) /\ Len(p) = d /\ \A j \in 1..d : p[j] = all[n + j]
  <2>1. n + d <= Len(all) /\ p = Piece(all, n, d) /\ all \in Seq(Nat)
    BY <1>2, <1>3, <1>6
  <2>2. CutFrom(p, all, n, d)
    BY <1>3, <2>1, PieceCut
  <2> QED BY <2>2 DEF CutFrom
<1>8. /\ q \in Seq(Nat) /\ Len(q) = d
      /\ \A j \in 1..d : q[j] = IF j <= c THEN x[j] ELSE s[j - c]
  <2>1. /\ q \in Seq(Nat) /\ Len(q) = c + w
        /\ \A j \in 1..(c + w) : q[j] = IF j <= c THEN x[j] ELSE s[j - c]
    <3>1. x \in Seq(Nat) /\ Len(x) = c /\ q = Joined(x, s) /\ w = Len(s)
      BY <1>1, <1>5, <1>6
    <3>2. IsJoined(q, x, s, c, w)
      BY <3>1, JoinedIs
    <3> QED BY <3>2 DEF IsJoined
  <2> QED BY <1>3, <2>1
<1>9. ASSUME NEW j \in 1..d PROVE q[j] = p[j]
  <2>1. n + j \in 1..(z + w) /\ (j <= c <=> n + j <= z) /\ (n + j) - z = j - c
    BY <1>2, <1>3
  <2>2. CASE j <= c
    <3>1. j \in 1..c
      BY <1>3, <2>2
    <3> QED BY <1>2, <1>5, <1>7, <1>8, <2>1, <2>2, <3>1
  <2>3. CASE ~(j <= c)
    BY <1>2, <1>7, <1>8, <2>1, <2>3
  <2> QED BY <2>2, <2>3
<1>10. q = p
  BY <1>7, <1>8, <1>9, SeqEqual
<1> QED BY <1>1, <1>4, <1>5, <1>6, <1>10 DEF LeftAfter

-----------------------------------------------------------------------------
(* One turn of the receiver's loop.                                        *)

\* n is the length in the header in front of b; the whole frame reads as the
\* message after the k-th.
Turned(r, ms, k, b, s, e, n, got) ==
    /\ k + 1 <= Len(ms) /\ n \in Nat /\ n <= 4096 /\ e[k + 1] = e[k] + (8 + n)
    /\ b[2] = TypeTo(r) /\ b[3] + 256 * b[4] = n
    /\ got \in Readings /\ Reads(got, ms[k + 1])
    /\ 8 + n <= Len(b) => /\ ReadBy(r, SubSeq(b, 8 + 1, 8 + n)) = <<got>>
                          /\ SubSeq(b, 8 + n + 1, Len(b)) \in Seq(Nat)
                          /\ InFlight(r, ms, k + 1, Joined(SubSeq(b, 8 + n + 1, Len(b)), s), e)

LEMMA Turn ==
    ASSUME NEW r \in {"bridge", "device"}, NEW ms \in Seq(MessagesTo(r)), NEW k \in 0..Len(ms),
           NEW b \in Seq(Nat), NEW s \in Seq(Nat), NEW e, InFlight(r, ms, k, Joined(b, s), e),
           8 <= Len(b)
    PROVE  \E n, got : Turned(r, ms, k, b, s, e, n, got)
<1>1. PICK all, z, w, m : all = Joined(b, s) /\ z = Len(b) /\ w = Len(s) /\ m = Len(ms)
  OBVIOUS
<1>2. /\ all \in Seq(Nat) /\ Len(all) = z + w /\ z \in Nat /\ w \in Nat
      /\ \A i \in 1..(z + w) : all[i] = IF i <= z THEN b[i] ELSE s[i - z]
  <2>1. IsJoined(all, b, s, z, w)
    BY <1>1, JoinedIs
  <2> QED BY <2>1 DEF IsJoined
<1>3. m \in Nat /\ k \in Nat /\ k < m /\ k + 1 \in 1..m
  <2>1. m \in Nat /\ k \in 0..m
    BY <1>1, LenProperties
  <2>2. Len(all) = e[m] - e[k] /\ Ends(e, r, ms)
    BY <1>1 DEF InFlight
  <2>3. e[m] \in Nat
    <3>1. m \in 0..m
      BY <2>1
    <3> QED BY <1>1, <2>2, <3>1, EndsGrow
  <2>4. k # m
    <3> SUFFICES ASSUME k = m PROVE FALSE
      OBVIOUS
    <3>1. z + w = e[m] - e[m]
      BY <1>2, <2>2
    <3>2. 8 <= z
      BY <1>1
    <3>3. PICK c : c = e[m]
      OBVIOUS
    <3>4. c \in Nat /\ z + w = c - c
      BY <2>3, <3>1, <3>3
    <3> QED BY <1>2, <3>2, <3>4
  <2> QED BY <2>1, <2>4
<1>4. PICK f, l, n : f = FrameTo(r, ms[k + 1]) /\ l = Len(f) /\ n = l - 8
  OBVIOUS
<1>5. ms[k + 1] \in MessagesTo(r)
  BY <1>1, <1>3, ElementOfSeq
<1>6. /\ f \in Seq(Nat) /\ l \in Nat /\ l >= 9 /\ l <= 4104
      /\ f[2] = TypeTo(r) /\ f[3] + 256 * f[4] = n
  <2>1. WellFramed(r, ms[k + 1])
    BY <1>5, FramesRead
  <2> QED BY <1>4, <2>1 DEF WellFramed
<1>7. PICK got : got \in Readings /\ Reads(got, ms[k + 1]) /\ ReadBy(r, Piece(f, 8, n)) = <<got>>
  <2>1. WellFramed(r, ms[k + 1])
    BY <1>5, FramesRead
  <2>2. WellRead(r, f, ms[k + 1])
    BY <1>4, <2>1 DEF WellFramed
  <2>3. n = Len(f) - 8
    BY <1>4
  <2> QED BY <2>2, <2>3 DEF WellRead
<1>8. n \in Nat /\ n <= 4096 /\ 8 + n = l
  BY <1>4, <1>6
<1>9. /\ l <= z + w /\ e[k + 1] = e[k] + l /\ \A j \in 1..l : all[j] = f[j]
      /\ InFlight(r, ms, k + 1, Piece(all, l, Len(all) - l), e)
  <2>1. InFlight(r, ms, k, all, e) /\ k < Len(ms) /\ f = FrameTo(r, ms[k + 1])
    BY <1>1, <1>3, <1>4
  <2>2. /\ Len(f) <= Len(all) /\ e[k + 1] = e[k] + Len(f) /\ \A j \in 1..Len(f) : all[j] = f[j]
        /\ InFlight(r, ms, k + 1, Piece(all, Len(f), Len(all) - Len(f)), e)
    <3>1. Ahead(r, ms, k, all, e, f)
      BY <2>1, FrameAhead
    <3> QED BY <3>1 DEF Ahead
  <2>3. Len(f) = l /\ Len(all) = z + w
    BY <1>2, <1>4
  <2> QED BY <2>2, <2>3
<1>10. ASSUME NEW j \in 1..l, j <= z PROVE b[j] = f[j]
  <2>1. j \in 1..(z + w)
    BY <1>2, <1>6, <1>9
  <2> QED BY <1>2, <1>9, <1>10, <2>1
<1>11. b[2] = TypeTo(r) /\ b[3] + 256 * b[4] = n
  <2>1. /\ 2 \in 1..l /\ 3 \in 1..l /\ 4 \in 1..l /\ 2 <= z /\ 3 <= z /\ 4 <= z
    <3>1. 8 <= z
      BY <1>1
    <3> QED BY <1>2, <1>6, <3>1
  <2>2. b[2] = f[2] /\ b[3] = f[3] /\ b[4] = f[4]
    BY <1>10, <2>1
  <2> QED BY <1>6, <2>2
<1>12. ASSUME 8 + n <= z
       PROVE  /\ ReadBy(r, SubSeq(b, 8 + 1, 8 + n)) = <<got>>
              /\ SubSeq(b, 8 + n + 1, Len(b)) \in Seq(Nat)
              /\ InFlight(r, ms, k + 1, Joined(SubSeq(b, 8 + n + 1, Len(b)), s), e)
  <2>1. PICK p, q : p = Piece(b, 8, n) /\ q = Piece(f, 8, n)
    OBVIOUS
  <2>2. p \in Seq(Nat) /\ Len(p) = n /\ \A j \in 1..n : p[j] = b[8 + j]
    <3>1. 8 \in Nat /\ n \in Nat /\ 8 + n <= Len(b) /\ p = Piece(b, 8, n)
      BY <1>1, <1>8, <1>12, <2>1
    <3>2. CutFrom(p, b, 8, n)
      BY <3>1, PieceCut
    <3> QED BY <3>2 DEF CutFrom
  <2>3. q \in Seq(Nat) /\ Len(q) = n /\ \A j \in 1..n : q[j] = f[8 + j]
    <3>1. 8 \in Nat /\ n \in Nat /\ 8 + n <= Len(f) /\ q = Piece(f, 8, n) /\ f \in Seq(Nat)
      BY <1>4, <1>6, <1>8, <2>1
    <3>2. CutFrom(q, f, 8, n)
      BY <3>1, PieceCut
    <3> QED BY <3>2 DEF CutFrom
  <2>4. ASSUME NEW j \in 1..n PROVE p[j] = q[j]
    <3>1. 8 + j \in 1..l /\ 8 + j <= z
      BY <1>2, <1>6, <1>8, <1>12
    <3> QED BY <1>10, <2>2, <2>3, <3>1
  <2>5. p = q
    BY <2>2, <2>3, <2>4, SeqEqual
  <2>6. ReadBy(r, SubSeq(b, 8 + 1, 8 + n)) = <<got>>
    BY <1>7, <2>1, <2>5 DEF Piece
  <2>7. l <= Len(b)
    BY <1>1, <1>8, <1>12
  <2>8. /\ SubSeq(b, l + 1, Len(b)) \in Seq(Nat)
        /\ Joined(SubSeq(b, l + 1, Len(b)), s) = Piece(all, l, Len(all) - l)
    <3>1. l \in Nat /\ l <= Len(b) /\ all = Joined(b, s)
      BY <1>1, <1>6, <2>7
    <3>2. LeftAfter(b, s, l, all)
      BY <3>1, Taken
    <3> QED BY <3>2 DEF LeftAfter
  <2>9. InFlight(r, ms, k + 1, Joined(SubSeq(b, l + 1, Len(b)), s), e)
    BY <1>9, <2>8
  <2> QED BY <1>8, <2>6, <2>8, <2>9
<1>13. e[k + 1] = e[k] + (8 + n) /\ k + 1 <= Len(ms)
  BY <1>1, <1>3, <1>8, <1>9
<1>14. Turned(r, ms, k, b, s, e, n, got)
  BY <1>1, <1>7, <1>8, <1>11, <1>12, <1>13 DEF Turned
<1> QED BY <1>14

-----------------------------------------------------------------------------
(* The inductive invariant: what lies in the buffer and then in the stream *)
(* are the frames of the messages that were not handled yet.               *)

Consistent(r, ms, s, b, hs) ==
    /\ r \in {"bridge", "device"}
    /\ ms \in Seq(MessagesTo(r)) /\ s \in Seq(Nat) /\ b \in Seq(Nat)
    /\ hs \in Seq(Readings) /\ Len(hs) <= Len(ms)
    /\ \E e : InFlight(r, ms, Len(hs), Joined(b, s), e)
    /\ \A i \in 1..Len(hs) : Reads(hs[i], ms[i])

WireInv == Consistent(receiver, sent, stream, buffer, handled)

LEMMA StartConsistent ==
    ASSUME NEW r \in {"bridge", "device"}
    PROVE  Consistent(r, <<>>, <<>>, <<>>, <<>>)
<1>1. PICK all : all = Joined(<<>>, <<>>)
  OBVIOUS
<1>2. <<>> \in Seq(MessagesTo(r)) /\ <<>> \in Seq(Nat) /\ <<>> \in Seq(Readings) /\ Len(<<>>) = 0
  OBVIOUS
<1>3. all \in Seq(Nat) /\ Len(all) = 0
  <2>1. IsJoined(all, <<>>, <<>>, 0, 0)
    BY <1>1, <1>2, JoinedIs
  <2> QED BY <2>1 DEF IsJoined
<1>4. PICK e : e = [i \in 0..0 |-> 0]
  OBVIOUS
<1>5. e[0] = 0
  BY <1>4
<1>6. InFlight(r, <<>>, 0, all, e)
  <2>1. Ends(e, r, <<>>)
    BY <1>2, <1>5 DEF Ends
  <2>2. Len(all) = e[Len(<<>>)] - e[0]
    BY <1>2, <1>3, <1>5
  <2>3. (0 + 1)..Len(<<>>) = {}
    BY <1>2
  <2> QED BY <1>3, <2>1, <2>2, <2>3 DEF InFlight
<1> QED BY <1>1, <1>2, <1>6 DEF Consistent

LEMMA SendConsistent ==
    ASSUME NEW r, NEW ms, NEW s, NEW b, NEW hs, Consistent(r, ms, s, b, hs), NEW m \in MessagesTo(r)
    PROVE  Consistent(r, Append(ms, m), Joined(s, FrameTo(r, m)), b, hs)
<1>1. /\ r \in {"bridge", "device"}
      /\ ms \in Seq(MessagesTo(r)) /\ s \in Seq(Nat) /\ b \in Seq(Nat)
      /\ hs \in Seq(Readings) /\ Len(hs) <= Len(ms)
  BY DEF Consistent
<1>2. PICK f, new, k : f = FrameTo(r, m) /\ new = Append(ms, m) /\ k = Len(hs)
  OBVIOUS
<1>3. f \in Seq(Nat)
  <2>1. WellFramed(r, m)
    BY <1>1, FramesRead
  <2> QED BY <1>2, <2>1 DEF WellFramed
<1>4. new \in Seq(MessagesTo(r)) /\ Len(new) = Len(ms) + 1 /\ \A i \in 1..Len(ms) : new[i] = ms[i]
  BY <1>1, <1>2, AppendProperties
<1>5. k \in Nat /\ Len(ms) \in Nat /\ k \in 0..Len(ms) /\ k <= Len(new)
  <2>1. k \in Nat /\ Len(ms) \in Nat
    BY <1>1, <1>2, LenProperties
  <2> QED BY <1>1, <1>2, <1>4, <2>1
<1>6. PICK e : InFlight(r, ms, k, Joined(b, s), e)
  BY <1>2 DEF Consistent
<1>7. Joined(s, f) \in Seq(Nat)
  <2>1. IsJoined(Joined(s, f), s, f, Len(s), Len(f))
    BY <1>1, <1>3, JoinedIs
  <2> QED BY <2>1 DEF IsJoined
<1>8. \E d : InFlight(r, new, k, Joined(b, Joined(s, f)), d)
  <2>1. PICK all : all = Joined(b, s)
    OBVIOUS
  <2>2. PICK d : InFlight(r, Append(ms, m), k, all \o FrameTo(r, m), d)
    BY <1>1, <1>5, <1>6, <2>1, FrameWritten
  <2>3. InFlight(r, new, k, Joined(all, f), d)
    BY <1>2, <2>2 DEF Joined
  <2>4. Joined(all, f) = Joined(b, Joined(s, f))
    BY <1>1, <1>3, <2>1, JoinedTwice
  <2> QED BY <2>3, <2>4
<1>9. \A i \in 1..k : Reads(hs[i], new[i])
  <2>1. \A i \in 1..k : Reads(hs[i], ms[i])
    BY <1>2 DEF Consistent
  <2>2. \A i \in 1..k : i \in 1..Len(ms)
    BY <1>5
  <2> QED BY <1>4, <2>1, <2>2
<1> QED BY <1>1, <1>2, <1>4, <1>5, <1>7, <1>8, <1>9 DEF Consistent

LEMMA ReceiveConsistent ==
    ASSUME NEW r, NEW ms, NEW s, NEW b, NEW hs, Consistent(r, ms, s, b, hs), NEW n \in 1..Len(s)
    PROVE  Consistent(r, ms, SubSeq(s, n + 1, Len(s)), Joined(b, SubSeq(s, 1, n)), hs)
<1>1. s \in Seq(Nat) /\ b \in Seq(Nat)
  BY DEF Consistent
<1>2. PICK x, y : x = SubSeq(s, 1, n) /\ y = SubSeq(s, n + 1, Len(s))
  OBVIOUS
<1>3. Joined(b, x) \in Seq(Nat) /\ y \in Seq(Nat) /\ Joined(Joined(b, x), y) = Joined(b, s)
  BY <1>1, <1>2, Moved
<1>4. Consistent(r, ms, y, Joined(b, x), hs)
  BY <1>3 DEF Consistent
<1> QED BY <1>2, <1>4

Extended(hs, got) == hs \o <<got>>

\* What the receiver finds when at least a header has arrived.
TurnOf(r, ms, s, b, hs, n, got) ==
    /\ n \in Nat /\ n <= 4096 /\ b[2] = TypeTo(r) /\ b[3] + 256 * b[4] = n
    /\ 8 + n <= Len(b) => /\ ReadBy(r, SubSeq(b, 8 + 1, 8 + n)) = <<got>>
                          /\ Consistent(r, ms, s, SubSeq(b, 8 + n + 1, Len(b)), Extended(hs, got))

LEMMA ParseConsistent ==
    ASSUME NEW r, NEW ms, NEW s, NEW b, NEW hs, Consistent(r, ms, s, b, hs), 8 <= Len(b)
    PROVE  \E n, got : TurnOf(r, ms, s, b, hs, n, got)
<1>1. /\ r \in {"bridge", "device"}
      /\ ms \in Seq(MessagesTo(r)) /\ s \in Seq(Nat) /\ b \in Seq(Nat)
      /\ hs \in Seq(Readings) /\ Len(hs) <= Len(ms)
  BY DEF Consistent
<1>2. PICK k : k = Len(hs)
  OBVIOUS
<1>3. k \in Nat /\ Len(ms) \in Nat /\ k \in 0..Len(ms)
  <2>1. k \in Nat /\ Len(ms) \in Nat
    BY <1>1, <1>2, LenProperties
  <2> QED BY <1>1, <1>2, <2>1
<1>4. PICK e : InFlight(r, ms, k, Joined(b, s), e)
  BY <1>2 DEF Consistent
<1>5. PICK n, got : Turned(r, ms, k, b, s, e, n, got)
  BY <1>1, <1>3, <1>4, Turn
<1>6. /\ k + 1 <= Len(ms) /\ n \in Nat /\ n <= 4096
      /\ b[2] = TypeTo(r) /\ b[3] + 256 * b[4] = n
      /\ got \in Readings /\ Reads(got, ms[k + 1])
  BY <1>5 DEF Turned
<1>7. ASSUME 8 + n <= Len(b)
      PROVE  /\ ReadBy(r, SubSeq(b, 8 + 1, 8 + n)) = <<got>>
             /\ Consistent(r, ms, s, SubSeq(b, 8 + n + 1, Len(b)), Extended(hs, got))
  <2>1. PICK rest : rest = SubSeq(b, 8 + n + 1, Len(b))
    OBVIOUS
  <2>2. /\ ReadBy(r, SubSeq(b, 8 + 1, 8 + n)) = <<got>>
        /\ rest \in Seq(Nat) /\ InFlight(r, ms, k + 1, Joined(rest, s), e)
    BY <1>5, <1>7, <2>1 DEF Turned
  <2>3. PICK one, new : one = <<got>> /\ new = hs \o one
    OBVIOUS
  <2>4. one \in Seq(Readings) /\ Len(one) = 1 /\ one[1] = got
    BY <1>6, <2>3
  <2>5. /\ new \in Seq(Readings) /\ Len(new) = k + 1
        /\ \A i \in 1..(k + 1) : new[i] = IF i <= k THEN hs[i] ELSE one[i - k]
    BY <1>1, <1>2, <2>3, <2>4, ConcatProperties
  <2>6. ASSUME NEW i \in 1..(k + 1) PROVE Reads(new[i], ms[i])
    <3>1. CASE i = k + 1
      <4>1. ~(i <= k) /\ i - k = 1
        BY <1>3, <3>1
      <4> QED BY <1>6, <2>4, <2>5, <3>1, <4>1
    <3>2. CASE i # k + 1
      <4>1. i <= k /\ i \in 1..k
        BY <1>3, <3>2
      <4>2. Reads(hs[i], ms[i])
        BY <1>2, <4>1 DEF Consistent
      <4> QED BY <2>5, <4>1, <4>2
    <3> QED BY <3>1, <3>2
  <2>7. Consistent(r, ms, s, rest, new)
    BY <1>1, <1>6, <2>2, <2>5, <2>6 DEF Consistent
  <2>8. Extended(hs, got) = new
    BY <2>3 DEF Extended
  <2> QED BY <2>1, <2>2, <2>7, <2>8
<1>8. TurnOf(r, ms, s, b, hs, n, got)
  BY <1>6, <1>7 DEF TurnOf
<1> QED BY <1>8

-----------------------------------------------------------------------------
\* The frames and layouts of Wire are those of the receiver.
LEMMA FrameIs ==
    /\ \A m : Frame(m) = FrameTo(receiver, m)
    /\ Layout = LayoutTo(receiver)
<1>1. ASSUME NEW m PROVE Frame(m) = FrameTo(receiver, m)
  BY DEF Frame, FrameTo, Framed, Header, Payload, Body, Opcode, OpcodeTo, TypeTo
<1> QED BY <1>1 DEF Layout, LayoutTo

LEMMA WireInitInv == WireInit => WireInv
BY StartConsistent DEF WireInit, WireInv

LEMMA SendInv == WireInv /\ Send => WireInv'
<1> SUFFICES ASSUME WireInv, Send PROVE WireInv'
  OBVIOUS
<1>1. PICK name \in DOMAIN Layout : \E m \in Messages(name, Layout[name]) :
        sent' = Append(sent, m) /\ stream' = stream \o Frame(m)
  BY DEF Send
<1>2. PICK m \in Messages(name, Layout[name]) :
        sent' = Append(sent, m) /\ stream' = stream \o Frame(m)
  BY <1>1
<1>3. m \in MessagesTo(receiver)
  BY <1>1, <1>2, FrameIs DEF MessagesTo
<1>4. stream' = Joined(stream, FrameTo(receiver, m))
  BY <1>2, FrameIs DEF Joined
<1>5. Consistent(receiver, sent', stream', buffer, handled)
  <2>1. Consistent(receiver, Append(sent, m), Joined(stream, FrameTo(receiver, m)), buffer, handled)
    BY <1>3, SendConsistent DEF WireInv
  <2> QED BY <1>2, <1>4, <2>1
<1> QED BY <1>5 DEF Send, WireInv

LEMMA ReceiveInv == WireInv /\ Receive => WireInv'
<1> SUFFICES ASSUME WireInv, Receive PROVE WireInv'
  OBVIOUS
<1>1. PICK n \in 1..Len(stream) : /\ buffer' = buffer \o SubSeq(stream, 1, n)
                                  /\ stream' = SubSeq(stream, n + 1, Len(stream))
  BY DEF Receive
<1>2. buffer' = Joined(buffer, SubSeq(stream, 1, n))
  BY <1>1 DEF Joined
<1>3. Consistent(receiver, sent, SubSeq(stream, n + 1, Len(stream)),
                 Joined(buffer, SubSeq(stream, 1, n)), handled)
  BY ReceiveConsistent DEF WireInv
<1>4. Consistent(receiver, sent, stream', buffer', handled)
  BY <1>1, <1>2, <1>3
<1> QED BY <1>4 DEF Receive, WireInv

\* A length in the header is never an impossible one.
LEMMA ParseInv ==
    ASSUME WireInv, CanParse
    PROVE  \E got : /\ ~(PayloadSize > MaxPayload) /\ buffer[2] = TypeTo(receiver)
                    /\ ReadBy(receiver, SubSeq(buffer, HeaderSize + 1, HeaderSize + PayloadSize)) = <<got>>
                    /\ Consistent(receiver, sent, stream,
                                  SubSeq(buffer, HeaderSize + PayloadSize + 1, Len(buffer)),
                                  Extended(handled, got))
<1>1. 8 <= Len(buffer) /\ Len(buffer) \in Nat
  <2>1. buffer \in Seq(Nat)
    BY DEF WireInv, Consistent
  <2>2. Len(buffer) \in Nat
    BY <2>1, LenProperties
  <2> QED BY <2>2 DEF CanParse, HeaderSize
<1>2. PICK n, got : TurnOf(receiver, sent, stream, buffer, handled, n, got)
  BY <1>1, ParseConsistent DEF WireInv
<1>3. /\ n \in Nat /\ n <= 4096 /\ buffer[2] = TypeTo(receiver) /\ PayloadSize = n
  BY <1>2 DEF TurnOf, PayloadSize
<1>4. ~(PayloadSize > MaxPayload)
  <2>1. MaxPayload = 4096 \/ MaxPayload = 8192
    BY DEF MaxPayload
  <2> QED BY <1>3, <2>1
<1>5. 8 + n <= Len(buffer)
  <2>1. Len(buffer) >= 8 + n
    BY <1>3, <1>4 DEF CanParse, HeaderSize
  <2> QED BY <1>1, <1>3, <2>1
<1>6. /\ ReadBy(receiver, SubSeq(buffer, 8 + 1, 8 + n)) = <<got>>
      /\ Consistent(receiver, sent, stream, SubSeq(buffer, 8 + n + 1, Len(buffer)), Extended(handled, got))
  BY <1>2, <1>5 DEF TurnOf
<1>7. HeaderSize = 8
  BY DEF HeaderSize
<1> QED BY <1>3, <1>4, <1>6, <1>7

LEMMA ParseEventInv == WireInv /\ ParseEvent => WireInv'
<1> SUFFICES ASSUME WireInv, ParseEvent PROVE WireInv'
  OBVIOUS
<1>1. receiver = "bridge" /\ CanParse /\ UNCHANGED <<receiver, sent, stream>>
  BY DEF ParseEvent
<1>2. PICK got :
        /\ ~(PayloadSize > MaxPayload) /\ buffer[2] = TypeTo(receiver)
        /\ ReadBy(receiver, SubSeq(buffer, HeaderSize + 1, HeaderSize + PayloadSize)) = <<got>>
        /\ Consistent(receiver, sent, stream,
                      SubSeq(buffer, HeaderSize + PayloadSize + 1, Len(buffer)), Extended(handled, got))
  BY <1>1, ParseInv
<1>3. buffer[2] = 3
  BY <1>1, <1>2 DEF TypeTo
<1>4. ReadEvent(SubSeq(buffer, HeaderSize + 1, HeaderSize + PayloadSize)) = <<got>>
  BY <1>1, <1>2 DEF ReadBy
<1>5. /\ buffer' = SubSeq(buffer, HeaderSize + PayloadSize + 1, Len(buffer))
      /\ handled' = handled \o ReadEvent(SubSeq(buffer, HeaderSize + 1, HeaderSize + PayloadSize))
  BY <1>2, <1>3, Zenon DEF ParseEvent
<1>6. handled' = Extended(handled, got)
  BY <1>4, <1>5 DEF Extended
<1> QED BY <1>1, <1>2, <1>5, <1>6 DEF WireInv

LEMMA ParseCommandInv == WireInv /\ ParseCommand => WireInv'
<1> SUFFICES ASSUME WireInv, ParseCommand PROVE WireInv'
  OBVIOUS
<1>1. receiver = "device" /\ CanParse /\ UNCHANGED <<receiver, sent, stream>>
  BY DEF ParseCommand
<1>2. PICK got :
        /\ ~(PayloadSize > MaxPayload) /\ buffer[2] = TypeTo(receiver)
        /\ ReadBy(receiver, SubSeq(buffer, HeaderSize + 1, HeaderSize + PayloadSize)) = <<got>>
        /\ Consistent(receiver, sent, stream,
                      SubSeq(buffer, HeaderSize + PayloadSize + 1, Len(buffer)), Extended(handled, got))
  BY <1>1, ParseInv
<1>4. ReadCommand(SubSeq(buffer, HeaderSize + 1, HeaderSize + PayloadSize)) = <<got>>
  BY <1>1, <1>2 DEF ReadBy
<1>5. /\ buffer' = SubSeq(buffer, HeaderSize + PayloadSize + 1, Len(buffer))
      /\ handled' = handled \o ReadCommand(SubSeq(buffer, HeaderSize + 1, HeaderSize + PayloadSize))
  BY <1>2, Zenon DEF ParseCommand
<1>6. handled' = Extended(handled, got)
  BY <1>4, <1>5 DEF Extended
<1> QED BY <1>1, <1>2, <1>5, <1>6 DEF WireInv

\* What is on its way is always the frames of the messages not yet handled.
THEOREM WireInvHolds == WireSpec => []WireInv
<1>1. WireInv /\ [WireNext]_wireVars => WireInv'
  <2> SUFFICES ASSUME WireInv, [WireNext]_wireVars PROVE WireInv'
    OBVIOUS
  <2>1. CASE WireNext
    BY <2>1, SendInv, ReceiveInv, ParseEventInv, ParseCommandInv DEF WireNext
  <2>2. CASE UNCHANGED wireVars
    BY <2>2 DEF wireVars, WireInv
  <2> QED BY <2>1, <2>2
<1> QED BY <1>1, WireInitInv, PTL DEF WireSpec

-----------------------------------------------------------------------------
(* What the invariant says.                                                *)

LEMMA FrameEnds ==
    ASSUME WireInv, NEW e, Ends(e, receiver, sent), NEW i \in 0..Len(sent)
    PROVE  FrameEnd(i) = e[i]
<1>1. PICK r, ms, s : r = receiver /\ ms = sent /\ s = SubSeq(ms, 1, i)
  OBVIOUS
<1>2. ms \in Seq(MessagesTo(r)) /\ Len(ms) \in Nat
  <2>1. ms \in Seq(MessagesTo(r))
    BY <1>1 DEF WireInv, Consistent
  <2> QED BY <2>1, LenProperties
<1>3. i \in Nat /\ i \in 0..Len(ms)
  BY <1>1, <1>2
<1>4. s \in Seq(MessagesTo(r)) /\ Len(s) = i /\ \A j \in 1..i : s[j] = ms[j]
  BY <1>1, <1>2, <1>3, PrefixGrows
<1>5. DOMAIN s = 1..Len(s) /\ Len(s) \in Nat
  BY <1>3, <1>4, LenProperties
<1>6. PICK v : /\ v[0] = 0 /\ v[Len(s)] = Bytes(s)
               /\ \A j \in 1..Len(s) : v[j] = v[j - 1] + Len(Frame(s[j]))
  BY <1>5, FramesFold
<1>7. PICK f : f = [j \in 1..i |-> Len(FrameTo(r, ms[j]))]
  OBVIOUS
<1>8. Sums(v, i, f)
  <2>1. ASSUME NEW j \in 1..i PROVE v[j] = v[j - 1] + f[j]
    <3>1. Frame(s[j]) = FrameTo(r, s[j]) /\ s[j] = ms[j]
      BY <1>1, <1>4, FrameIs
    <3>2. v[j] = v[j - 1] + Len(Frame(s[j]))
      BY <1>4, <1>6
    <3> QED BY <1>7, <3>1, <3>2
  <2> QED BY <1>6, <2>1 DEF Sums
<1>9. Sums(e, i, f)
  <2>1. ASSUME NEW j \in 1..i PROVE e[j] = e[j - 1] + f[j]
    <3>1. j \in 1..Len(ms)
      BY <1>2, <1>3
    <3>2. e[j] = e[j - 1] + Len(FrameTo(r, ms[j]))
      BY <1>1, <3>1 DEF Ends
    <3> QED BY <1>7, <3>2
  <2>2. e[0] = 0
    BY DEF Ends
  <2> QED BY <2>1, <2>2 DEF Sums
<1>10. v[i] = e[i]
  BY <1>3, <1>8, <1>9, SumsAgree
<1> QED BY <1>1, <1>4, <1>6, <1>10 DEF FrameEnd

\* whole counts k of n frames when the next one ends after a.
CountedTo(whole, k, n, e, a) ==
    /\ k <= Cardinality(whole)
    /\ (k < n => a < e[k + 1]) => k = Cardinality(whole)

\* How many of the first frames end no later than a.
LEMMA EndsCounted ==
    ASSUME NEW r \in {"bridge", "device"}, NEW ms \in Seq(MessagesTo(r)), NEW e, Ends(e, r, ms),
           NEW k \in 0..Len(ms), NEW a \in Nat, e[k] <= a,
           NEW whole, whole = {i \in 1..Len(ms) : e[i] <= a}
    PROVE  CountedTo(whole, k, Len(ms), e, a)
<1>1. PICK n : n = Len(ms)
  OBVIOUS
<1>2. n \in Nat /\ k \in Nat /\ k <= n
  <2>1. n \in Nat
    BY <1>1, LenProperties
  <2> QED BY <1>1, <2>1
<1>3. \A i \in 0..n : e[i] \in Nat /\ \A j \in 0..i : e[j] <= e[i]
  BY <1>1, EndsGrow
<1>4. 1..k \subseteq whole
  <2> SUFFICES ASSUME NEW i \in 1..k PROVE i \in whole
    OBVIOUS
  <2>1. i \in 1..n /\ k \in 0..n /\ i \in 0..k /\ i \in 0..n
    BY <1>2
  <2>2. e[i] <= e[k] /\ e[i] \in Nat /\ e[k] \in Nat
    BY <1>3, <2>1
  <2>3. e[i] <= a
    BY <2>2
  <2> QED BY <1>1, <2>1, <2>3
<1>5. IsFiniteSet(1..n) /\ Cardinality(1..k) = k
  <2>1. 1 \in Int /\ n \in Int /\ k \in Int
    BY <1>2
  <2>2. IsFiniteSet(1..n) /\ Cardinality(1..k) = IF 1 > k THEN 0 ELSE k - 1 + 1
    BY <2>1, FS_Interval
  <2> QED BY <1>2, <2>2
<1>6. IsFiniteSet(whole)
  <2>1. whole \subseteq 1..n
    BY <1>1
  <2> QED BY <1>5, <2>1, FS_Subset
<1>7. k <= Cardinality(whole)
  <2>1. Cardinality(1..k) <= Cardinality(whole)
    BY <1>4, <1>6, FS_Subset
  <2> QED BY <1>5, <2>1
<1>8. ASSUME k < Len(ms) => a < e[k + 1] PROVE k = Cardinality(whole)
  <2>1. whole \subseteq 1..k
    <3> SUFFICES ASSUME NEW i \in 1..n, e[i] <= a, ~(i \in 1..k) PROVE FALSE
      BY <1>1
    <3>1. k < n /\ k + 1 \in 0..i /\ i \in 0..n /\ k + 1 \in 0..n
      BY <1>2
    <3>2. e[k + 1] <= e[i] /\ e[i] \in Nat /\ e[k + 1] \in Nat
      BY <1>3, <3>1
    <3>3. a < e[k + 1]
      BY <1>1, <1>8, <3>1
    <3> QED BY <3>2, <3>3
  <2>2. whole = 1..k
    BY <1>4, <2>1
  <2> QED BY <1>5, <2>2
<1> QED BY <1>7, <1>8 DEF CountedTo

\* The invariant makes every message understood.
LEMMA InvUnderstood == WireInv => Understood
<1> SUFFICES ASSUME WireInv PROVE Understood
  OBVIOUS
<1>1. PICK r, ms, s, b, hs : r = receiver /\ ms = sent /\ s = stream /\ b = buffer /\ hs = handled
  OBVIOUS
<1>2. Consistent(r, ms, s, b, hs)
  BY <1>1 DEF WireInv
<1>3. /\ r \in {"bridge", "device"} /\ ms \in Seq(MessagesTo(r)) /\ s \in Seq(Nat) /\ b \in Seq(Nat)
      /\ hs \in Seq(Readings) /\ Len(hs) <= Len(ms)
  BY <1>2 DEF Consistent
<1>4. PICK k, n, z, w : k = Len(hs) /\ n = Len(ms) /\ z = Len(b) /\ w = Len(s)
  OBVIOUS
<1>5. k \in Nat /\ n \in Nat /\ z \in Nat /\ w \in Nat /\ k \in 0..n /\ n \in 0..n
  <2>1. k \in Nat /\ n \in Nat /\ z \in Nat /\ w \in Nat
    BY <1>3, <1>4, LenProperties
  <2> QED BY <1>3, <1>4, <2>1
<1>6. PICK e : InFlight(r, ms, k, Joined(b, s), e)
  BY <1>2, <1>4 DEF Consistent
<1>7. Ends(e, r, ms) /\ z + w = e[n] - e[k]
  <2>1. IsJoined(Joined(b, s), b, s, z, w)
    BY <1>3, <1>4, JoinedIs
  <2>2. Len(Joined(b, s)) = z + w
    BY <2>1 DEF IsJoined
  <2>3. Ends(e, r, ms) /\ Len(Joined(b, s)) = e[n] - e[k]
    BY <1>4, <1>6 DEF InFlight
  <2> QED BY <2>2, <2>3
<1>8. /\ \A i \in 0..n : e[i] \in Nat
      /\ \A i \in 1..n : /\ Len(FrameTo(r, ms[i])) \in Nat /\ Len(FrameTo(r, ms[i])) >= 9
                         /\ e[i] = e[i - 1] + Len(FrameTo(r, ms[i]))
  BY <1>3, <1>4, <1>7, EndsGrow
<1>9. PICK a : a = e[n] - w
  OBVIOUS
<1>10. a \in Nat /\ a = e[k] + z /\ e[k] <= a /\ e[k] \in Nat
  <2>1. PICK x, y : x = e[n] /\ y = e[k]
    OBVIOUS
  <2>2. x \in Nat /\ y \in Nat /\ z + w = x - y /\ a = x - w
    BY <1>5, <1>7, <1>8, <1>9, <2>1
  <2>3. a \in Nat /\ a = y + z /\ y <= a
    BY <1>5, <2>2
  <2> QED BY <2>1, <2>2, <2>3
<1>11. \A i \in 0..n : FrameEnd(i) = e[i]
  BY <1>1, <1>4, <1>7, FrameEnds
<1>12. PICK whole : whole = {i \in 1..n : e[i] <= a}
  OBVIOUS
<1>13. k <= Cardinality(whole) /\ ((k < n => a < e[k + 1]) => k = Cardinality(whole))
  <2>1. /\ k \in 0..Len(ms) /\ a \in Nat /\ e[k] <= a
        /\ whole = {i \in 1..Len(ms) : e[i] <= a}
    BY <1>4, <1>5, <1>10, <1>12
  <2>2. CountedTo(whole, k, Len(ms), e, a)
    BY <1>3, <1>7, <2>1, EndsCounted
  <2> QED BY <1>4, <2>2 DEF CountedTo
<1>14. ASSUME ~CanParse, k < n PROVE a < e[k + 1]
  <2>1. CASE ~(8 <= z)
    <3>1. k + 1 \in 1..n /\ (k + 1) - 1 = k
      BY <1>5, <1>14
    <3>2. PICK l, c, d : l = Len(FrameTo(r, ms[k + 1])) /\ c = e[k] /\ d = e[k + 1]
      OBVIOUS
    <3>3. l \in Nat /\ l >= 9 /\ d = c + l /\ c \in Nat /\ a = c + z
      BY <1>8, <1>10, <3>1, <3>2
    <3>4. a < d
      BY <1>5, <2>1, <3>3
    <3> QED BY <3>2, <3>4
  <2>2. CASE 8 <= z
    <3>1. PICK m, got : Turned(r, ms, k, b, s, e, m, got)
      <4>1. k \in 0..Len(ms) /\ 8 <= Len(b)
        BY <1>4, <1>5, <2>2
      <4> QED BY <1>3, <1>6, <4>1, Turn
    <3>2. m \in Nat /\ m <= 4096 /\ e[k + 1] = e[k] + (8 + m) /\ b[3] + 256 * b[4] = m
      BY <3>1 DEF Turned
    <3>3. PayloadSize = m
      BY <1>1, <3>2 DEF PayloadSize
    <3>4. ~(z >= 8 + m)
      BY <1>1, <1>4, <1>5, <1>14, <2>2, <3>3 DEF CanParse, HeaderSize
    <3>5. PICK c, d : c = e[k] /\ d = e[k + 1]
      OBVIOUS
    <3>6. c \in Nat /\ d = c + (8 + m) /\ a = c + z
      BY <1>10, <3>2, <3>5
    <3>7. a < d
      BY <1>5, <3>2, <3>4, <3>6
    <3> QED BY <3>5, <3>7
  <2> QED BY <1>5, <2>1, <2>2
<1>15. \A i \in 1..k : Means(hs[i], ms[i])
  BY <1>2, <1>4 DEF Consistent, Reads
<1>16. FrameEnd(n) - Len(stream) = a
  BY <1>1, <1>4, <1>5, <1>9, <1>11
<1>17. {i \in 1..n : FrameEnd(i) <= a} = whole
  <2>1. \A i \in 1..n : i \in 0..n
    BY <1>5
  <2> QED BY <1>11, <1>12, <2>1
<1>18. k <= Cardinality(whole) /\ (~CanParse => k = Cardinality(whole))
  BY <1>13, <1>14
<1>19. Len(sent) = n /\ Len(handled) = k /\ \A i \in 1..k : Means(handled[i], sent[i])
  BY <1>1, <1>4, <1>15
<1> QED BY <1>16, <1>17, <1>18, <1>19 DEF Understood

\* However the stream is cut into pieces, the receiver reads exactly the
\* messages that have arrived, and reads in them what the sender wrote
\* (Understood of Wire).
THEOREM UnderstoodHolds == WireSpec => []Understood
<1>1. WireInv => Understood
  BY InvUnderstood
<1> QED BY <1>1, WireInvHolds, PTL

MergedRight(edges, us) ==
    LET merged == ApplyResolution(edges, us)
    IN  /\ \A k \in 1..Len(merged) : merged[k].us >= us
        /\ us > 1 => \A k \in 2..Len(merged) : merged[k].level # merged[k - 1].level
        /\ IF \A k \in 1..Len(edges) : edges[k].us < us
           THEN merged = <<>> ELSE TotalTime(merged) = TotalTime(edges)

LEMMA ResolvedRight ==
    ASSUME NEW edges \in Seq(Captured), NEW us \in Nat, us >= 1
    PROVE  MergedRight(edges, us)
<1>1. edges \in Seq(Pulse) /\ Len(edges) \in Nat
  <2>1. Captured \subseteq Pulse
    BY DEF Captured
  <2> QED BY <2>1, LenProperties
<1>2. \A k \in 1..Len(edges) : edges[k].us >= 1
  <2>1. \A k \in 1..Len(edges) : edges[k] \in Captured
    BY ElementOfSeq
  <2> QED BY <2>1 DEF Captured
<1> QED BY <1>1, <1>2, Resolved DEF MergedRight

LEMMA ResolutionIs ==
    ASSUME NEW name, NEW us \in Int
    PROVE  ResolveResolution(name, us) \in Nat /\ ResolveResolution(name, us) >= 1
<1>1. CASE name \in DOMAIN RESOLUTION_PRESETS
  <2>1. name \in {"exact", "fine", "normal", "coarse"}
    BY <1>1 DEF RESOLUTION_PRESETS
  <2>2. RESOLUTION_PRESETS[name] \in {1, 5, 20, 100}
    BY <2>1 DEF RESOLUTION_PRESETS
  <2>3. ResolveResolution(name, us) = RESOLUTION_PRESETS[name]
    BY <1>1 DEF ResolveResolution
  <2> QED BY <2>2, <2>3
<1>2. CASE name \notin DOMAIN RESOLUTION_PRESETS
  <2>1. ResolveResolution(name, us) = IF us > 1 THEN us ELSE 1
    BY <1>2 DEF ResolveResolution
  <2> QED BY <2>1
<1> QED BY <1>1, <1>2

LEMMA InvGlitchFree == WireInv => GlitchFree
<1> SUFFICES ASSUME WireInv, NEW i \in 1..Len(handled), handled[i].name = "GPIO_SIGNAL_CAPTURED",
                    NEW name \in Presets, NEW number \in Resolutions
             PROVE  MergedRight(PulsesOf(handled[i].items), ResolveResolution(name, number))
  BY DEF GlitchFree, MergedRight
<1>1. PulsesOf(handled[i].items) \in Seq(Captured)
  BY DEF WireInv, Consistent, Reads
<1>2. ResolveResolution(name, number) \in Nat /\ ResolveResolution(name, number) >= 1
  <2>1. number \in Int
    BY WireAssumption
  <2> QED BY <2>1, ResolutionIs
<1> QED BY <1>1, <1>2, ResolvedRight

\* Whatever was captured, however long, and whatever resolution is asked for,
\* no pulse is left that is narrower, no neighbours of one level, and no time
\* is lost (GlitchFree of Wire).
THEOREM GlitchFreeHolds == WireSpec => []GlitchFree
<1>1. WireInv => GlitchFree
  BY InvGlitchFree
<1> QED BY <1>1, WireInvHolds, PTL
=============================================================================
