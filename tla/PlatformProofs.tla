---------------------------- MODULE PlatformProofs ----------------------------
(* What Platform guarantees for any number of clients, requests and faults. *)
EXTENDS Platform, SequenceTheorems, TLAPS

-----------------------------------------------------------------------------
(* Messages and broadcasts.                                                *)

Owner == Requests \union {"monitor", Nobody}

LEMMA Messages ==
    ASSUME PlatformAssumption
    PROVE  /\ \A v \in Level \union {None} : Told(v) \in OfPin /\ Told(v).about = "level"
           /\ \A b \in BOOLEAN : /\ Linked(b) \in Msg /\ Linked(b).about = "link"
                                 /\ Linked(b).value = (IF b THEN 1 ELSE 0)
           /\ OfPin \subseteq Msg
           /\ \A m \in OfPin : Start(m) \in Handed
           /\ \A r \in Requests : Wake(r) \in Handed
BY DEF Told, Linked, OfPin, Msg, Start, Wake, Handed, Level

\* A broadcast reaches the end of the outbox of every registered client.
LEMMA BroadcastingAppends ==
    ASSUME outbox \in [Clients -> Seq(Entry)], NEW msg \in Msg, NEW o \in Owner
    PROVE  /\ Broadcasting(msg, o) \in [Clients -> Seq(Entry)]
           /\ \A c \in Clients : Broadcasting(msg, o)[c] =
                 IF c \in clients THEN Append(outbox[c], [msg |-> msg, owner |-> o])
                 ELSE outbox[c]
<1>1. [msg |-> msg, owner |-> o] \in Entry
  BY DEF Entry, Owner
<1>2. \A c \in Clients : Append(outbox[c], [msg |-> msg, owner |-> o]) \in Seq(Entry)
  BY <1>1, AppendProperties
<1> QED BY <1>2 DEF Broadcasting

-----------------------------------------------------------------------------
(* Types.                                                                  *)

LEMMA CommandsTyped ==
    ASSUME TypeOK, NEW r \in Requests
    PROVE  /\ \A o \in {"set", "get", "status"} :
                Append(cmds, [op |-> o, call |-> r]) \in Seq(Cmd)
           /\ Append(cmds, [op |-> "sync", call |-> Nobody]) \in Seq(Cmd)
<1>1. \A o \in {"set", "get", "status"} : [op |-> o, call |-> r] \in Cmd
  BY DEF Cmd
<1>2. [op |-> "sync", call |-> Nobody] \in Cmd
  BY DEF Cmd
<1> QED BY <1>1, <1>2, AppendProperties DEF TypeOK

LEMMA OneEvent == \A e \in Evt : <<e>> \in Seq(Evt)
OBVIOUS

LEMMA TypeStep == TypeOK /\ [Next]_vars => TypeOK'
<1> SUFFICES ASSUME TypeOK, [Next]_vars PROVE TypeOK'
  OBVIOUS
<1> USE PlatformAssumption
    DEF vars, deviceVars, handlerVars, clientVars, socketVars
<1>1. ASSUME LinkUp \/ LinkDown PROVE TypeOK'
  <2>1. faults' \in 0..MaxFaults
    BY <1>1 DEF LinkUp, LinkDown, TypeOK
  <2>2. link' \in BOOLEAN /\ gap' \in BOOLEAN
    BY <1>1, Zenon DEF LinkUp, LinkDown, TypeOK
  <2>3. cmds' \in Seq(Cmd) /\ events' \in Seq(Evt)
    <3>1. cmds' \in {cmds, <<>>} /\ events' \in {events, <<>>}
      BY <1>1 DEF LinkUp, LinkDown
    <3>2. <<>> \in Seq(Cmd) /\ <<>> \in Seq(Evt)
      BY EmptySeq
    <3> QED BY <3>1, <3>2 DEF TypeOK
  <2> QED BY <1>1, <2>1, <2>2, <2>3 DEF LinkUp, LinkDown, TypeOK
<1>2. ASSUME DeviceStep PROVE TypeOK'
  <2>1. Head(cmds) \in Cmd /\ Tail(cmds) \in Seq(Cmd)
    BY <1>2, HeadTailProperties DEF DeviceStep, TypeOK
  <2> DEFINE o == Head(cmds).op
             x == Head(cmds).call
  <2>2. pin' \in Level
    BY <1>2, <2>1 DEF DeviceStep, TypeOK, Cmd
  <2>3. gap' \in BOOLEAN
    BY <1>2, Zenon DEF DeviceStep, TypeOK
  <2>4. PICK e \in Evt : events' = events \o <<e>>
    <3>1. CASE o = "set"
      <4>1. Event("ack", x, 0) \in Evt
        BY <2>1, <3>1 DEF Event, Evt, Cmd, Level
      <4> QED BY <1>2, <3>1, <4>1 DEF DeviceStep
    <3>2. CASE o = "get"
      <4>1. Event("value", x, pin) \in Evt
        BY <2>1, <3>2 DEF Event, Evt, Cmd, TypeOK
      <4> QED BY <1>2, <3>2, <4>1 DEF DeviceStep
    <3>3. CASE o = "status"
      <4>1. Event("status", x, pin) \in Evt
        BY <2>1, <3>3 DEF Event, Evt, Cmd, TypeOK
      <4> QED BY <1>2, <3>3, <4>1 DEF DeviceStep
    <3>4. CASE o = "sync"
      <4>1. Event("snapshot", Nobody, pin) \in Evt
        BY DEF Event, Evt, TypeOK
      <4> QED BY <1>2, <3>4, <4>1 DEF DeviceStep
    <3> QED BY <2>1, <3>1, <3>2, <3>3, <3>4 DEF Cmd
  <2>5. events' \in Seq(Evt)
    BY <2>4, ConcatProperties, OneEvent DEF TypeOK
  <2> QED BY <1>2, <2>1, <2>2, <2>3, <2>5 DEF DeviceStep, TypeOK
<1>3. ASSUME Heartbeat \/ Silence PROVE TypeOK'
  <2>1. faults' \in 0..MaxFaults
    BY <1>3 DEF Heartbeat, Silence, TypeOK
  <2>2. silent' \in BOOLEAN
    BY <1>3, Zenon DEF Heartbeat, Silence, TypeOK
  <2> QED BY <1>3, <2>1, <2>2 DEF Heartbeat, Silence, TypeOK
<1>4. ASSUME FileEvent PROVE TypeOK'
  <2>1. Head(events) \in Evt /\ Tail(events) \in Seq(Evt)
    BY <1>4, HeadTailProperties DEF FileEvent, TypeOK
  <2>2. answer' \in [Requests -> Level \union {None}]
    BY <1>4, <2>1 DEF FileEvent, TypeOK, Evt
  <2>3. filed' \in Level \union {None}
    BY <1>4, <2>1 DEF FileEvent, TypeOK, Evt
  <2>4. handling' \in Seq(Evt)
    BY <1>4, <2>1, EmptySeq, OneEvent DEF FileEvent
  <2> QED BY <1>4, <2>1, <2>2, <2>3, <2>4 DEF FileEvent, TypeOK
<1>5. ASSUME OnBridgeEvent PROVE TypeOK'
  <2>1. handling[1] \in Evt
    BY <1>5 DEF OnBridgeEvent, TypeOK
  <2>2. handling[1].level \in Level
    BY <2>1 DEF Evt
  <2>3. Append(ready, Start(Told(handling[1].level))) \in Seq(Handed)
    BY <2>2, Messages, AppendProperties DEF TypeOK
  <2> QED BY <1>5, <2>2, <2>3, EmptySeq DEF OnBridgeEvent, TypeOK
<1>6. ASSUME SyncSends PROVE TypeOK'
  <2>1. Append(cmds, [op |-> "sync", call |-> Nobody]) \in Seq(Cmd)
    <3>1. [op |-> "sync", call |-> Nobody] \in Cmd
      BY DEF Cmd
    <3> QED BY <3>1, AppendProperties DEF TypeOK
  <2> QED BY <1>6, <2>1 DEF SyncSends, TypeOK
<1>7. ASSUME NEW r \in Requests, ThreadAnswered(r) \/ ThreadGivesUp(r) PROVE TypeOK'
  <2>1. ready' \in Seq(Handed)
    <3>1. ready' = Append(ready, Wake(r))
      BY <1>7 DEF ThreadAnswered, ThreadGivesUp, Returned
    <3>2. Wake(r) \in Handed /\ ready \in Seq(Handed)
      BY Messages DEF TypeOK
    <3> QED BY <3>1, <3>2, AppendProperties
  <2>2. /\ pc' \in [Requests -> CallState]
        /\ \A q \in Requests : pc'[q] = "status" <=> blocked = q
    BY <1>7 DEF ThreadAnswered, ThreadGivesUp, Returned, TypeOK, CallState
  <2>3. faults' \in 0..MaxFaults
    BY <1>7 DEF ThreadAnswered, ThreadGivesUp, TypeOK
  <2>4. gap' \in BOOLEAN
    BY <1>7, Zenon DEF ThreadAnswered, ThreadGivesUp, TypeOK
  <2> QED BY <1>7, <2>1, <2>2, <2>3, <2>4 DEF ThreadAnswered, ThreadGivesUp, TypeOK
<1>8. ASSUME StartBroadcast PROVE TypeOK'
  <2>1. Head(ready) \in Handed /\ Tail(ready) \in Seq(Handed)
    BY <1>8, HeadTailProperties DEF StartBroadcast, TypeOK
  <2>2. outbox' \in [Clients -> Seq(Entry)]
    BY <1>8, <2>1, Messages, BroadcastingAppends DEF StartBroadcast, TypeOK, Handed, Owner
  <2> QED BY <1>8, <2>1, <2>2 DEF StartBroadcast, TypeOK
<1>9. ASSUME NEW c \in Clients, SendTo(c) PROVE TypeOK'
  <2>1. Head(outbox[c]) \in Entry /\ Tail(outbox[c]) \in Seq(Entry)
    BY <1>9, HeadTailProperties DEF SendTo, TypeOK
  <2>2. Head(outbox[c]).msg \in Msg
    BY <2>1 DEF Entry
  <2> DEFINE m == Head(outbox[c]).msg
  <2>3. /\ m.about = "link" => m.value \in {0, 1}
        /\ m.about = "level" => m.value \in Level \union {None}
    BY <2>2 DEF Msg, OfPin
  <2>4. toldLink' \in [Clients -> {0, 1, None}]
    BY <1>9, <2>3 DEF SendTo, TypeOK
  <2>5. heard' \in [Clients -> BOOLEAN]
    BY <1>9 DEF SendTo, TypeOK
  <2>6. toldLevel' \in [Clients -> Level \union {None}]
    BY <1>9, <2>3 DEF SendTo, TypeOK
  <2>7. outbox' \in [Clients -> Seq(Entry)]
    BY <1>9, <2>1 DEF SendTo, TypeOK
  <2>8. clients' \subseteq Clients
    BY <1>9 DEF SendTo, TypeOK
  <2> QED BY <1>9, <2>4, <2>5, <2>6, <2>7, <2>8 DEF SendTo, TypeOK
<1>10. ASSUME Poll PROVE TypeOK'
  <2>1. was' \in BOOLEAN
    BY <1>10 DEF Poll, TypeOK
  <2>2. outbox' \in [Clients -> Seq(Entry)]
    <3>1. outbox' = Broadcasting(Linked(was'), "monitor")
      BY <1>10 DEF Poll
    <3> QED BY <2>1, <3>1, Messages, BroadcastingAppends DEF TypeOK, Owner
  <2> QED BY <1>10, <2>1, <2>2 DEF Poll, TypeOK
<1>11. ASSUME MonitorTold PROVE TypeOK'
  BY <1>11 DEF MonitorTold, Spawned, TypeOK
<1>12. ASSUME NEW c \in Clients, HelloConnect(c) PROVE TypeOK'
  <2>1. toldLink' \in [Clients -> {0, 1, None}]
    BY <1>12 DEF HelloConnect, Linked, TypeOK
  <2> QED BY <1>12, <2>1 DEF HelloConnect, TypeOK
<1>13. ASSUME NEW c \in Clients, HelloState(c) PROVE TypeOK'
  <2>1. syncs' \in 0..MaxSyncs
    BY <1>13 DEF HelloState, Spawned, TypeOK
  <2>2. hello' \in [Clients -> {"away", "database", "serving", "gone"}]
    <3>1. hello' \in {[hello EXCEPT ![c] = "serving"], [hello EXCEPT ![c] = "gone"]}
      BY <1>13, Zenon DEF HelloState
    <3> QED BY <3>1 DEF TypeOK
  <2>3. toldLevel' \in [Clients -> Level \union {None}]
    <3>1. toldLevel' \in {toldLevel, [toldLevel EXCEPT ![c] = cache]}
      BY <1>13, Zenon DEF HelloState
    <3> QED BY <3>1 DEF TypeOK
  <2> QED BY <1>13, <2>1, <2>2, <2>3 DEF HelloState, TypeOK
<1>14. ASSUME NEW c \in Clients, Leave(c) \/ EndpointEnds(c) PROVE TypeOK'
  <2>1. open' \in [Clients -> BOOLEAN] /\ heard' \in [Clients -> BOOLEAN]
    <3>1. open' \in {open, [open EXCEPT ![c] = FALSE]}
      BY <1>14 DEF Leave, EndpointEnds
    <3>2. heard' \in {heard, [heard EXCEPT ![c] = FALSE]}
      BY <1>14 DEF Leave, EndpointEnds
    <3> QED BY <3>1, <3>2 DEF TypeOK
  <2>2. /\ toldLink' \in [Clients -> {0, 1, None}]
        /\ toldLevel' \in [Clients -> Level \union {None}]
    BY <1>14 DEF Leave, EndpointEnds, TypeOK
  <2>3. /\ hello' \in [Clients -> {"away", "database", "serving", "gone"}]
        /\ clients' \subseteq Clients
    BY <1>14 DEF Leave, EndpointEnds, TypeOK
  <2> QED BY <1>14, <2>1, <2>2, <2>3 DEF Leave, EndpointEnds, TypeOK
<1>15. ASSUME NEW r \in Requests, NEW k \in {"set", "get", "wsset", "wsget"},
              pc[r] = "idle", CallBridge(r, k)
       PROVE  TypeOK'
  <2>1. cmds' \in Seq(Cmd)
    BY <1>15, CommandsTyped DEF CallBridge, Op
  <2>2. kind' \in [Requests -> Kinds]
    BY <1>15 DEF CallBridge, TypeOK, Kinds
  <2>3. /\ pc' \in [Requests -> CallState]
        /\ \A q \in Requests : pc'[q] = "status" <=> blocked = q
    BY <1>15 DEF CallBridge, TypeOK, CallState
  <2> QED BY <1>15, <2>1, <2>2, <2>3 DEF CallBridge, TypeOK
<1>16. ASSUME NEW r \in Requests, WsCommand(r) \/ RestRequest(r) PROVE TypeOK'
  <2>1. Menu[r] \subseteq {"set", "get", "wsset", "wsget"}
    BY DEF PlatformAssumption
  <2>2. PICK k \in Menu[r] : pc[r] = "idle" /\ CallBridge(r, k)
    BY <1>16 DEF WsCommand, RestRequest
  <2> QED BY <1>15, <2>1, <2>2
<1>17. ASSUME NEW r \in Requests, Resume(r) PROVE TypeOK'
  <2>1. Tail(ready) \in Seq(Handed)
    BY <1>17, HeadTailProperties DEF Resume, TypeOK
  <2>2. answer' \in [Requests -> Level \union {None}]
    BY <1>17 DEF Resume, TypeOK
  <2>3. /\ pc' \in [Requests -> CallState]
        /\ \A q \in Requests : pc'[q] = "status" <=> blocked = q
    BY <1>17 DEF Resume, LoopFree, TypeOK, CallState
  <2>4. outbox' \in [Clients -> Seq(Entry)]
    <3>1. CASE pc[r] = "failed" \/ OverWs(r)
      BY <1>17, <3>1 DEF Resume, TypeOK
    <3>2. CASE ~(pc[r] = "failed" \/ OverWs(r))
      <4> DEFINE v == IF kind[r] = "set" THEN Target[r] ELSE answer[r]
      <4>1. v \in Level \union {None}
        BY DEF PlatformAssumption, TypeOK
      <4>2. outbox' = Broadcasting(Told(v), r)
        BY <1>17, <3>2 DEF Resume
      <4> QED BY <4>1, <4>2, Messages, BroadcastingAppends DEF TypeOK, Owner
    <3> QED BY <3>1, <3>2
  <2>5. gap' \in BOOLEAN
    BY <1>17 DEF Resume, TypeOK
  <2> QED BY <1>17, <2>1, <2>2, <2>3, <2>4, <2>5 DEF Resume, TypeOK
<1>18. \A r \in Requests : Told(None) \in Msg /\ r \in Owner /\ (filed # None => Told(filed) \in Msg)
  BY Messages DEF Owner, TypeOK
<1>19. ASSUME NEW r \in Requests, AskStatus(r) PROVE TypeOK'
  <2>1. cmds' \in Seq(Cmd)
    <3>1. cmds' \in {cmds, Append(cmds, [op |-> "status", call |-> r])}
      BY <1>19 DEF AskStatus
    <3>2. cmds \in Seq(Cmd)
      BY DEF TypeOK
    <3> QED BY <3>1, <3>2, CommandsTyped
  <2>2. outbox' \in [Clients -> Seq(Entry)]
    <3>1. outbox' \in {outbox, Broadcasting(Told(None), r)}
      BY <1>19 DEF AskStatus
    <3>2. outbox \in [Clients -> Seq(Entry)]
      BY DEF TypeOK
    <3>3. Broadcasting(Told(None), r) \in [Clients -> Seq(Entry)]
      BY <1>18, <3>2, BroadcastingAppends
    <3> QED BY <3>1, <3>2, <3>3
  <2>3. /\ pc' \in [Requests -> CallState] /\ blocked' \in Requests \union {Nobody}
        /\ \A q \in Requests : pc'[q] = "status" <=> blocked' = q
    <3>1. CASE link
      <4>1. blocked' = r /\ pc' = [pc EXCEPT ![r] = "status"] /\ blocked = Nobody
        BY <1>19, <3>1 DEF AskStatus, LoopFree
      <4> QED BY <4>1 DEF TypeOK, CallState
    <3>2. CASE ~link
      <4>1. blocked' = blocked /\ pc' = [pc EXCEPT ![r] = "done"] /\ blocked = Nobody
        BY <1>19, <3>2 DEF AskStatus, LoopFree
      <4> QED BY <4>1 DEF TypeOK, CallState
    <3> QED BY <3>1, <3>2
  <2> QED BY <1>19, <2>1, <2>2, <2>3 DEF AskStatus, TypeOK
<1>20. ASSUME NEW r \in Requests, StatusAnswered(r) \/ StatusMissing(r) PROVE TypeOK'
  <2>1. outbox' \in [Clients -> Seq(Entry)]
    <3>1. \E v \in Level \union {None} : outbox' = Broadcasting(Told(v), r)
      BY <1>20 DEF StatusAnswered, StatusMissing, TypeOK
    <3>2. outbox \in [Clients -> Seq(Entry)]
      BY DEF TypeOK
    <3>3. PICK v \in Level \union {None} : outbox' = Broadcasting(Told(v), r)
      BY <3>1
    <3>4. Told(v) \in Msg /\ r \in Owner
      BY Messages DEF Owner
    <3> QED BY <3>2, <3>3, <3>4, BroadcastingAppends
  <2>2. /\ pc' \in [Requests -> CallState] /\ blocked' \in Requests \union {Nobody}
        /\ \A q \in Requests : pc'[q] = "status" <=> blocked' = q
    BY <1>20 DEF StatusAnswered, StatusMissing, TypeOK, CallState
  <2>3. faults' \in 0..MaxFaults
    BY <1>20 DEF StatusAnswered, StatusMissing, TypeOK
  <2>4. gap' \in BOOLEAN
    BY <1>20, Zenon DEF StatusAnswered, StatusMissing, TypeOK
  <2> QED BY <1>20, <2>1, <2>2, <2>3, <2>4 DEF StatusAnswered, StatusMissing, TypeOK
<1>21. ASSUME UNCHANGED vars PROVE TypeOK'
  BY <1>21 DEF TypeOK
<1> QED
  BY <1>1, <1>2, <1>3, <1>4, <1>5, <1>6, <1>7, <1>8, <1>9, <1>10, <1>11, <1>12, <1>13,
     <1>14, <1>16, <1>17, <1>19, <1>20, <1>21
     DEF Next, Device, Handler, Thread, Endpoint, Request, Rest

LEMMA InitTyped == Init => TypeOK
<1> SUFFICES ASSUME Init PROVE TypeOK
  OBVIOUS
<1>1. cmds \in Seq(Cmd) /\ events \in Seq(Evt) /\ handling \in Seq(Evt) /\ ready \in Seq(Handed)
  BY EmptySeq DEF Init
<1>2. outbox \in [Clients -> Seq(Entry)]
  BY EmptySeq DEF Init
<1>3. faults \in 0..MaxFaults /\ syncs \in 0..MaxSyncs
  BY PlatformAssumption DEF Init
<1>4. link \in BOOLEAN /\ silent \in BOOLEAN /\ was \in BOOLEAN /\ gap \in BOOLEAN
  BY Zenon DEF Init
<1>5. open \in [Clients -> BOOLEAN] /\ heard \in [Clients -> BOOLEAN]
  BY Zenon DEF Init
<1>6. /\ pc \in [Requests -> CallState] /\ kind \in [Requests -> Kinds]
      /\ \A r \in Requests : pc[r] = "status" <=> blocked = r
      /\ blocked \in Requests \union {Nobody}
  BY PlatformAssumption DEF Init, CallState, Kinds
<1> QED BY <1>1, <1>2, <1>3, <1>4, <1>5, <1>6 DEF Init, TypeOK, Level

(* Every variable keeps its type, and the loop is blocked exactly while a  *)
(* handler waits for a status.                                             *)
THEOREM TypeCorrect == Spec => []TypeOK
BY InitTyped, TypeStep, PTL DEF Spec

-----------------------------------------------------------------------------
(* What a client is told of the link.  HeardTheMonitor is not inductive: it *)
(* needs that the last link message on its way to a client is the          *)
(* monitor's last word, and that an open socket is a registered one.       *)

On(e, a)      == e.msg.about = a
Nothing(s, a) == \A i \in 1..Len(s) : ~On(s[i], a)

\* The last message about a in s, if any, says v.
LastIs(s, a, v) ==
    \A i \in 1..Len(s) :
        On(s[i], a) /\ (\A j \in (i + 1)..Len(s) : ~On(s[j], a)) => s[i].msg.value = v

LEMMA AppendOther ==
    ASSUME NEW a, NEW s \in Seq(Entry), NEW e \in Entry, ~On(e, a)
    PROVE  /\ Nothing(s, a) <=> Nothing(Append(s, e), a)
           /\ \A v : LastIs(s, a, v) => LastIs(Append(s, e), a, v)
<1> DEFINE t == Append(s, e)
<1>1. /\ Len(s) \in Nat /\ Len(t) = Len(s) + 1
      /\ \A i \in 1..Len(s) : t[i] = s[i]
      /\ t[Len(s) + 1] = e
  BY AppendProperties
<1> HIDE DEF t
<1>2. Nothing(s, a) <=> Nothing(t, a)
  BY <1>1 DEF Nothing
<1>3. ASSUME NEW v, LastIs(s, a, v) PROVE LastIs(t, a, v)
  <2> SUFFICES ASSUME NEW i \in 1..Len(t), On(t[i], a),
                      \A j \in (i + 1)..Len(t) : ~On(t[j], a)
               PROVE  t[i].msg.value = v
    BY DEF LastIs
  <2>1. i \in 1..Len(s) /\ t[i] = s[i]
    BY <1>1
  <2>2. \A j \in (i + 1)..Len(s) : ~On(s[j], a)
    BY <1>1
  <2> QED BY <1>3, <2>1, <2>2 DEF LastIs
<1> QED BY <1>2, <1>3 DEF t

LEMMA AppendSame ==
    ASSUME NEW a, NEW s \in Seq(Entry), NEW e \in Entry, On(e, a)
    PROVE  ~Nothing(Append(s, e), a) /\ LastIs(Append(s, e), a, e.msg.value)
<1> DEFINE t == Append(s, e)
<1>1. /\ Len(s) \in Nat /\ Len(t) = Len(s) + 1
      /\ t[Len(s) + 1] = e
  BY AppendProperties
<1> HIDE DEF t
<1>2. ~Nothing(t, a)
  BY <1>1 DEF Nothing
<1>3. LastIs(t, a, e.msg.value)
  <2> SUFFICES ASSUME NEW i \in 1..Len(t), \A j \in (i + 1)..Len(t) : ~On(t[j], a)
               PROVE  t[i].msg.value = e.msg.value
    BY DEF LastIs
  <2>1. i = Len(s) + 1
    BY <1>1
  <2> QED BY <1>1, <2>1
<1> QED BY <1>2, <1>3 DEF t

LEMMA TailLast ==
    ASSUME NEW a, NEW s \in Seq(Entry), s # <<>>
    PROVE  /\ \A v : LastIs(s, a, v) => LastIs(Tail(s), a, v)
           /\ ~On(Head(s), a) /\ Nothing(Tail(s), a) => Nothing(s, a)
           /\ \A v : On(Head(s), a) /\ Nothing(Tail(s), a) /\ LastIs(s, a, v)
                      => Head(s).msg.value = v
<1> DEFINE t == Tail(s)
<1>1. /\ Len(s) \in Nat \ {0} /\ Len(t) = Len(s) - 1
      /\ \A i \in 1..Len(t) : t[i] = s[i + 1]
      /\ Head(s) = s[1]
  BY HeadTailProperties, EmptySeq
<1> HIDE DEF t
<1>2. ASSUME NEW v, LastIs(s, a, v) PROVE LastIs(t, a, v)
  <2> SUFFICES ASSUME NEW i \in 1..Len(t), On(t[i], a),
                      \A j \in (i + 1)..Len(t) : ~On(t[j], a)
               PROVE  t[i].msg.value = v
    BY DEF LastIs
  <2>1. i + 1 \in 1..Len(s) /\ t[i] = s[i + 1]
    BY <1>1
  <2>2. ASSUME NEW j \in (i + 2)..Len(s) PROVE ~On(s[j], a)
    <3>1. j - 1 \in (i + 1)..Len(t) /\ (j - 1) + 1 = j
      BY <1>1
    <3>2. t[j - 1] = s[(j - 1) + 1]
      BY <1>1, <3>1
    <3> QED BY <3>1, <3>2
  <2>3. (i + 1) + 1 = i + 2
    OBVIOUS
  <2> QED BY <1>2, <2>1, <2>2, <2>3 DEF LastIs
<1>3. ASSUME Nothing(t, a) PROVE \A j \in 2..Len(s) : ~On(s[j], a)
  <2> SUFFICES ASSUME NEW j \in 2..Len(s) PROVE ~On(s[j], a)
    OBVIOUS
  <2>1. j - 1 \in 1..Len(t) /\ (j - 1) + 1 = j
    BY <1>1
  <2>2. t[j - 1] = s[(j - 1) + 1]
    BY <1>1, <2>1
  <2> QED BY <1>3, <2>1, <2>2 DEF Nothing
<1>4. ASSUME ~On(Head(s), a), Nothing(t, a) PROVE Nothing(s, a)
  BY <1>1, <1>3, <1>4 DEF Nothing
<1>5. ASSUME NEW v, On(Head(s), a), Nothing(t, a), LastIs(s, a, v) PROVE Head(s).msg.value = v
  <2>1. \A j \in (1 + 1)..Len(s) : ~On(s[j], a)
    BY <1>3, <1>5
  <2>2. 1 \in 1..Len(s)
    BY <1>1
  <2> QED BY <1>1, <1>5, <2>1, <2>2 DEF LastIs
<1> QED BY <1>2, <1>4, <1>5 DEF t

\* What the monitor believes, as clients are told.
Believed == IF was THEN 1 ELSE 0

Informed(c) ==
    /\ hello[c] = "away" => ~open[c] /\ ~heard[c] /\ c \notin clients /\ outbox[c] = <<>>
    /\ open[c] => c \in clients /\ LastIs(outbox[c], "link", Believed)
    /\ open[c] /\ heard[c] /\ Nothing(outbox[c], "link") => toldLink[c] = Believed

MonitorInv == TypeOK /\ \A c \in Clients : Informed(c)

\* A broadcast about the pin changes nothing of it, one about the link of
\* everything that is open.
LEMMA PinBroadcast ==
    ASSUME MonitorInv, NEW m \in OfPin, NEW o \in Owner,
           outbox' \in {outbox, Broadcasting(m, o)},
           UNCHANGED <<socketVars, toldLink, heard, was>>
    PROVE  \A c \in Clients : Informed(c)'
<1> SUFFICES ASSUME NEW c \in Clients PROVE Informed(c)'
  OBVIOUS
<1>1. Informed(c) /\ outbox[c] \in Seq(Entry) /\ outbox \in [Clients -> Seq(Entry)]
  BY DEF MonitorInv, TypeOK
<1> DEFINE e == [msg |-> m, owner |-> o]
<1>2. e \in Entry /\ m \in Msg /\ ~On(e, "link")
  BY DEF Entry, Msg, OfPin, On, Owner
<1>3. outbox'[c] = outbox[c] \/ (c \in clients /\ outbox'[c] = Append(outbox[c], e))
  BY <1>1, <1>2, BroadcastingAppends
<1> HIDE DEF e
<1>4. /\ Nothing(outbox'[c], "link") => Nothing(outbox[c], "link")
      /\ LastIs(outbox[c], "link", Believed) => LastIs(outbox'[c], "link", Believed)
  BY <1>1, <1>2, <1>3, AppendOther
<1> QED BY <1>1, <1>3, <1>4 DEF Informed, Believed, socketVars

LEMMA LinkBroadcast ==
    ASSUME MonitorInv, Poll
    PROVE  \A c \in Clients : Informed(c)'
<1> SUFFICES ASSUME NEW c \in Clients PROVE Informed(c)'
  OBVIOUS
<1>1. Informed(c) /\ outbox[c] \in Seq(Entry) /\ outbox \in [Clients -> Seq(Entry)]
  BY DEF MonitorInv, TypeOK
<1>2. was' \in BOOLEAN /\ outbox' = Broadcasting(Linked(was'), "monitor")
  BY DEF Poll, MonitorInv, TypeOK
<1> DEFINE e == [msg |-> Linked(was'), owner |-> "monitor"]
<1>3. e \in Entry /\ Linked(was') \in Msg /\ On(e, "link") /\ e.msg.value = Believed'
  BY <1>2 DEF Entry, Msg, Linked, On, Owner, Believed
<1>4. outbox'[c] = IF c \in clients THEN Append(outbox[c], e) ELSE outbox[c]
  BY <1>1, <1>2, <1>3, BroadcastingAppends DEF Owner
<1> HIDE DEF e
<1>5. c \in clients => ~Nothing(outbox'[c], "link") /\ LastIs(outbox'[c], "link", Believed')
  BY <1>1, <1>3, <1>4, AppendSame
<1>6. UNCHANGED <<socketVars, toldLink, heard>>
  BY DEF Poll, clientVars
<1> QED BY <1>1, <1>4, <1>5, <1>6 DEF Informed, socketVars

LEMMA Sent ==
    ASSUME MonitorInv, NEW d \in Clients, SendTo(d)
    PROVE  \A c \in Clients : Informed(c)'
<1> SUFFICES ASSUME NEW c \in Clients PROVE Informed(c)'
  OBVIOUS
<1> DEFINE q == outbox[d]
<1>1. /\ q \in Seq(Entry) /\ q # <<>>
      /\ outbox' = [outbox EXCEPT ![d] = Tail(q)]
      /\ UNCHANGED <<hello, open, was>>
  BY DEF MonitorInv, TypeOK, SendTo
<1>2. Informed(c) /\ Informed(d) /\ Believed' = Believed
  BY <1>1 DEF MonitorInv, Believed
<1>3. CASE c # d
  <2>0. /\ toldLink' \in {toldLink, [toldLink EXCEPT ![d] = Head(q).msg.value]}
        /\ heard' \in {heard, [heard EXCEPT ![d] = TRUE]}
    BY DEF SendTo, clientVars
  <2>a. /\ outbox \in [Clients -> Seq(Entry)] /\ DOMAIN toldLink = Clients
        /\ DOMAIN heard = Clients
    BY DEF MonitorInv, TypeOK
  <2>b. outbox'[c] = outbox[c]
    BY <1>1, <1>3, <2>a
  <2>c. toldLink'[c] = toldLink[c]
    BY <1>3, <2>0, <2>a
  <2>d. heard'[c] = heard[c]
    BY <1>3, <2>0, <2>a
  <2>1. outbox'[c] = outbox[c] /\ toldLink'[c] = toldLink[c] /\ heard'[c] = heard[c]
    BY <2>b, <2>c, <2>d
  <2>2. c \in clients <=> c \in clients'
    BY <1>3 DEF SendTo
  <2> QED BY <1>1, <1>2, <2>1, <2>2 DEF Informed
<1>4. CASE c = d
  <2>1. outbox'[c] = Tail(q)
    BY <1>1, <1>4 DEF MonitorInv, TypeOK
  <2>2. hello[c] # "away"
    BY <1>1, <1>2, <1>4 DEF Informed
  <2>3. CASE ~open[c]
    BY <1>1, <2>2, <2>3 DEF Informed
  <2>4. CASE open[c]
    <3>1. clients' = clients
      BY <1>4, <2>4 DEF SendTo
    <3>2. LastIs(Tail(q), "link", Believed)
      BY <1>1, <1>2, <1>4, <2>4, TailLast DEF Informed
    <3>3. ASSUME heard'[c], Nothing(Tail(q), "link") PROVE toldLink'[c] = Believed
      <4>1. CASE On(Head(q), "link")
        <5>1. toldLink'[c] = Head(q).msg.value
          BY <1>4, <2>4, <4>1 DEF SendTo, On, MonitorInv, TypeOK
        <5> QED BY <1>1, <1>2, <1>4, <2>4, <3>3, <4>1, <5>1, TailLast DEF Informed
      <4>2. CASE ~On(Head(q), "link")
        <5>1. toldLink'[c] = toldLink[c] /\ heard'[c] = heard[c]
          BY <1>4, <2>4, <4>2 DEF SendTo, On
        <5>2. Nothing(q, "link")
          BY <1>1, <3>3, <4>2, TailLast
        <5> QED BY <1>2, <1>4, <2>4, <3>3, <5>1, <5>2 DEF Informed
      <4> QED BY <4>1, <4>2
    <3> QED BY <1>1, <1>2, <1>4, <2>1, <2>2, <2>4, <3>1, <3>2, <3>3 DEF Informed
  <2> QED BY <2>3, <2>4
<1> QED BY <1>3, <1>4

LEMMA MonitorStep == MonitorInv /\ [Next]_vars => MonitorInv'
<1> SUFFICES ASSUME MonitorInv, [Next]_vars PROVE \A c \in Clients : Informed(c)'
  BY TypeStep DEF MonitorInv
<1>1. ASSUME UNCHANGED <<socketVars, toldLink, heard, was, outbox>>
      PROVE  \A c \in Clients : Informed(c)'
  BY <1>1 DEF MonitorInv, Informed, Believed, socketVars
<1> USE DEF vars, clientVars
<1>2. ASSUME LinkUp \/ LinkDown \/ DeviceStep \/ Heartbeat \/ Silence \/ FileEvent
             \/ OnBridgeEvent \/ SyncSends \/ MonitorTold \/ UNCHANGED vars
      PROVE  \A c \in Clients : Informed(c)'
  BY <1>1, <1>2 DEF LinkUp, LinkDown, DeviceStep, Heartbeat, Silence, FileEvent,
                    OnBridgeEvent, SyncSends, MonitorTold
<1>3. ASSUME NEW r \in Requests,
             ThreadAnswered(r) \/ ThreadGivesUp(r) \/ WsCommand(r) \/ RestRequest(r)
      PROVE  \A c \in Clients : Informed(c)'
  BY <1>1, <1>3 DEF ThreadAnswered, ThreadGivesUp, WsCommand, RestRequest, CallBridge
<1>4. ASSUME StartBroadcast PROVE \A c \in Clients : Informed(c)'
  <2>1. Head(ready) \in Handed
    BY <1>4, HeadTailProperties DEF StartBroadcast, MonitorInv, TypeOK
  <2>2. Head(ready).msg \in OfPin /\ Nobody \in Owner
    BY <2>1 DEF Handed, Owner
  <2> QED BY <1>4, <2>2, PinBroadcast DEF StartBroadcast
<1>5. ASSUME NEW r \in Requests,
             Resume(r) \/ AskStatus(r) \/ StatusAnswered(r) \/ StatusMissing(r)
      PROVE  \A c \in Clients : Informed(c)'
  <2>1. \E v \in Level \union {None} : outbox' \in {outbox, Broadcasting(Told(v), r)}
    <3>1. CASE Resume(r)
      <4>1. /\ Target[r] \in Level /\ answer[r] \in Level \union {None}
        BY PlatformAssumption DEF PlatformAssumption, MonitorInv, TypeOK
      <4> QED BY <3>1, <4>1 DEF Resume
    <3>2. CASE AskStatus(r)
      BY <3>2 DEF AskStatus
    <3>3. CASE StatusAnswered(r) \/ StatusMissing(r)
      BY <3>3 DEF StatusAnswered, StatusMissing, MonitorInv, TypeOK
    <3> QED BY <1>5, <3>1, <3>2, <3>3
  <2>2. PICK v \in Level \union {None} : outbox' \in {outbox, Broadcasting(Told(v), r)}
    BY <2>1
  <2>3. Told(v) \in OfPin /\ r \in Owner
    BY PlatformAssumption, Messages DEF Owner
  <2>4. UNCHANGED <<socketVars, toldLink, heard, was>>
    BY <1>5 DEF Resume, AskStatus, StatusAnswered, StatusMissing
  <2> QED BY <2>2, <2>3, <2>4, PinBroadcast
<1>6. ASSUME NEW d \in Clients, SendTo(d) PROVE \A c \in Clients : Informed(c)'
  BY <1>6, Sent
<1>7. ASSUME Poll PROVE \A c \in Clients : Informed(c)'
  BY <1>7, LinkBroadcast
<1>8. ASSUME NEW d \in Clients, HelloConnect(d), NEW c \in Clients PROVE Informed(c)'
  <2>1. Informed(c) /\ Believed' = Believed
    BY <1>8 DEF MonitorInv, Believed, HelloConnect
  <2>2. CASE c # d
    <3>1. /\ UNCHANGED <<hello[c], open[c], outbox[c], heard[c], toldLink[c]>>
          /\ c \in clients' <=> c \in clients
      BY <1>8, <2>2 DEF HelloConnect, MonitorInv, TypeOK
    <3> QED BY <2>1, <3>1 DEF Informed
  <2>3. CASE c = d
    <3>1. /\ hello'[c] = "database" /\ c \in clients' /\ outbox'[c] = outbox[c]
          /\ heard'[c] = heard[c]
      BY <1>8, <2>3 DEF HelloConnect, MonitorInv, TypeOK
    <3>2. ~heard[c] /\ outbox[c] = <<>>
      BY <1>8, <2>1, <2>3 DEF HelloConnect, Informed
    <3>3. LastIs(<<>>, "link", Believed)
      BY EmptySeq DEF LastIs
    <3> QED BY <2>1, <3>1, <3>2, <3>3 DEF Informed
  <2> QED BY <2>2, <2>3
<1>9. ASSUME NEW d \in Clients, HelloState(d), NEW c \in Clients PROVE Informed(c)'
  <2>1. Informed(c) /\ Believed' = Believed
    BY <1>9 DEF MonitorInv, Believed, HelloState
  <2>2. UNCHANGED <<open, outbox, heard, toldLink, clients>>
    BY <1>9 DEF HelloState
  <2>3. hello'[c] = "away" => hello[c] = "away"
    BY <1>9 DEF HelloState, MonitorInv, TypeOK
  <2> QED BY <2>1, <2>2, <2>3 DEF Informed
<1>10. ASSUME NEW d \in Clients, Leave(d), NEW c \in Clients PROVE Informed(c)'
  <2>1. Informed(c) /\ Believed' = Believed
    BY <1>10 DEF MonitorInv, Believed, Leave
  <2>2. CASE c # d
    <3>1. UNCHANGED <<hello[c], open[c], outbox[c], heard[c], toldLink[c], clients>>
      BY <1>10, <2>2 DEF Leave, MonitorInv, TypeOK
    <3> QED BY <2>1, <3>1 DEF Informed
  <2>3. CASE c = d
    <3>1. ~open'[c] /\ ~heard'[c] /\ UNCHANGED <<hello, clients, outbox>>
      BY <1>10, <2>3 DEF Leave, MonitorInv, TypeOK
    <3> QED BY <2>1, <3>1 DEF Informed
  <2> QED BY <2>2, <2>3
<1>11. ASSUME NEW d \in Clients, EndpointEnds(d), NEW c \in Clients PROVE Informed(c)'
  <2>1. Informed(c) /\ Believed' = Believed
    BY <1>11 DEF MonitorInv, Believed, EndpointEnds
  <2>2. UNCHANGED <<open, outbox, heard, toldLink>> /\ clients' = clients \ {d} /\ ~open[d]
    BY <1>11 DEF EndpointEnds
  <2>3. hello'[c] = "away" => hello[c] = "away"
    BY <1>11 DEF EndpointEnds, MonitorInv, TypeOK
  <2> QED BY <2>1, <2>2, <2>3 DEF Informed
<1> QED
  BY <1>2, <1>3, <1>4, <1>5, <1>6, <1>7, <1>8, <1>9, <1>10, <1>11
     DEF Next, Device, Handler, Thread, Endpoint, Request, Rest

(* A client with no link message on its way was told what the monitor      *)
(* believes, if a broadcast told it: whoever connects, breaks off or is in *)
(* the middle of another broadcast.                                        *)
THEOREM HeardTheMonitorHolds == Spec => []HeardTheMonitor
<1>1. Init => MonitorInv
  <2> SUFFICES ASSUME Init PROVE \A c \in Clients : Informed(c)
    BY InitTyped DEF MonitorInv
  <2> QED BY DEF Init, Informed
<1>2. MonitorInv => HeardTheMonitor
  <2> SUFFICES ASSUME MonitorInv, NEW c \in Clients, open[c], heard[c],
                      \A i \in 1..Len(outbox[c]) : outbox[c][i].msg.about # "link"
               PROVE  toldLink[c] = Linked(was).value
    BY DEF HeardTheMonitor
  <2>1. Informed(c) /\ Nothing(outbox[c], "link")
    BY DEF MonitorInv, Nothing, On
  <2> QED BY <2>1 DEF Informed, Believed, Linked
<1> QED BY <1>1, <1>2, MonitorStep, PTL DEF Spec

-----------------------------------------------------------------------------
(* What the clients see.  ViewsAgree speaks of a platform at rest; the      *)
(* invariant says, of one at work, what will still put right whatever does  *)
(* not show the level of the pin.  A level read before a gpio_set was       *)
(* executed has the answer to it, or newer news, behind it in each queue it *)
(* goes through, so that its broadcast starts before the handler of the     *)
(* gpio_set resumes and asks for the status.                                *)

\* An event that carries the level, and one whose level is broadcast.
Reading(e)   == e.kind # "ack"
Announced(e) == e.kind \in {"value", "snapshot"}

\* r is a gpio_set over REST that has come to s.
Setting(r, s) == kind[r] = "set" /\ pc[r] = s

\* Behind place i of the events: the answer to a gpio_set that waits for it;
\* a level that will be broadcast.
AckBehind(i) ==
    \E j \in 1..Len(events) :
        j > i /\ events[j].kind = "ack" /\ Setting(events[j].call, "wait")
NewsBehind(i) == \E j \in 1..Len(events) : j > i /\ Announced(events[j])
NewsInHand == handling # <<>> /\ Announced(handling[1])

\* Behind place i of what the loop is handed: a broadcast; a gpio_set done.
StartBehind(i) == \E j \in 1..Len(ready) : j > i /\ ready[j].what = "start"
WakeBehind(i) ==
    \E j \in 1..Len(ready) :
        j > i /\ ready[j].what = "wake" /\ Setting(ready[j].call, "ok")

Answered   == \E r \in Requests : Setting(r, "wait") /\ answer[r] # None
News       == StartBehind(0) \/ NewsInHand \/ NewsBehind(0)
Unfinished ==
    \/ AckBehind(0) \/ Answered
    \/ \E r \in Requests : Setting(r, "ok") \/ Setting(r, "tell")
SyncComing == syncs > 0 \/ \E i \in 1..Len(cmds) : cmds[i].op = "sync"
StatusComing(r) ==
    \/ \E i \in 1..Len(cmds) : cmds[i] = [op |-> "status", call |-> r]
    \/ \E i \in 1..Len(events) : events[i].kind = "status" /\ events[i].call = r

\* On the way to the handler thread, in its hands, on the way to the loop.
EventsFresh ==
    \A i \in 1..Len(events) :
        Reading(events[i]) => events[i].level = pin \/ NewsBehind(i) \/ AckBehind(i)
HandlingFresh ==
    handling # <<>> => handling[1].level = pin \/ NewsBehind(0) \/ AckBehind(0)
ReadyFresh ==
    \A i \in 1..Len(ready) :
        ready[i].what = "start" =>
            \/ ready[i].msg.value = pin
            \/ StartBehind(i) \/ NewsInHand \/ NewsBehind(0)
            \/ AckBehind(0) \/ Answered \/ WakeBehind(i)

\* What a handler that waits for a status will find.
FiledFresh ==
    \A r \in Requests :
        pc[r] = "status" =>
            \/ News \/ Unfinished
            \/ filed = pin
            \/ filed = None /\ StatusComing(r)

CacheFresh ==
    \/ handling # <<>> \/ \E i \in 1..Len(events) : Reading(events[i])
    \/ \E i \in 1..Len(cmds) : cmds[i].op # "set"
    \/ cache = pin \/ Unfinished

\* The last level sent to c, or about to be, is that of the pin.
Shown(c) ==
    /\ LastIs(outbox[c], "level", pin)
    /\ Nothing(outbox[c], "level") => toldLevel[c] = pin
ViewsFresh ==
    \/ News \/ Unfinished \/ SyncComing
    \/ \E r \in Requests : pc[r] = "status"
    \/ \A c \in Serving : Shown(c)

Fresh == EventsFresh /\ HandlingFresh /\ ReadyFresh /\ FiledFresh /\ CacheFresh /\ ViewsFresh

\* A request asks the device once and is answered once.
Asks(m, r)    == m.op \in {"set", "get"} /\ m.call = r
Answers(e, r) == e.kind \in {"ack", "value"} /\ e.call = r
Asked(r)      == {i \in 1..Len(cmds) : Asks(cmds[i], r)}
Replies(r)    == {i \in 1..Len(events) : Answers(events[i], r)}

AtMostOnce ==
    \A r \in Requests :
        /\ \A i, j \in Asked(r) : i = j
        /\ \A i, j \in Replies(r) : i = j
        /\ Asked(r) = {} \/ Replies(r) = {}
        /\ Asked(r) # {} \/ Replies(r) # {} => answer[r] = None /\ pc[r] # "idle"
        /\ pc[r] = "idle" => answer[r] = None

\* What is known of a command on its way, and of the event in hand; without a
\* link nothing is on its way, and the last snapshot is of no use.
Commanded ==
    /\ \A r \in Requests : kind[r] = "idle" => pc[r] = "idle"
    /\ \A i \in 1..Len(cmds) : cmds[i].op = "set" => kind[cmds[i].call] \in {"set", "wsset"}
InHand == handling = <<>> \/ \E e \in Evt : Reading(e) /\ handling = <<e>>
Linkless == ~link => gap /\ cmds = <<>>

\* The loop is woken once for a call, by what became of it.
Wakes ==
    /\ \A i \in 1..Len(ready) :
          ready[i].what = "wake" =>
              /\ ready[i].call \in Requests
              /\ pc[ready[i].call] \in {"ok", "failed"}
    /\ \A i, j \in 1..Len(ready) :
          ready[i].what = "wake" /\ ready[j].what = "wake" /\ ready[i].call = ready[j].call
          => i = j

ViewInv ==
    /\ TypeOK /\ AtMostOnce /\ Commanded /\ InHand /\ Linkless /\ Wakes
    /\ gap \/ Fresh

LEMMA Queues ==
    ASSUME TypeOK
    PROVE  /\ Len(cmds) \in Nat /\ \A i \in 1..Len(cmds) : cmds[i] \in Cmd
           /\ Len(events) \in Nat /\ \A i \in 1..Len(events) : events[i] \in Evt
           /\ Len(ready) \in Nat /\ \A i \in 1..Len(ready) : ready[i] \in Handed
<1>1. cmds \in Seq(Cmd) /\ events \in Seq(Evt) /\ ready \in Seq(Handed)
  BY DEF TypeOK
<1> QED BY <1>1, ElementOfSeq, LenProperties

\* Appending and removing, place by place.
LEMMA Appended ==
    ASSUME NEW S, NEW s \in Seq(S), NEW e \in S, NEW t, t = Append(s, e)
    PROVE  /\ Len(s) \in Nat /\ Len(t) = Len(s) + 1 /\ t[Len(s) + 1] = e
           /\ \A i \in 1..Len(s) : t[i] = s[i]
BY AppendProperties

LEMMA Removed ==
    ASSUME NEW S, NEW s \in Seq(S), s # <<>>, NEW t, t = Tail(s)
    PROVE  /\ Len(s) \in Nat \ {0} /\ Len(t) = Len(s) - 1 /\ Len(t) \in Nat
           /\ Head(s) = s[1] /\ s[1] \in S
           /\ \A i \in 1..Len(t) : t[i] = s[i + 1]
           /\ \A i \in 2..Len(s) : t[i - 1] = s[i]
<1>1. /\ Len(s) \in Nat \ {0} /\ Len(t) = Len(s) - 1
      /\ \A i \in 1..Len(t) : t[i] = s[i + 1]
      /\ Head(s) = s[1] /\ Head(s) \in S
  BY HeadTailProperties, EmptySeq
<1>2. ASSUME NEW i \in 2..Len(s) PROVE t[i - 1] = s[i]
  <2>1. i - 1 \in 1..Len(t) /\ (i - 1) + 1 = i
    BY <1>1
  <2> QED BY <1>1, <2>1
<1> QED BY <1>1, <1>2

\* What the device answers to a command (main.c, command_dispatcher.c).
LEMMA Executed ==
    ASSUME TypeOK, DeviceStep
    PROVE  /\ cmds # <<>> /\ cmds' = Tail(cmds) /\ cmds[1] \in Cmd
           /\ \E e \in Evt :
                 /\ events' = Append(events, e) /\ e.call = cmds[1].call
                 /\ e.kind = "ack" <=> cmds[1].op = "set"
                 /\ e.kind = "value" <=> cmds[1].op = "get"
                 /\ e.kind = "status" <=> cmds[1].op = "status"
                 /\ e.kind = "snapshot" <=> cmds[1].op = "sync"
                 /\ Reading(e) => e.level = pin /\ pin' = pin
           /\ ~gap' /\ cmds[1].op # "sync" => ~gap
           /\ ~gap' /\ cmds[1].op = "set" =>
                 kind[cmds[1].call] # "wsset" /\ pc[cmds[1].call] = "wait"
<1> DEFINE m == cmds[1]
<1>1. cmds # <<>> /\ cmds' = Tail(cmds) /\ m \in Cmd /\ Head(cmds) = m
  BY Removed DEF DeviceStep, TypeOK
<1> DEFINE e == CASE m.op = "set"    -> Event("ack", m.call, 0)
                  [] m.op = "get"    -> Event("value", m.call, pin)
                  [] m.op = "status" -> Event("status", m.call, pin)
                  [] OTHER           -> Event("snapshot", Nobody, pin)
<1>2. m.op \in {"set", "get", "status", "sync"} /\ (m.op = "sync" => m.call = Nobody)
  BY <1>1 DEF Cmd
<1>3. events \in Seq(Evt) /\ pin \in Level /\ 0 \in Level
  BY DEF TypeOK, Level
<1>4. /\ e \in Evt /\ e.call = m.call
      /\ e.kind = "ack" <=> m.op = "set"
      /\ e.kind = "value" <=> m.op = "get"
      /\ e.kind = "status" <=> m.op = "status"
      /\ e.kind = "snapshot" <=> m.op = "sync"
      /\ Reading(e) => e.level = pin
  <2>1. CASE m.op = "set"
    BY <1>1, <1>3, <2>1 DEF Event, Evt, Cmd, Reading
  <2>2. CASE m.op = "get"
    BY <1>1, <1>3, <2>2 DEF Event, Evt, Cmd, Reading
  <2>3. CASE m.op = "status"
    BY <1>1, <1>3, <2>3 DEF Event, Evt, Cmd, Reading
  <2>4. CASE m.op = "sync"
    BY <1>1, <1>2, <1>3, <2>4 DEF Event, Evt, Cmd, Reading
  <2> QED BY <1>2, <2>1, <2>2, <2>3, <2>4
<1>5. events' = events \o <<e>>
  <2>1. CASE m.op = "set"
    BY <1>1, <2>1 DEF DeviceStep
  <2>2. CASE m.op = "get"
    BY <1>1, <2>2 DEF DeviceStep
  <2>3. CASE m.op = "status"
    BY <1>1, <2>3 DEF DeviceStep
  <2>4. CASE m.op = "sync"
    BY <1>1, <2>4 DEF DeviceStep
  <2> QED BY <1>2, <2>1, <2>2, <2>3, <2>4
<1>6. Reading(e) => pin' = pin
  BY <1>1, <1>4 DEF DeviceStep, Reading
<1>7. /\ ~gap' /\ m.op # "sync" => ~gap
      /\ ~gap' /\ m.op = "set" => kind[m.call] # "wsset" /\ pc[m.call] = "wait"
  <2>1. CASE m.op = "set"
    BY <1>1, <2>1 DEF DeviceStep
  <2>2. CASE m.op # "set" /\ m.op # "sync"
    BY <1>1, <2>2 DEF DeviceStep
  <2> QED BY <1>2, <2>1, <2>2
<1> HIDE DEF e
<1>8. events' = Append(events, e)
  BY <1>3, <1>4, <1>5
<1> QED BY <1>1, <1>4, <1>6, <1>7, <1>8

LEMMA MenuKinds == \A r \in Requests : Menu[r] \subseteq Kinds \ {"idle"}
BY PlatformAssumption DEF PlatformAssumption, Kinds

\* Steps that neither ask nor answer.
LEMMA OnceKept ==
    ASSUME AtMostOnce,
           \A r \in Requests : Asked(r)' \subseteq Asked(r) /\ Replies(r)' \subseteq Replies(r),
           \A r \in Requests : answer'[r] = answer[r] \/ (answer'[r] = None),
           \A r \in Requests : pc'[r] = "idle" => pc[r] = "idle"
    PROVE  AtMostOnce'
BY DEF AtMostOnce

\* A command or an event at the end of its queue.
LEMMA AskedMore ==
    ASSUME TypeOK, NEW m \in Cmd, cmds' = Append(cmds, m), NEW r \in Requests
    PROVE  Asked(r)' = Asked(r) \union (IF Asks(m, r) THEN {Len(cmds) + 1} ELSE {})
<1>1. /\ Len(cmds) \in Nat /\ Len(cmds') = Len(cmds) + 1 /\ cmds'[Len(cmds) + 1] = m
      /\ \A i \in 1..Len(cmds) : cmds'[i] = cmds[i]
  BY Appended DEF TypeOK
<1> QED BY <1>1 DEF Asked, Asks

LEMMA RepliedMore ==
    ASSUME TypeOK, NEW e \in Evt, events' = Append(events, e), NEW r \in Requests
    PROVE  Replies(r)' = Replies(r) \union (IF Answers(e, r) THEN {Len(events) + 1} ELSE {})
<1>1. /\ Len(events) \in Nat /\ Len(events') = Len(events) + 1 /\ events'[Len(events) + 1] = e
      /\ \A i \in 1..Len(events) : events'[i] = events[i]
  BY Appended DEF TypeOK
<1> QED BY <1>1 DEF Replies, Answers

\* The first of them is taken.
LEMMA AskedLess ==
    ASSUME TypeOK, cmds # <<>>, cmds' = Tail(cmds), NEW r \in Requests
    PROVE  /\ \A i \in Asked(r)' : i \in Nat /\ i + 1 \in Asked(r) /\ i + 1 # 1
           /\ 1 \in Asked(r) <=> Asks(cmds[1], r)
<1>1. /\ Len(cmds) \in Nat \ {0} /\ Len(cmds') = Len(cmds) - 1 /\ Len(cmds') \in Nat
      /\ \A i \in 1..Len(cmds') : cmds'[i] = cmds[i + 1]
  BY Removed DEF TypeOK
<1> QED BY <1>1 DEF Asked, Asks

LEMMA RepliedLess ==
    ASSUME TypeOK, events # <<>>, events' = Tail(events), NEW r \in Requests
    PROVE  /\ \A i \in Replies(r)' : i \in Nat /\ i + 1 \in Replies(r) /\ i + 1 # 1
           /\ 1 \in Replies(r) <=> Answers(events[1], r)
<1>1. /\ Len(events) \in Nat \ {0} /\ Len(events') = Len(events) - 1 /\ Len(events') \in Nat
      /\ \A i \in 1..Len(events') : events'[i] = events[i + 1]
  BY Removed DEF TypeOK
<1> QED BY <1>1 DEF Replies, Answers

LEMMA OnceStep == ViewInv /\ [Next]_vars => AtMostOnce'
<1> SUFFICES ASSUME ViewInv, [Next]_vars PROVE AtMostOnce'
  OBVIOUS
<1> USE PlatformAssumption DEF vars, deviceVars, handlerVars, clientVars, socketVars
<1>0. TypeOK /\ AtMostOnce
  BY DEF ViewInv
<1>a. \A r \in Requests : Asked(r) \subseteq Nat /\ Replies(r) \subseteq Nat
  BY <1>0, Queues DEF Asked, Replies
<1>b. \A r \in Requests : /\ cmds' = cmds => Asked(r)' = Asked(r)
                          /\ events' = events => Replies(r)' = Replies(r)
  BY DEF Asked, Replies, Asks, Answers
<1>1. ASSUME UNCHANGED <<cmds, events, answer, pc>> PROVE AtMostOnce'
  BY <1>0, <1>1, <1>b, OnceKept
<1>2. ASSUME LinkUp \/ Heartbeat \/ Silence \/ OnBridgeEvent \/ StartBroadcast \/ Poll
             \/ MonitorTold \/ UNCHANGED vars
      PROVE  AtMostOnce'
  BY <1>1, <1>2 DEF LinkUp, Heartbeat, Silence, OnBridgeEvent, StartBroadcast, Poll, MonitorTold
<1>3. ASSUME NEW c \in Clients,
             SendTo(c) \/ HelloConnect(c) \/ HelloState(c) \/ Leave(c) \/ EndpointEnds(c)
      PROVE  AtMostOnce'
  BY <1>1, <1>3 DEF SendTo, HelloConnect, HelloState, Leave, EndpointEnds
<1>4. ASSUME LinkDown PROVE AtMostOnce'
  <2>1. cmds' = <<>> /\ events' = <<>> /\ UNCHANGED <<answer, pc>>
    BY <1>4 DEF LinkDown
  <2>2. \A r \in Requests : Asked(r)' = {} /\ Replies(r)' = {}
    BY <2>1 DEF Asked, Replies
  <2> QED BY <1>0, <2>1, <2>2, OnceKept
<1>5. ASSUME DeviceStep, NEW r \in Requests
      PROVE  /\ \A i, j \in Asked(r)' : i = j
             /\ \A i, j \in Replies(r)' : i = j
             /\ Asked(r)' = {} \/ Replies(r)' = {}
             /\ Asked(r)' # {} \/ Replies(r)' # {} => answer[r] = None /\ pc[r] # "idle"
  <2>1. PICK e \in Evt : /\ events' = Append(events, e) /\ e.call = cmds[1].call
                         /\ e.kind = "ack" <=> cmds[1].op = "set"
                         /\ e.kind = "value" <=> cmds[1].op = "get"
    BY <1>0, <1>5, Executed
  <2>2. cmds # <<>> /\ cmds' = Tail(cmds)
    BY <1>0, <1>5, Executed
  <2>3. Answers(e, r) <=> Asks(cmds[1], r)
    BY <2>1 DEF Answers, Asks
  <2>4. /\ \A i \in Asked(r)' : i \in Nat /\ i + 1 \in Asked(r) /\ i + 1 # 1
        /\ 1 \in Asked(r) <=> Asks(cmds[1], r)
    BY <1>0, <2>2, AskedLess
  <2>5. Replies(r)' = Replies(r) \union (IF Asks(cmds[1], r) THEN {Len(events) + 1} ELSE {})
    BY <1>0, <2>1, <2>3, RepliedMore
  <2>6. \A i, j \in Asked(r)' : i = j
    BY <1>0, <2>4 DEF AtMostOnce
  <2>7. CASE Asks(cmds[1], r)
    <3>1. 1 \in Asked(r) /\ Replies(r) = {} /\ answer[r] = None /\ pc[r] # "idle"
      BY <1>0, <2>4, <2>7 DEF AtMostOnce
    <3>2. Asked(r)' = {}
      BY <1>0, <2>4, <3>1 DEF AtMostOnce
    <3> QED BY <2>5, <2>7, <3>1, <3>2
  <2>8. CASE ~Asks(cmds[1], r)
    <3>1. Replies(r)' = Replies(r)
      BY <2>5, <2>8
    <3>2. Asked(r) = {} => Asked(r)' = {}
      BY <2>4
    <3> QED BY <1>0, <2>6, <3>1, <3>2 DEF AtMostOnce
  <2> QED BY <2>7, <2>8
<1>6. ASSUME DeviceStep PROVE AtMostOnce'
  <2>1. UNCHANGED <<answer, pc>>
    BY <1>6 DEF DeviceStep
  <2> QED BY <1>0, <1>5, <1>6, <2>1 DEF AtMostOnce
<1>7. ASSUME FileEvent PROVE AtMostOnce'
  <2> DEFINE e == events[1]
  <2>1. /\ events # <<>> /\ events' = Tail(events) /\ Head(events) = e /\ e \in Evt
        /\ UNCHANGED <<cmds, pc>>
    BY <1>0, <1>7, Removed DEF FileEvent, TypeOK
  <2>2. ASSUME NEW r \in Requests
        PROVE  /\ \A i \in Replies(r)' : i \in Nat /\ i + 1 \in Replies(r) /\ i + 1 # 1
               /\ 1 \in Replies(r) <=> Answers(e, r)
    BY <1>0, <2>1, RepliedLess
  <2>3. ASSUME NEW r \in Requests PROVE answer'[r] = answer[r] \/ Answers(e, r)
    BY <1>0, <1>7, <2>1 DEF FileEvent, TypeOK, Answers
  <2>4. ASSUME NEW r \in Requests
        PROVE  /\ \A i, j \in Replies(r)' : i = j
               /\ Replies(r) = {} => Replies(r)' = {}
               /\ Answers(e, r) => Replies(r)' = {}
               /\ Asked(r)' = Asked(r)
    BY <1>0, <1>b, <2>1, <2>2 DEF AtMostOnce
  <2>5. ASSUME NEW r \in Requests, Answers(e, r)
        PROVE  Asked(r) = {} /\ Replies(r)' = {} /\ pc[r] # "idle"
    BY <1>0, <2>2, <2>4, <2>5 DEF AtMostOnce
  <2> QED BY <1>0, <2>1, <2>3, <2>4, <2>5 DEF AtMostOnce
<1>8. ASSUME SyncSends PROVE AtMostOnce'
  <2>1. /\ cmds' \in {cmds, Append(cmds, [op |-> "sync", call |-> Nobody])}
        /\ UNCHANGED <<events, answer, pc>>
    BY <1>8 DEF SyncSends
  <2>2. [op |-> "sync", call |-> Nobody] \in Cmd
    BY DEF Cmd
  <2>3. \A r \in Requests : Asked(r)' = Asked(r)
    BY <1>0, <1>b, <2>1, <2>2, AskedMore DEF Asks
  <2> QED BY <1>0, <1>b, <2>1, <2>3, OnceKept
<1>9. ASSUME NEW x \in Requests, ThreadAnswered(x) \/ ThreadGivesUp(x) PROVE AtMostOnce'
  <2>1. UNCHANGED <<cmds, events, answer>> /\ \E s \in {"ok", "failed"} : pc' = [pc EXCEPT ![x] = s]
    BY <1>9 DEF ThreadAnswered, ThreadGivesUp, Returned
  <2>2. \A r \in Requests : pc'[r] = "idle" => pc[r] = "idle"
    BY <1>0, <2>1 DEF TypeOK
  <2> QED BY <1>0, <1>b, <2>1, <2>2, OnceKept
<1>10. ASSUME NEW x \in Requests, Resume(x) \/ StatusAnswered(x) \/ StatusMissing(x)
       PROVE  AtMostOnce'
  <2>1. /\ UNCHANGED <<cmds, events>> /\ answer' \in {answer, [answer EXCEPT ![x] = None]}
        /\ \E s \in {"tell", "done"} : pc' = [pc EXCEPT ![x] = s]
    BY <1>10 DEF Resume, StatusAnswered, StatusMissing
  <2>2. \A r \in Requests : /\ pc'[r] = "idle" => pc[r] = "idle"
                            /\ answer'[r] = answer[r] \/ (answer'[r] = None)
    BY <1>0, <2>1 DEF TypeOK
  <2> QED BY <1>0, <1>b, <2>1, <2>2, OnceKept
<1>11. ASSUME NEW x \in Requests, AskStatus(x) PROVE AtMostOnce'
  <2>1. /\ cmds' \in {cmds, Append(cmds, [op |-> "status", call |-> x])}
        /\ UNCHANGED <<events, answer>>
        /\ \E s \in {"status", "done"} : pc' = [pc EXCEPT ![x] = s]
    BY <1>11 DEF AskStatus
  <2>2. [op |-> "status", call |-> x] \in Cmd
    BY DEF Cmd
  <2>3. \A r \in Requests : Asked(r)' = Asked(r)
    BY <1>0, <1>b, <2>1, <2>2, AskedMore DEF Asks
  <2>4. \A r \in Requests : pc'[r] = "idle" => pc[r] = "idle"
    BY <1>0, <2>1 DEF TypeOK
  <2> QED BY <1>0, <1>b, <2>1, <2>3, <2>4, OnceKept
<1>12. ASSUME NEW x \in Requests, NEW k \in Kinds, CallBridge(x, k), pc[x] = "idle"
       PROVE  AtMostOnce'
  <2> DEFINE m == [op |-> Op(k), call |-> x]
  <2>1. /\ cmds' = Append(cmds, m) /\ pc' = [pc EXCEPT ![x] = "wait"]
        /\ UNCHANGED <<events, answer>>
    BY <1>12 DEF CallBridge
  <2>2. m \in Cmd /\ \A r \in Requests : Asks(m, r) <=> r = x
    BY DEF Cmd, Op, Asks
  <2> HIDE DEF m
  <2>3. Asked(x) = {} /\ Replies(x) = {} /\ answer[x] = None
    BY <1>0, <1>12 DEF AtMostOnce
  <2>4. Asked(x)' = {Len(cmds) + 1} /\ \A r \in Requests \ {x} : Asked(r)' = Asked(r)
    BY <1>0, <2>1, <2>2, <2>3, AskedMore
  <2>5. pc'[x] = "wait" /\ \A r \in Requests \ {x} : pc'[r] = pc[r]
    BY <1>0, <2>1 DEF TypeOK
  <2> QED BY <1>0, <1>b, <2>1, <2>3, <2>4, <2>5 DEF AtMostOnce
<1>13. ASSUME NEW x \in Requests, WsCommand(x) \/ RestRequest(x) PROVE AtMostOnce'
  BY <1>12, <1>13, MenuKinds DEF WsCommand, RestRequest
<1> QED
  BY <1>2, <1>3, <1>4, <1>6, <1>7, <1>8, <1>9, <1>10, <1>11, <1>13
     DEF Next, Device, Handler, Thread, Endpoint, Request, Rest

LEMMA CommandedStep == ViewInv /\ [Next]_vars => Commanded'
<1> SUFFICES ASSUME ViewInv, [Next]_vars PROVE Commanded'
  OBVIOUS
<1> USE DEF vars, deviceVars, handlerVars, clientVars, socketVars
<1>0. TypeOK /\ Commanded
  BY DEF ViewInv
<1>a. Len(cmds) \in Nat /\ \A i \in 1..Len(cmds) : cmds[i] \in Cmd
  BY <1>0, Queues
\* Commands that are no gpio_set may be added and any taken.
<1>b. ASSUME kind' = kind, \A r \in Requests : pc[r] = "idle" => pc'[r] = "idle",
             \A i \in 1..Len(cmds') :
                cmds'[i].op # "set" \/ \E j \in 1..Len(cmds) : cmds'[i] = cmds[j]
      PROVE  Commanded'
  BY <1>0, <1>b DEF Commanded
<1>1. ASSUME UNCHANGED <<cmds, pc, kind>> PROVE Commanded'
  BY <1>0, <1>1 DEF Commanded
<1>2. ASSUME LinkUp \/ Heartbeat \/ Silence \/ OnBridgeEvent \/ StartBroadcast \/ Poll
             \/ MonitorTold \/ FileEvent \/ UNCHANGED vars
      PROVE  Commanded'
  BY <1>1, <1>2 DEF LinkUp, Heartbeat, Silence, OnBridgeEvent, StartBroadcast, Poll,
                    MonitorTold, FileEvent
<1>3. ASSUME NEW c \in Clients,
             SendTo(c) \/ HelloConnect(c) \/ HelloState(c) \/ Leave(c) \/ EndpointEnds(c)
      PROVE  Commanded'
  BY <1>1, <1>3 DEF SendTo, HelloConnect, HelloState, Leave, EndpointEnds
<1>4. ASSUME LinkDown PROVE Commanded'
  BY <1>b, <1>4 DEF LinkDown
<1>5. ASSUME DeviceStep PROVE Commanded'
  <2>1. cmds # <<>> /\ cmds' = Tail(cmds)
    BY <1>5 DEF DeviceStep
  <2>2. /\ Len(cmds) \in Nat \ {0} /\ Len(cmds') = Len(cmds) - 1
        /\ \A i \in 1..Len(cmds') : cmds'[i] = cmds[i + 1]
    BY <1>0, <2>1, Removed DEF TypeOK
  <2>3. ASSUME NEW i \in 1..Len(cmds') PROVE \E j \in 1..Len(cmds) : cmds'[i] = cmds[j]
    <3>1. i + 1 \in 1..Len(cmds)
      BY <2>2
    <3> QED BY <2>2, <3>1
  <2> QED BY <1>b, <1>5, <2>3 DEF DeviceStep
<1>6. ASSUME NEW m \in Cmd, m.op # "set", cmds' \in {cmds, Append(cmds, m)}
      PROVE  \A i \in 1..Len(cmds') :
                cmds'[i].op # "set" \/ \E j \in 1..Len(cmds) : cmds'[i] = cmds[j]
  <2>1. CASE cmds' = cmds
    BY <2>1
  <2>2. CASE cmds' = Append(cmds, m)
    BY <1>0, <1>6, <2>2, Appended DEF TypeOK
  <2> QED BY <1>6, <2>1, <2>2
<1>7. ASSUME SyncSends PROVE Commanded'
  <2>1. [op |-> "sync", call |-> Nobody] \in Cmd
    BY DEF Cmd
  <2> QED BY <1>b, <1>6, <1>7, <2>1 DEF SyncSends
<1>8. ASSUME NEW x \in Requests,
             ThreadAnswered(x) \/ ThreadGivesUp(x) \/ Resume(x) \/ StatusAnswered(x)
             \/ StatusMissing(x)
      PROVE  Commanded'
  <2>1. UNCHANGED <<cmds, kind>> /\ pc[x] # "idle"
        /\ \E s \in CallState : pc' = [pc EXCEPT ![x] = s]
    <3>1. CASE Resume(x)
      <4>1. ready # <<>> /\ ready[1] = Wake(x)
        BY <1>0, <3>1, Removed DEF Resume, TypeOK
      <4>2. pc[x] \in {"ok", "failed"} /\ 1 \in 1..Len(ready)
        <5>1. 1 \in 1..Len(ready)
          BY <1>0, <4>1, Removed DEF TypeOK
        <5> QED BY <4>1, <5>1 DEF ViewInv, Wakes, Wake
      <4> QED BY <3>1, <4>2 DEF Resume, CallState
    <3>2. CASE ThreadAnswered(x) \/ ThreadGivesUp(x) \/ StatusAnswered(x) \/ StatusMissing(x)
      BY <3>2 DEF ThreadAnswered, ThreadGivesUp, StatusAnswered, StatusMissing, Returned, CallState
    <3> QED BY <1>8, <3>1, <3>2
  <2>2. \A r \in Requests : pc[r] = "idle" => pc'[r] = "idle"
    BY <1>0, <2>1 DEF TypeOK
  <2> QED BY <1>b, <2>1, <2>2
<1>9. ASSUME NEW x \in Requests, AskStatus(x) PROVE Commanded'
  <2>1. [op |-> "status", call |-> x] \in Cmd
    BY DEF Cmd
  <2>2. \A r \in Requests : pc[r] = "idle" => pc'[r] = "idle"
    BY <1>0, <1>9 DEF TypeOK, AskStatus
  <2>3. kind' = kind /\ cmds' \in {cmds, Append(cmds, [op |-> "status", call |-> x])}
    BY <1>9 DEF AskStatus
  <2> QED BY <1>b, <1>6, <2>1, <2>2, <2>3
<1>10. ASSUME NEW x \in Requests, NEW k \in Kinds \ {"idle"}, CallBridge(x, k), pc[x] = "idle"
       PROVE  Commanded'
  <2> DEFINE m == [op |-> Op(k), call |-> x]
  <2>1. /\ cmds' = Append(cmds, m) /\ pc' = [pc EXCEPT ![x] = "wait"]
        /\ kind' = [kind EXCEPT ![x] = k]
    BY <1>10 DEF CallBridge
  <2>2. m \in Cmd /\ (m.op = "set" => k \in {"set", "wsset"}) /\ m.call = x
    BY <1>10 DEF Cmd, Op, Kinds
  <2> HIDE DEF m
  <2>3. /\ kind'[x] = k /\ pc'[x] = "wait"
        /\ \A r \in Requests \ {x} : kind'[r] = kind[r] /\ pc'[r] = pc[r]
    BY <1>0, <2>1 DEF TypeOK
  <2>4. /\ Len(cmds') = Len(cmds) + 1 /\ cmds'[Len(cmds) + 1] = m
        /\ \A i \in 1..Len(cmds) : cmds'[i] = cmds[i]
    BY <1>0, <2>1, <2>2, Appended DEF TypeOK
  <2>5. ASSUME NEW i \in 1..Len(cmds'), cmds'[i].op = "set"
        PROVE  kind'[cmds'[i].call] \in {"set", "wsset"}
    <3>1. CASE i = Len(cmds) + 1
      BY <2>2, <2>3, <2>4, <2>5, <3>1
    <3>2. CASE i \in 1..Len(cmds)
      <4>1. cmds'[i] = cmds[i] /\ cmds[i] \in Cmd
        BY <1>a, <2>4, <3>2
      <4>2. cmds[i].call \in Requests /\ kind[cmds[i].call] \in {"set", "wsset"}
        BY <1>0, <2>5, <3>2, <4>1 DEF Commanded, Cmd
      <4>3. cmds[i].call # x
        <5>1. i \in Asked(cmds[i].call)
          BY <2>5, <3>2, <4>1 DEF Asked, Asks
        <5>2. pc[cmds[i].call] # "idle"
          BY <4>2, <5>1 DEF ViewInv, AtMostOnce
        <5> QED BY <1>10, <5>2
      <4> QED BY <2>3, <4>1, <4>2, <4>3
    <3> QED BY <1>a, <2>4, <3>1, <3>2
  <2>6. ASSUME NEW r \in Requests, kind'[r] = "idle" PROVE pc'[r] = "idle"
    BY <1>0, <1>10, <2>3, <2>6 DEF Commanded
  <2> QED BY <2>5, <2>6 DEF Commanded
<1>11. ASSUME NEW x \in Requests, WsCommand(x) \/ RestRequest(x) PROVE Commanded'
  BY <1>10, <1>11, MenuKinds DEF WsCommand, RestRequest
<1> QED
  BY <1>2, <1>3, <1>4, <1>5, <1>7, <1>8, <1>9, <1>11
     DEF Next, Device, Handler, Thread, Endpoint, Request, Rest

LEMMA InHandStep == ViewInv /\ [Next]_vars => InHand'
<1> SUFFICES ASSUME ViewInv, [Next]_vars PROVE InHand'
  OBVIOUS
<1>0. TypeOK /\ InHand
  BY DEF ViewInv
<1>1. CASE handling' = handling \/ handling' = <<>>
  BY <1>0, <1>1 DEF InHand
<1>2. CASE FileEvent
  <2>1. Head(events) \in Evt
    BY <1>0, <1>2, Removed DEF FileEvent, TypeOK
  <2> QED BY <1>2, <2>1 DEF FileEvent, InHand, Reading
<1>3. FileEvent \/ handling' = handling \/ handling' = <<>>
  BY DEF Next, Device, Handler, Thread, Endpoint, Request, Rest, vars, deviceVars, handlerVars,
         LinkUp, LinkDown, DeviceStep, Heartbeat, Silence, OnBridgeEvent, StartBroadcast, Poll,
         MonitorTold, SyncSends, SendTo, HelloConnect, HelloState, Leave, EndpointEnds,
         WsCommand, RestRequest, CallBridge, ThreadAnswered, ThreadGivesUp, Resume, AskStatus,
         StatusAnswered, StatusMissing
<1> QED BY <1>1, <1>2, <1>3

LEMMA LinklessStep == ViewInv /\ [Next]_vars => Linkless'
<1> SUFFICES ASSUME ViewInv, [Next]_vars PROVE Linkless'
  OBVIOUS
<1> USE DEF vars, deviceVars, handlerVars, clientVars, socketVars
<1>0. TypeOK /\ Linkless
  BY DEF ViewInv
<1>1. ASSUME UNCHANGED <<link, cmds>>, gap => gap' PROVE Linkless'
  BY <1>0, <1>1 DEF Linkless
<1>2. ASSUME Heartbeat \/ Silence \/ FileEvent \/ OnBridgeEvent \/ StartBroadcast \/ Poll
             \/ MonitorTold \/ UNCHANGED vars
      PROVE  Linkless'
  BY <1>1, <1>2 DEF Heartbeat, Silence, FileEvent, OnBridgeEvent, StartBroadcast, Poll, MonitorTold
<1>3. ASSUME NEW c \in Clients,
             SendTo(c) \/ HelloConnect(c) \/ HelloState(c) \/ Leave(c) \/ EndpointEnds(c)
      PROVE  Linkless'
  BY <1>1, <1>3 DEF SendTo, HelloConnect, HelloState, Leave, EndpointEnds
<1>4. ASSUME LinkUp \/ LinkDown PROVE Linkless'
  BY <1>4 DEF LinkUp, LinkDown, Linkless
<1>5. ASSUME DeviceStep PROVE Linkless'
  BY <1>0, <1>5 DEF DeviceStep, Linkless
<1>6. ASSUME SyncSends PROVE Linkless'
  BY <1>0, <1>6 DEF SyncSends, Linkless
<1>7. ASSUME NEW r \in Requests, ThreadAnswered(r) \/ ThreadGivesUp(r) \/ Resume(r)
                                 \/ StatusAnswered(r) \/ StatusMissing(r)
      PROVE  Linkless'
  <2>1. UNCHANGED <<link, cmds>>
    BY <1>7 DEF ThreadAnswered, ThreadGivesUp, Resume, StatusAnswered, StatusMissing
  <2>2. gap => gap'
    BY <1>7, Zenon DEF ThreadAnswered, ThreadGivesUp, Resume, StatusAnswered, StatusMissing
  <2> QED BY <1>1, <2>1, <2>2
<1>8. ASSUME NEW r \in Requests, AskStatus(r) PROVE Linkless'
  BY <1>0, <1>8 DEF AskStatus, Linkless
<1>9. ASSUME NEW r \in Requests, WsCommand(r) \/ RestRequest(r) PROVE Linkless'
  BY <1>0, <1>9 DEF WsCommand, RestRequest, CallBridge, Linkless
<1> QED
  BY <1>2, <1>3, <1>4, <1>5, <1>6, <1>7, <1>8, <1>9
     DEF Next, Device, Handler, Thread, Endpoint, Request, Rest

\* What is handed to the loop: one more at the end, or the first one taken.
LEMMA WakesMore ==
    ASSUME TypeOK, Wakes, NEW h \in Handed, ready' = Append(ready, h),
           \A i \in 1..Len(ready) :
              ready[i].what = "wake" => pc'[ready[i].call] = pc[ready[i].call],
           h.what = "wake" => /\ h.call \in Requests /\ pc'[h.call] \in {"ok", "failed"}
                              /\ pc[h.call] \notin {"ok", "failed"}
    PROVE  Wakes'
<1>1. /\ Len(ready) \in Nat /\ Len(ready') = Len(ready) + 1 /\ ready'[Len(ready) + 1] = h
      /\ \A i \in 1..Len(ready) : ready'[i] = ready[i]
  BY Appended DEF TypeOK
<1>2. ASSUME NEW i \in 1..Len(ready'), ready'[i].what = "wake"
      PROVE  ready'[i].call \in Requests /\ pc'[ready'[i].call] \in {"ok", "failed"}
  <2>1. CASE i \in 1..Len(ready)
    BY <1>1, <1>2, <2>1 DEF Wakes
  <2>2. CASE i = Len(ready) + 1
    BY <1>1, <1>2, <2>2
  <2> QED BY <1>1, <2>1, <2>2
<1>3. ASSUME NEW i \in 1..Len(ready'), NEW j \in 1..Len(ready'), i # j,
             ready'[i].what = "wake", ready'[j].what = "wake", ready'[i].call = ready'[j].call
      PROVE  FALSE
  <2>1. CASE i \in 1..Len(ready) /\ j \in 1..Len(ready)
    BY <1>1, <1>3, <2>1 DEF Wakes
  <2>2. CASE i = Len(ready) + 1
    BY <1>1, <1>3, <2>2 DEF Wakes
  <2>3. CASE j = Len(ready) + 1
    BY <1>1, <1>3, <2>3 DEF Wakes
  <2> QED BY <1>1, <2>1, <2>2, <2>3
<1> QED BY <1>2, <1>3 DEF Wakes

LEMMA WakesLess ==
    ASSUME TypeOK, Wakes, ready # <<>>, ready' = Tail(ready),
           \A i \in 2..Len(ready) :
              ready[i].what = "wake" => pc'[ready[i].call] = pc[ready[i].call]
    PROVE  Wakes'
<1>1. /\ Len(ready) \in Nat \ {0} /\ Len(ready') = Len(ready) - 1
      /\ \A i \in 1..Len(ready') : ready'[i] = ready[i + 1]
  BY Removed DEF TypeOK
<1>2. \A i \in 1..Len(ready') : i + 1 \in 2..Len(ready) /\ i + 1 \in 1..Len(ready)
  BY <1>1
<1>3. ASSUME NEW i \in 1..Len(ready'), ready'[i].what = "wake"
      PROVE  ready'[i].call \in Requests /\ pc'[ready'[i].call] \in {"ok", "failed"}
  BY <1>1, <1>2, <1>3 DEF Wakes
<1>4. ASSUME NEW i \in 1..Len(ready'), NEW j \in 1..Len(ready'),
             ready'[i].what = "wake", ready'[j].what = "wake", ready'[i].call = ready'[j].call
      PROVE  i = j
  <2>1. ready[i + 1] = ready'[i] /\ ready[j + 1] = ready'[j]
    BY <1>1
  <2>2. i + 1 = j + 1
    BY <1>2, <1>4, <2>1 DEF Wakes
  <2> QED BY <2>2
<1> QED BY <1>3, <1>4 DEF Wakes

\* The wake-up that is taken is the only one of its call.
LEMMA Woken ==
    ASSUME TypeOK, Wakes, NEW r \in Requests, Resume(r)
    PROVE  /\ ready # <<>> /\ ready' = Tail(ready) /\ pc[r] \in {"ok", "failed"}
           /\ Len(ready) \in Nat \ {0} /\ ready[1] = Wake(r)
           /\ \A i \in 2..Len(ready) : ready[i].what = "wake" => ready[i].call # r
<1>1. ready # <<>> /\ ready' = Tail(ready) /\ ready[1] = Wake(r) /\ Len(ready) \in Nat \ {0}
  BY Removed DEF Resume, TypeOK
<1>2. 1 \in 1..Len(ready) /\ ready[1].what = "wake" /\ ready[1].call = r
  BY <1>1 DEF Wake
<1>3. \A i \in 2..Len(ready) : i \in 1..Len(ready) /\ i # 1
  BY <1>1
<1> QED BY <1>1, <1>2, <1>3 DEF Wakes

LEMMA WakesStep == ViewInv /\ [Next]_vars => Wakes'
<1> SUFFICES ASSUME ViewInv, [Next]_vars PROVE Wakes'
  OBVIOUS
<1> USE DEF vars, deviceVars, handlerVars, clientVars, socketVars
<1>0. TypeOK /\ Wakes
  BY DEF ViewInv
<1>a. \A i \in 1..Len(ready) : ready[i].what = "wake" => /\ ready[i].call \in Requests
                                                         /\ pc[ready[i].call] \in {"ok", "failed"}
  BY <1>0 DEF Wakes
<1>b. ASSUME ready' = ready, NEW r \in Requests, pc[r] \notin {"ok", "failed"},
             NEW s, pc' = [pc EXCEPT ![r] = s]
      PROVE  Wakes'
  <2>1. \A x \in Requests : pc[x] \in {"ok", "failed"} => pc'[x] = pc[x]
    BY <1>0, <1>b DEF TypeOK
  <2> QED BY <1>0, <1>b, <2>1 DEF Wakes
<1>1. ASSUME UNCHANGED <<ready, pc>> PROVE Wakes'
  BY <1>0, <1>1 DEF Wakes
<1>2. ASSUME LinkUp \/ LinkDown \/ DeviceStep \/ Heartbeat \/ Silence \/ FileEvent \/ Poll
             \/ MonitorTold \/ SyncSends \/ UNCHANGED vars
      PROVE  Wakes'
  BY <1>1, <1>2 DEF LinkUp, LinkDown, DeviceStep, Heartbeat, Silence, FileEvent, Poll,
                    MonitorTold, SyncSends
<1>3. ASSUME NEW c \in Clients,
             SendTo(c) \/ HelloConnect(c) \/ HelloState(c) \/ Leave(c) \/ EndpointEnds(c)
      PROVE  Wakes'
  BY <1>1, <1>3 DEF SendTo, HelloConnect, HelloState, Leave, EndpointEnds
<1>4. ASSUME OnBridgeEvent PROVE Wakes'
  <2> DEFINE h == Start(Told(handling[1].level))
  <2>1. h \in Handed /\ h.what = "start"
    <3>1. handling[1] \in Evt
      <4>1. handling # <<>>
        BY <1>4 DEF OnBridgeEvent
      <4> QED BY <4>1 DEF ViewInv, InHand
    <3>2. handling[1].level \in Level
      BY <3>1 DEF Evt
    <3> QED BY <3>2, PlatformAssumption, Messages DEF Start
  <2>2. ready' \in {ready, Append(ready, h)} /\ pc' = pc
    BY <1>4 DEF OnBridgeEvent
  <2> HIDE DEF h
  <2> QED BY <1>0, <1>1, <2>1, <2>2, WakesMore
<1>5. ASSUME StartBroadcast PROVE Wakes'
  BY <1>0, <1>5, WakesLess DEF StartBroadcast
<1>6. ASSUME NEW r \in Requests, ThreadAnswered(r) \/ ThreadGivesUp(r) PROVE Wakes'
  <2>1. /\ pc[r] = "wait" /\ ready' = Append(ready, Wake(r))
        /\ \E s \in {"ok", "failed"} : pc' = [pc EXCEPT ![r] = s]
    BY <1>6 DEF ThreadAnswered, ThreadGivesUp, Returned
  <2>2. Wake(r) \in Handed /\ Wake(r).call = r
    BY PlatformAssumption, Messages DEF Wake
  <2>3. pc'[r] \in {"ok", "failed"} /\ \A x \in Requests \ {r} : pc'[x] = pc[x]
    BY <1>0, <2>1 DEF TypeOK
  <2>4. \A i \in 1..Len(ready) : ready[i].what = "wake" => pc'[ready[i].call] = pc[ready[i].call]
    BY <1>a, <2>1, <2>3
  <2> QED BY <1>0, <2>1, <2>2, <2>3, <2>4, WakesMore
<1>7. ASSUME NEW r \in Requests, Resume(r) PROVE Wakes'
  <2>1. /\ ready # <<>> /\ ready' = Tail(ready) /\ Len(ready) \in Nat
        /\ \A i \in 2..Len(ready) : ready[i].what = "wake" => ready[i].call # r
    BY <1>0, <1>7, Woken
  <2>2. \E s \in {"tell", "done"} : pc' = [pc EXCEPT ![r] = s]
    BY <1>7 DEF Resume
  <2>3. \A i \in 2..Len(ready) : ready[i].what = "wake" => pc'[ready[i].call] = pc[ready[i].call]
    <3>1. \A x \in Requests \ {r} : pc'[x] = pc[x]
      BY <1>0, <2>2 DEF TypeOK
    <3>2. \A i \in 2..Len(ready) : i \in 1..Len(ready)
      BY <2>1
    <3> QED BY <1>a, <2>1, <3>1, <3>2
  <2> QED BY <1>0, <2>1, <2>3, WakesLess
<1>8. ASSUME NEW r \in Requests, AskStatus(r) \/ StatusAnswered(r) \/ StatusMissing(r) PROVE Wakes'
  <2>1. /\ ready' = ready /\ pc[r] \in {"tell", "status"}
        /\ \E s \in {"status", "done"} : pc' = [pc EXCEPT ![r] = s]
    BY <1>8 DEF AskStatus, StatusAnswered, StatusMissing
  <2> QED BY <1>b, <2>1
<1>9. ASSUME NEW r \in Requests, WsCommand(r) \/ RestRequest(r) PROVE Wakes'
  <2>1. ready' = ready /\ pc[r] = "idle" /\ pc' = [pc EXCEPT ![r] = "wait"]
    BY <1>9 DEF WsCommand, RestRequest, CallBridge
  <2> QED BY <1>b, <2>1
<1> QED
  BY <1>2, <1>3, <1>4, <1>5, <1>6, <1>7, <1>8, <1>9
     DEF Next, Device, Handler, Thread, Endpoint, Request, Rest

LEMMA NoNone == None \notin Level /\ Nobody \notin Requests
BY PlatformAssumption DEF PlatformAssumption

\* Steps of the loop and of the clients that leave the events and the calls alone.
LEMMA ClientsKept ==
    ASSUME TypeOK, Fresh,
           UNCHANGED <<pin, cmds, events, handling, answer, filed, cache, ready, pc, kind>>,
           \/ SyncComing'
           \/ /\ syncs' = syncs
              /\ \A c \in Serving' : c \in Serving /\ (Shown(c) => Shown(c)')
    PROVE  Fresh'
<1>1. /\ \A i : /\ AckBehind(i)' = AckBehind(i) /\ NewsBehind(i)' = NewsBehind(i)
                /\ StartBehind(i)' = StartBehind(i) /\ WakeBehind(i)' = WakeBehind(i)
      /\ NewsInHand' = NewsInHand /\ Answered' = Answered
  BY DEF AckBehind, NewsBehind, StartBehind, WakeBehind, NewsInHand, Answered, Setting, Announced
<1>2. News' = News /\ Unfinished' = Unfinished
  BY <1>1 DEF News, Unfinished, Setting
<1>3. EventsFresh' /\ HandlingFresh' /\ ReadyFresh'
  BY <1>1 DEF Fresh, EventsFresh, HandlingFresh, ReadyFresh, Reading
<1>4. FiledFresh' /\ CacheFresh'
  BY <1>2 DEF Fresh, FiledFresh, CacheFresh, Reading, StatusComing
<1>5. ViewsFresh'
  BY <1>2 DEF Fresh, ViewsFresh, SyncComing
<1> QED BY <1>3, <1>4, <1>5 DEF Fresh

LEMMA ShownSent ==
    ASSUME ViewInv, NEW d \in Clients, SendTo(d), NEW c \in Serving'
    PROVE  c \in Serving /\ (Shown(c) => Shown(c)')
<1> DEFINE q == outbox[d]
<1>1. /\ q \in Seq(Entry) /\ q # <<>> /\ outbox' = [outbox EXCEPT ![d] = Tail(q)]
      /\ UNCHANGED <<hello, open, pin>> /\ clients' \subseteq clients
      /\ outbox \in [Clients -> Seq(Entry)] /\ toldLevel \in [Clients -> Level \union {None}]
  BY DEF ViewInv, TypeOK, SendTo, deviceVars
<1>2. c \in Serving /\ (c = d => open[d]) /\ c \in Clients
  BY <1>1 DEF Serving, SendTo, ViewInv, TypeOK
<1>3. CASE c # d
  <2>1. outbox'[c] = outbox[c]
    BY <1>1, <1>3
  <2>2. toldLevel'[c] = toldLevel[c]
    <3>1. toldLevel' \in {toldLevel, [toldLevel EXCEPT ![d] = Head(q).msg.value]}
      BY DEF SendTo, clientVars
    <3> QED BY <1>1, <1>2, <1>3, <3>1
  <2> QED BY <1>1, <1>2, <2>1, <2>2 DEF Shown
<1>4. CASE c = d
  <2>1. outbox'[c] = Tail(q)
    BY <1>1, <1>4
  <2>2. toldLevel'[c] = IF On(Head(q), "level") THEN Head(q).msg.value ELSE toldLevel[c]
    BY <1>1, <1>2, <1>4 DEF SendTo, On
  <2>3. ASSUME Shown(c) PROVE Shown(c)'
    <3>1. LastIs(q, "level", pin) /\ (Nothing(q, "level") => toldLevel[c] = pin)
      BY <1>4, <2>3 DEF Shown
    <3>2. LastIs(Tail(q), "level", pin)
      BY <1>1, <3>1, TailLast
    <3>3. ASSUME Nothing(Tail(q), "level") PROVE toldLevel'[c] = pin
      <4>1. CASE On(Head(q), "level")
        BY <1>1, <2>2, <3>1, <3>3, <4>1, TailLast
      <4>2. CASE ~On(Head(q), "level")
        BY <1>1, <2>2, <3>1, <3>3, <4>2, TailLast
      <4> QED BY <4>1, <4>2
    <3> QED BY <1>1, <2>1, <3>2, <3>3 DEF Shown
  <2> QED BY <1>2, <2>3
<1> QED BY <1>3, <1>4

LEMMA ClientSteps ==
    ASSUME ViewInv, ~gap',
           \/ LinkUp \/ Heartbeat \/ Silence \/ Poll \/ MonitorTold \/ UNCHANGED vars
           \/ \E c \in Clients : SendTo(c) \/ HelloConnect(c) \/ HelloState(c) \/ Leave(c)
                                 \/ EndpointEnds(c)
    PROVE  Fresh'
<1> USE DEF vars, deviceVars, handlerVars, clientVars, socketVars
<1>0. TypeOK /\ Linkless
  BY DEF ViewInv
<1>1. ~gap /\ UNCHANGED <<pin, cmds, events, handling, answer, filed, cache, ready, pc, kind>>
  BY DEF LinkUp, Heartbeat, Silence, Poll, MonitorTold, SendTo, HelloConnect, HelloState, Leave,
         EndpointEnds
<1>2. Fresh
  BY <1>1 DEF ViewInv
<1>3. ASSUME LinkUp \/ Heartbeat \/ Silence \/ UNCHANGED vars PROVE Fresh'
  <2>1. UNCHANGED <<syncs, clients, hello, open, outbox, toldLevel>>
    BY <1>3 DEF LinkUp, Heartbeat, Silence
  <2>2. \A c \in Serving' : c \in Serving /\ (Shown(c) => Shown(c)')
    BY <1>1, <2>1 DEF Serving, Shown
  <2> QED BY <1>0, <1>1, <1>2, <2>1, <2>2, ClientsKept
<1>4. ASSUME Poll PROVE Fresh'
  <2>1. UNCHANGED <<syncs, clients, hello, open, toldLevel>>
    BY <1>4 DEF Poll
  <2>2. was' \in BOOLEAN /\ outbox' = Broadcasting(Linked(was'), "monitor")
    BY <1>0, <1>4 DEF Poll, TypeOK
  <2> DEFINE e == [msg |-> Linked(was'), owner |-> "monitor"]
  <2>3. e \in Entry /\ Linked(was') \in Msg /\ ~On(e, "level")
    BY <2>2 DEF Entry, Msg, Linked, On, Owner
  <2>4. \A c \in Clients : outbox'[c] = IF c \in clients THEN Append(outbox[c], e) ELSE outbox[c]
    BY <1>0, <2>2, <2>3, BroadcastingAppends DEF Owner, TypeOK
  <2> HIDE DEF e
  <2>5. ASSUME NEW c \in Serving' PROVE c \in Serving /\ (Shown(c) => Shown(c)')
    <3>1. c \in Serving /\ c \in Clients /\ outbox[c] \in Seq(Entry)
      BY <1>0, <2>1 DEF Serving, TypeOK
    <3>2. outbox'[c] \in {outbox[c], Append(outbox[c], e)}
      BY <2>4, <3>1
    <3>3. /\ Nothing(outbox'[c], "level") => Nothing(outbox[c], "level")
          /\ LastIs(outbox[c], "level", pin) => LastIs(outbox'[c], "level", pin)
      BY <2>3, <3>1, <3>2, AppendOther
    <3> QED BY <1>1, <2>1, <3>1, <3>3 DEF Shown
  <2> QED BY <1>0, <1>1, <1>2, <2>1, <2>5, ClientsKept
<1>5. ASSUME MonitorTold PROVE Fresh'
  <2>1. UNCHANGED <<clients, hello, open, outbox, toldLevel>>
    BY <1>5 DEF MonitorTold
  <2>2. \A c \in Serving' : c \in Serving /\ (Shown(c) => Shown(c)')
    BY <1>1, <2>1 DEF Serving, Shown
  <2>3. syncs \in Nat /\ (syncs' = syncs \/ syncs' = syncs + 1)
    BY <1>0, <1>5, PlatformAssumption DEF MonitorTold, Spawned, TypeOK, PlatformAssumption
  <2>4. syncs' = syncs \/ SyncComing'
    BY <2>3 DEF SyncComing
  <2> QED BY <1>0, <1>1, <1>2, <2>2, <2>4, ClientsKept
<1>6. ASSUME NEW d \in Clients, SendTo(d) PROVE Fresh'
  <2>1. syncs' = syncs
    BY <1>6 DEF SendTo
  <2> QED BY <1>0, <1>1, <1>2, <1>6, <2>1, ShownSent, ClientsKept
<1>7. ASSUME NEW d \in Clients, HelloConnect(d) \/ Leave(d) \/ EndpointEnds(d) PROVE Fresh'
  <2>1. /\ syncs' = syncs /\ outbox' = outbox /\ d \notin Serving'
        /\ \A c \in Clients \ {d} : /\ c \in clients' <=> c \in clients
                                    /\ UNCHANGED <<hello[c], open[c], toldLevel[c]>>
    BY <1>0, <1>7 DEF HelloConnect, Leave, EndpointEnds, Serving, TypeOK
  <2>2. Serving' \subseteq Clients
    BY <1>0, <1>7 DEF HelloConnect, Leave, EndpointEnds, Serving, TypeOK
  <2>3. \A c \in Serving' : c \in Serving /\ (Shown(c) => Shown(c)')
    BY <1>1, <2>1, <2>2 DEF Serving, Shown
  <2> QED BY <1>0, <1>1, <1>2, <2>1, <2>3, ClientsKept
<1>8. ASSUME NEW d \in Clients, HelloState(d) PROVE Fresh'
  <2>1. link /\ syncs \in Nat
    BY <1>0, <1>1, PlatformAssumption DEF Linkless, TypeOK, PlatformAssumption
  <2>2. CASE open[d] \/ cache = None
    <3>1. SyncComing'
      BY <1>8, <2>1, <2>2 DEF HelloState, Spawned, SyncComing
    <3> QED BY <1>0, <1>1, <1>2, <3>1, ClientsKept
  <2>3. CASE ~(open[d] \/ cache = None)
    <3>1. /\ hello' = [hello EXCEPT ![d] = "gone"]
          /\ UNCHANGED <<syncs, clients, open, outbox, toldLevel>>
      BY <1>8, <2>3 DEF HelloState
    <3>2. \A c \in Serving' : c \in Serving /\ (Shown(c) => Shown(c)')
      BY <1>0, <1>1, <3>1 DEF Serving, Shown, TypeOK
    <3> QED BY <1>0, <1>1, <1>2, <3>1, <3>2, ClientsKept
  <2> QED BY <2>2, <2>3
<1> QED BY <1>3, <1>4, <1>5, <1>6, <1>7, <1>8

\* What a step of a call leaves of what is behind a place of the events.
LEMMA BehindKept ==
    ASSUME events' = events,
           \A j \in 1..Len(events) :
              events[j].kind = "ack" /\ Setting(events[j].call, "wait")
              => Setting(events[j].call, "wait")'
    PROVE  \A i : (AckBehind(i) => AckBehind(i)') /\ NewsBehind(i)' = NewsBehind(i)
BY DEF AckBehind, NewsBehind, Announced

\* The device executes a command (main.c).
LEMMA DeviceFresh ==
    ASSUME ViewInv, DeviceStep, ~gap'
    PROVE  Fresh'
<1> DEFINE m == cmds[1]
           n == Len(events) + 1
<1>0. TypeOK /\ Commanded /\ InHand
  BY DEF ViewInv
<1>1. PICK e \in Evt : /\ events' = Append(events, e) /\ e.call = m.call
                       /\ e.kind = "ack" <=> m.op = "set"
                       /\ e.kind = "value" <=> m.op = "get"
                       /\ e.kind = "status" <=> m.op = "status"
                       /\ e.kind = "snapshot" <=> m.op = "sync"
                       /\ Reading(e) => e.level = pin /\ pin' = pin
  BY <1>0, Executed
<1>2. /\ cmds # <<>> /\ cmds' = Tail(cmds) /\ m \in Cmd
      /\ m.op # "sync" => ~gap
      /\ m.op = "set" => kind[m.call] # "wsset" /\ pc[m.call] = "wait"
  BY <1>0, Executed
<1>3. UNCHANGED <<handling, answer, filed, cache, ready, pc, kind, syncs, clients, hello, open,
                  outbox, toldLevel>>
  BY DEF DeviceStep, handlerVars, socketVars, clientVars
<1>4. /\ n \in Nat /\ Len(events') = n /\ events'[n] = e
      /\ \A i \in 1..Len(events) : events'[i] = events[i]
      /\ n \in 1..Len(events') /\ Len(events) \in Nat
      /\ \A i \in 1..Len(events') : i \in 1..Len(events) \/ i = n
      /\ \A i \in 1..Len(events) : i \in 1..Len(events')
      /\ \A i \in 0..Len(events) : n > i
  <2>1. /\ Len(events) \in Nat /\ Len(events') = n /\ events'[n] = e
        /\ \A i \in 1..Len(events) : events'[i] = events[i]
    BY <1>0, <1>1, Appended DEF TypeOK
  <2> QED BY <2>1
<1> HIDE DEF n
<1>5. /\ Len(cmds) \in Nat \ {0} /\ Len(cmds') = Len(cmds) - 1
      /\ \A i \in 2..Len(cmds) : cmds'[i - 1] = cmds[i]
      /\ \A i \in 1..Len(cmds) : i = 1 \/ i \in 2..Len(cmds)
      /\ \A i \in 2..Len(cmds) : i - 1 \in 1..Len(cmds')
  BY <1>0, <1>2, Removed DEF TypeOK
<1> HIDE DEF m
<1>6. \A i : (AckBehind(i) => AckBehind(i)') /\ (NewsBehind(i) => NewsBehind(i)')
  BY <1>3, <1>4 DEF AckBehind, NewsBehind, Announced, Setting
<1>7. UNCHANGED <<NewsInHand, Answered>>
      /\ \A i : UNCHANGED <<StartBehind(i), WakeBehind(i)>>
  BY <1>3 DEF NewsInHand, Answered, StartBehind, WakeBehind, Setting, Announced
<1>8. CASE Announced(e)
  <2>1. \A i \in 0..Len(events) : NewsBehind(i)'
    BY <1>4, <1>8 DEF NewsBehind
  <2>2. EventsFresh'
    BY <1>1, <1>4, <2>1 DEF EventsFresh
  <2>3. NewsBehind(0)' /\ News'
    BY <1>4, <2>1 DEF News
  <2>4. CacheFresh'
    BY <1>4, <1>8 DEF CacheFresh, Reading, Announced
  <2> QED BY <2>2, <2>3, <2>4 DEF Fresh, HandlingFresh, ReadyFresh, FiledFresh, ViewsFresh
<1>9. CASE m.op = "status"
  <2>1. Reading(e) /\ pin' = pin /\ e.level = pin /\ e.kind = "status"
    BY <1>1, <1>9 DEF Reading
  <2>2. Fresh
    BY <1>2, <1>9 DEF ViewInv
  <2>3. EventsFresh'
    BY <1>4, <1>6, <2>1, <2>2 DEF Fresh, EventsFresh
  <2>4. HandlingFresh'
    BY <1>3, <1>6, <2>1, <2>2 DEF Fresh, HandlingFresh
  <2>5. ReadyFresh'
    BY <1>3, <1>6, <1>7, <2>1, <2>2 DEF Fresh, ReadyFresh
  <2>6. (News => News') /\ (Unfinished => Unfinished')
    BY <1>3, <1>6, <1>7 DEF News, Unfinished, Setting
  <2>7. \A r \in Requests : StatusComing(r) => StatusComing(r)'
    <3> SUFFICES ASSUME NEW r \in Requests, StatusComing(r) PROVE StatusComing(r)'
      OBVIOUS
    <3>1. CASE \E i \in 1..Len(events) : events[i].kind = "status" /\ events[i].call = r
      BY <1>4, <3>1 DEF StatusComing
    <3>2. CASE m = [op |-> "status", call |-> r]
      BY <1>1, <1>4, <2>1, <3>2 DEF StatusComing
    <3>3. CASE \E i \in 2..Len(cmds) : cmds[i] = [op |-> "status", call |-> r]
      BY <1>5, <3>3 DEF StatusComing
    <3> QED BY <1>5, <3>1, <3>2, <3>3 DEF StatusComing, m
  <2>8. FiledFresh'
    BY <1>3, <2>1, <2>2, <2>6, <2>7 DEF Fresh, FiledFresh
  <2>9. CacheFresh'
    BY <1>4, <2>1 DEF CacheFresh
  <2>10. ViewsFresh'
    <3>1. SyncComing => SyncComing'
      BY <1>3, <1>5, <1>9 DEF SyncComing, m
    <3>2. Serving' = Serving /\ \A c \in Serving : Shown(c)' = Shown(c)
      BY <1>3, <2>1 DEF Serving, Shown
    <3> QED BY <1>3, <2>2, <2>6, <3>1, <3>2 DEF Fresh, ViewsFresh
  <2> QED BY <2>3, <2>4, <2>5, <2>8, <2>9, <2>10 DEF Fresh
<1>10. CASE m.op = "set"
  <2>1. e.kind = "ack" /\ e.call = m.call
    BY <1>1, <1>10
  <2>2. Setting(e.call, "wait")'
    <3>1. 1 \in 1..Len(cmds)
      BY <1>5
    <3>2. kind[m.call] \in {"set", "wsset"}
      BY <1>0, <1>10, <3>1 DEF Commanded, m
    <3> QED BY <1>2, <1>3, <1>10, <2>1, <3>2 DEF Setting
  <2>3. \A i \in 0..Len(events) : AckBehind(i)'
    BY <1>4, <2>1, <2>2 DEF AckBehind
  <2>4. EventsFresh'
    BY <1>4, <2>1, <2>3 DEF EventsFresh, Reading
  <2>5. AckBehind(0)' /\ Unfinished'
    BY <1>4, <2>3 DEF Unfinished
  <2> QED
    BY <2>4, <2>5 DEF Fresh, HandlingFresh, ReadyFresh, FiledFresh, CacheFresh, ViewsFresh
<1> QED BY <1>1, <1>2, <1>8, <1>9, <1>10 DEF Cmd, Announced

\* The handler thread files an event (event_handler.py handle_event).
LEMMA FileFresh ==
    ASSUME ViewInv, FileEvent, ~gap'
    PROVE  Fresh'
<1> DEFINE e == events[1]
<1>0. TypeOK /\ AtMostOnce
  BY DEF ViewInv
<1>1. /\ handling = <<>> /\ events # <<>> /\ events' = Tail(events) /\ Head(events) = e /\ e \in Evt
      /\ Len(events) \in Nat \ {0} /\ Len(events') = Len(events) - 1
      /\ \A i \in 1..Len(events') : events'[i] = events[i + 1]
      /\ \A i \in 2..Len(events) : events'[i - 1] = events[i]
  BY <1>0, Removed DEF FileEvent, TypeOK
<1>2. /\ \A i \in 1..Len(events') : i + 1 \in 1..Len(events)
      /\ \A i \in 2..Len(events) : i - 1 \in 1..Len(events')
      /\ \A i \in 1..Len(events) : i = 1 \/ i \in 2..Len(events)
      /\ 1 \in 1..Len(events)
  BY <1>1
<1>3. /\ UNCHANGED <<pin, cmds, cache, ready, blocked, pc, kind, syncs, clients, hello, open,
                     outbox, toldLevel>>
      /\ ~gap
  BY DEF FileEvent, handlerVars, socketVars, clientVars
<1>4. /\ answer' = IF e.kind \in {"ack", "value"} /\ pc[e.call] = "wait"
                   THEN [answer EXCEPT ![e.call] = e.level] ELSE answer
      /\ filed' = IF e.kind \in {"status", "snapshot"} /\ filed = None /\ ~LoopFree
                  THEN e.level ELSE filed
      /\ handling' = IF e.kind = "ack" THEN <<>> ELSE <<e>>
  BY <1>1 DEF FileEvent
<1>5. e.level \in Level /\ (e.kind = "ack" => e.call \in Requests)
  BY <1>1 DEF Evt
<1> HIDE DEF e
<1>6. EventsFresh /\ ReadyFresh /\ FiledFresh /\ CacheFresh /\ ViewsFresh
  BY <1>3 DEF ViewInv, Fresh
<1>7. \A i \in Nat : /\ AckBehind(i + 1) => AckBehind(i)'
                     /\ NewsBehind(i + 1) => NewsBehind(i)'
  <2> TAKE i \in Nat
  <2>1. ASSUME NEW j \in 1..Len(events), j > i + 1
        PROVE  j - 1 \in 1..Len(events') /\ j - 1 > i /\ events'[j - 1] = events[j]
    BY <1>1, <1>2, <2>1
  <2> QED BY <1>3, <2>1 DEF AckBehind, NewsBehind, Announced, Setting
<1>8. Reading(e) => e.level = pin \/ NewsBehind(0)' \/ AckBehind(0)'
  <2>1. Reading(e) => e.level = pin \/ NewsBehind(1) \/ AckBehind(1)
    BY <1>2, <1>6 DEF EventsFresh, e
  <2>2. 0 \in Nat /\ 0 + 1 = 1
    OBVIOUS
  <2> QED BY <1>7, <2>1, <2>2
<1>9. Announced(e) => NewsInHand'
  BY <1>4 DEF Announced, NewsInHand
<1>10. NewsBehind(0) => NewsBehind(0)' \/ NewsInHand'
  <2>1. ASSUME NEW j \in 2..Len(events), Announced(events[j]) PROVE NewsBehind(0)'
    <3>1. j - 1 \in 1..Len(events') /\ j - 1 > 0 /\ events'[j - 1] = events[j]
      BY <1>1, <1>2, <2>1
    <3> QED BY <2>1, <3>1 DEF NewsBehind, Announced
  <2> QED BY <1>2, <1>9, <2>1 DEF NewsBehind, e
<1>11. \A r \in Requests : answer[r] # None => answer'[r] # None
  BY <1>0, <1>4, <1>5, NoNone DEF TypeOK
<1>12. Answered => Answered'
  BY <1>3, <1>11 DEF Answered, Setting
<1>13. AckBehind(0) => AckBehind(0)' \/ Answered'
  <2>1. ASSUME NEW j \in 2..Len(events), events[j].kind = "ack", Setting(events[j].call, "wait")
        PROVE  AckBehind(0)'
    <3>1. j - 1 \in 1..Len(events') /\ j - 1 > 0 /\ events'[j - 1] = events[j]
      BY <1>1, <1>2, <2>1
    <3> QED BY <1>3, <2>1, <3>1 DEF AckBehind, Setting
  <2>2. ASSUME e.kind = "ack", Setting(e.call, "wait") PROVE Answered'
    <3>1. answer'[e.call] = e.level
      BY <1>0, <1>4, <1>5, <2>2 DEF Setting, TypeOK
    <3> QED BY <1>3, <1>5, <2>2, <3>1, NoNone DEF Answered, Setting
  <2> QED BY <1>2, <2>1, <2>2 DEF AckBehind, e
<1>14. \A i : StartBehind(i)' = StartBehind(i) /\ WakeBehind(i)' = WakeBehind(i)
  BY <1>3 DEF StartBehind, WakeBehind, Setting
<1>15. ~NewsInHand
  BY <1>1 DEF NewsInHand
<1>16. (News => News') /\ (Unfinished => Unfinished')
  <2>1. News => News'
    BY <1>10, <1>14, <1>15 DEF News
  <2>2. Unfinished => Unfinished'
    BY <1>3, <1>12, <1>13 DEF Unfinished, Setting
  <2> QED BY <2>1, <2>2
<1>17. EventsFresh'
  <2> SUFFICES ASSUME NEW i \in 1..Len(events'), Reading(events'[i])
               PROVE  events'[i].level = pin' \/ NewsBehind(i)' \/ AckBehind(i)'
    BY DEF EventsFresh, Reading
  <2>1. i + 1 \in 1..Len(events) /\ events'[i] = events[i + 1] /\ i \in Nat
    BY <1>1, <1>2
  <2> QED BY <1>3, <1>6, <1>7, <2>1 DEF EventsFresh
<1>18. HandlingFresh'
  BY <1>3, <1>4, <1>8 DEF HandlingFresh, Reading
<1>19. ReadyFresh'
  BY <1>3, <1>6, <1>10, <1>12, <1>13, <1>14, <1>15 DEF ReadyFresh
<1>20. FiledFresh'
  <2> SUFFICES ASSUME NEW r \in Requests, pc[r] = "status", ~News', ~Unfinished'
               PROVE  filed' = pin \/ (filed' = None /\ StatusComing(r)')
    BY <1>3 DEF FiledFresh
  <2>1. ~LoopFree
    BY <1>0, NoNone DEF TypeOK, LoopFree
  <2>2. filed = pin \/ (filed = None /\ StatusComing(r))
    BY <1>6, <1>16 DEF FiledFresh
  <2>3. Reading(e) => e.level = pin
    BY <1>8 DEF News, Unfinished
  <2>4. CASE filed # None
    BY <1>4, <2>2, <2>4
  <2>5. CASE filed = None /\ e.kind \in {"status", "snapshot"}
    BY <1>4, <2>1, <2>3, <2>5 DEF Reading
  <2>6. CASE filed = None /\ e.kind \notin {"status", "snapshot"}
    <3>1. filed' = None /\ StatusComing(r)
      BY <1>0, <1>4, <2>2, <2>6, NoNone DEF TypeOK
    <3>2. StatusComing(r)'
      <4>1. CASE \E i \in 1..Len(cmds) : cmds[i] = [op |-> "status", call |-> r]
        BY <1>3, <4>1 DEF StatusComing
      <4>2. CASE \E i \in 2..Len(events) : events[i].kind = "status" /\ events[i].call = r
        <5>1. PICK i \in 2..Len(events) : events[i].kind = "status" /\ events[i].call = r
          BY <4>2
        <5>2. i - 1 \in 1..Len(events') /\ events'[i - 1] = events[i]
          BY <1>1, <1>2, <5>1
        <5> QED BY <5>1, <5>2 DEF StatusComing
      <4> QED BY <1>2, <2>6, <3>1, <4>1, <4>2 DEF StatusComing, e
    <3> QED BY <3>1, <3>2
  <2> QED BY <2>4, <2>5, <2>6
<1>21. CacheFresh'
  <2>1. CASE e.kind # "ack"
    <3>1. handling' # <<>>
      BY <1>4, <2>1
    <3> QED BY <3>1 DEF CacheFresh
  <2>2. CASE e.kind = "ack"
    <3>1. ASSUME NEW i \in 1..Len(events), Reading(events[i])
          PROVE  \E j \in 1..Len(events') : Reading(events'[j])
      <4>1. i \in 2..Len(events)
        BY <1>2, <2>2, <3>1 DEF Reading, e
      <4>2. i - 1 \in 1..Len(events') /\ events'[i - 1] = events[i]
        BY <1>1, <1>2, <4>1
      <4> QED BY <3>1, <4>2
    <3>2. (\E i \in 1..Len(events) : Reading(events[i]))
          => \E j \in 1..Len(events') : Reading(events'[j])
      BY <3>1
    <3> QED BY <1>1, <1>3, <1>6, <1>16, <3>2 DEF CacheFresh, Reading
  <2> QED BY <2>1, <2>2
<1>22. ViewsFresh'
  <2>1. SyncComing' = SyncComing
    BY <1>3 DEF SyncComing
  <2>2. Serving' = Serving /\ \A c \in Serving : Shown(c)' = Shown(c)
    BY <1>3 DEF Serving, Shown
  <2> QED BY <1>3, <1>6, <1>16, <2>1, <2>2 DEF ViewsFresh
<1> QED BY <1>17, <1>18, <1>19, <1>20, <1>21, <1>22 DEF Fresh

\* The handler thread runs the callbacks (main.py _on_bridge_event).
LEMMA CallbackFresh ==
    ASSUME ViewInv, OnBridgeEvent, ~gap'
    PROVE  Fresh'
<1> DEFINE e == handling[1]
           h == Start(Told(e.level))
           n == Len(ready) + 1
<1>0. TypeOK
  BY DEF ViewInv
<1>1. handling # <<>> /\ e \in Evt /\ Reading(e)
  BY DEF ViewInv, InHand, OnBridgeEvent
<1>2. /\ UNCHANGED <<pin, cmds, events, answer, filed, pc, kind, syncs, clients, hello, open,
                     outbox, toldLevel>>
      /\ ~gap /\ cache' = e.level /\ handling' = <<>>
      /\ ready' = IF Announced(e) THEN Append(ready, h) ELSE ready
  BY DEF OnBridgeEvent, deviceVars, socketVars, clientVars, Announced
<1>3. h \in Handed /\ h.what = "start" /\ h.msg.value = e.level
  <2>1. e.level \in Level
    BY <1>1 DEF Evt
  <2> QED BY <2>1, PlatformAssumption, Messages DEF Start, Told
<1> HIDE DEF h
<1>4. Fresh
  BY <1>2 DEF ViewInv
<1>5. e.level = pin \/ NewsBehind(0) \/ AckBehind(0)
  BY <1>1, <1>4 DEF Fresh, HandlingFresh
<1>6. \A i : /\ AckBehind(i)' = AckBehind(i) /\ NewsBehind(i)' = NewsBehind(i)
             /\ Answered' = Answered
  BY <1>2 DEF AckBehind, NewsBehind, Answered, Setting, Announced
<1>7. Len(ready) \in Nat /\ n \in Nat
  BY <1>0, Queues
<1>8. CASE Announced(e)
  <2>1. /\ Len(ready') = n /\ ready'[n] = h
        /\ \A i \in 1..Len(ready) : ready'[i] = ready[i]
    BY <1>0, <1>2, <1>3, <1>8, Appended DEF TypeOK
  <2>2. /\ n \in 1..Len(ready') /\ \A i \in 0..Len(ready) : n > i
        /\ \A i \in 1..Len(ready) : i \in 1..Len(ready')
        /\ \A i \in 1..Len(ready') : i = n \/ i \in 1..Len(ready)
    BY <1>7, <2>1
  <2> HIDE DEF n
  <2>3. \A i \in 0..Len(ready) : StartBehind(i)'
    BY <1>3, <2>1, <2>2 DEF StartBehind
  <2>4. \A i \in 1..Len(ready) : i \in 0..Len(ready)
    BY <1>7
  <2>5. ReadyFresh'
    BY <1>2, <1>3, <1>5, <1>6, <2>1, <2>2, <2>3, <2>4 DEF ReadyFresh
  <2>6. News'
    BY <1>7, <2>3 DEF News
  <2> QED
    <3>1. EventsFresh'
      BY <1>2, <1>4, <1>6 DEF Fresh, EventsFresh
    <3>2. HandlingFresh'
      BY <1>2 DEF HandlingFresh
    <3>3. CacheFresh'
      BY <1>2, <1>5, <1>6 DEF CacheFresh, NewsBehind, Announced, Reading, Unfinished
    <3> QED BY <2>5, <2>6, <3>1, <3>2, <3>3 DEF Fresh, FiledFresh, ViewsFresh
<1>9. CASE ~Announced(e)
  <2>1. ready' = ready /\ ~NewsInHand
    BY <1>2, <1>9 DEF NewsInHand
  <2>2. \A i : StartBehind(i)' = StartBehind(i) /\ WakeBehind(i)' = WakeBehind(i)
    BY <1>2, <2>1 DEF StartBehind, WakeBehind, Setting
  <2>3. (News => News') /\ (Unfinished => Unfinished')
    BY <1>2, <1>6, <2>1, <2>2 DEF News, Unfinished, Setting
  <2>4. EventsFresh' /\ HandlingFresh'
    BY <1>2, <1>4, <1>6 DEF Fresh, EventsFresh, HandlingFresh
  <2>5. ReadyFresh'
    BY <1>2, <1>4, <1>6, <2>1, <2>2 DEF Fresh, ReadyFresh
  <2>6. FiledFresh'
    BY <1>2, <1>4, <2>3 DEF Fresh, FiledFresh, StatusComing
  <2>7. CacheFresh'
    BY <1>2, <1>5, <1>6 DEF CacheFresh, NewsBehind, Announced, Reading, Unfinished
  <2>8. ViewsFresh'
    BY <1>2, <1>4, <2>3 DEF Fresh, ViewsFresh, SyncComing, Serving, Shown
  <2> QED BY <2>4, <2>5, <2>6, <2>7, <2>8 DEF Fresh
<1> QED BY <1>8, <1>9

\* A broadcast of the level the pin has puts every client right.
LEMMA LevelShown ==
    ASSUME TypeOK, NEW o \in Owner, outbox' = Broadcasting(Told(pin), o),
           UNCHANGED <<pin, clients, hello, open>>
    PROVE  \A c \in Serving' : Shown(c)'
<1> SUFFICES ASSUME NEW c \in Serving' PROVE Shown(c)'
  OBVIOUS
<1> DEFINE e == [msg |-> Told(pin), owner |-> o]
<1>1. c \in clients /\ c \in Clients /\ outbox[c] \in Seq(Entry) /\ pin \in Level
  BY DEF Serving, TypeOK
<1>2. Told(pin) \in Msg /\ e \in Entry /\ On(e, "level") /\ e.msg.value = pin
  BY <1>1 DEF Told, Msg, OfPin, Entry, Owner, On
<1>3. outbox'[c] = Append(outbox[c], e)
  BY <1>1, <1>2, BroadcastingAppends DEF TypeOK
<1> HIDE DEF e
<1>4. ~Nothing(outbox'[c], "level") /\ LastIs(outbox'[c], "level", pin)
  BY <1>1, <1>2, <1>3, AppendSame
<1> QED BY <1>4 DEF Shown

\* request_sync of a synchronisation task.
LEMMA SyncFresh ==
    ASSUME ViewInv, SyncSends, ~gap'
    PROVE  Fresh'
<1> DEFINE m == [op |-> "sync", call |-> Nobody]
<1>0. TypeOK /\ Linkless
  BY DEF ViewInv
<1>1. /\ UNCHANGED <<pin, events, handling, answer, filed, cache, ready, pc, kind>>
      /\ ~gap /\ link /\ cmds' = Append(cmds, m)
  BY <1>0 DEF SyncSends, Linkless, handlerVars
<1>2. m \in Cmd /\ m.op = "sync"
  BY DEF Cmd
<1> HIDE DEF m
<1>3. /\ Len(cmds) \in Nat /\ Len(cmds') = Len(cmds) + 1 /\ cmds'[Len(cmds) + 1] = m
      /\ \A i \in 1..Len(cmds) : cmds'[i] = cmds[i]
  BY <1>0, <1>1, <1>2, Appended DEF TypeOK
<1>4. Fresh
  BY <1>1 DEF ViewInv
<1>5. /\ \A i : /\ AckBehind(i)' = AckBehind(i) /\ NewsBehind(i)' = NewsBehind(i)
                /\ StartBehind(i)' = StartBehind(i) /\ WakeBehind(i)' = WakeBehind(i)
      /\ NewsInHand' = NewsInHand /\ Answered' = Answered
  BY <1>1 DEF AckBehind, NewsBehind, StartBehind, WakeBehind, NewsInHand, Answered, Setting, Announced
<1>6. News' = News /\ Unfinished' = Unfinished
  BY <1>1, <1>5 DEF News, Unfinished, Setting
<1>7. EventsFresh' /\ HandlingFresh' /\ ReadyFresh'
  BY <1>1, <1>4, <1>5 DEF Fresh, EventsFresh, HandlingFresh, ReadyFresh, Reading
<1>8. \A r \in Requests : StatusComing(r) => StatusComing(r)'
  BY <1>1, <1>3 DEF StatusComing
<1>9. FiledFresh'
  BY <1>1, <1>4, <1>6, <1>8 DEF Fresh, FiledFresh
<1>10. CacheFresh'
  BY <1>2, <1>3 DEF CacheFresh
<1>11. ViewsFresh'
  BY <1>2, <1>3 DEF ViewsFresh, SyncComing
<1> QED BY <1>7, <1>9, <1>10, <1>11 DEF Fresh

\* The thread of a bridge call ends, with or without an answer.
LEMMA ThreadFresh ==
    ASSUME ViewInv, NEW r \in Requests, ThreadAnswered(r) \/ ThreadGivesUp(r), ~gap'
    PROVE  Fresh'
<1> DEFINE n == Len(ready) + 1
<1>0. TypeOK /\ AtMostOnce
  BY DEF ViewInv
<1>1. /\ UNCHANGED <<pin, cmds, events, handling, answer, filed, cache, kind, syncs, clients, hello,
                     open, outbox, toldLevel>>
      /\ pc[r] = "wait" /\ ready' = Append(ready, Wake(r))
      /\ \E s \in {"ok", "failed"} : pc' = [pc EXCEPT ![r] = s]
  BY DEF ThreadAnswered, ThreadGivesUp, Returned, deviceVars, handlerVars, socketVars, clientVars
<1>2. ~gap
  <2>1. CASE ThreadAnswered(r)
    BY <2>1 DEF ThreadAnswered
  <2>2. CASE ThreadGivesUp(r)
    BY <2>2, Zenon DEF ThreadGivesUp
  <2> QED BY <2>1, <2>2
<1>3. Fresh
  BY <1>2 DEF ViewInv
<1>4. Wake(r) \in Handed /\ Wake(r).what = "wake" /\ Wake(r).call = r
  BY PlatformAssumption, Messages DEF Wake
<1>5. /\ Len(ready') = n /\ ready'[n] = Wake(r) /\ Len(ready) \in Nat /\ n \in Nat
      /\ \A i \in 1..Len(ready) : ready'[i] = ready[i]
  BY <1>0, <1>1, <1>4, Appended DEF TypeOK
<1>6. /\ n \in 1..Len(ready') /\ \A i \in 0..Len(ready) : n > i
      /\ \A i \in 1..Len(ready) : i \in 1..Len(ready')
      /\ \A i \in 1..Len(ready') : i = n \/ i \in 1..Len(ready)
  BY <1>5
<1> HIDE DEF n
<1>7. pc'[r] \in {"ok", "failed"} /\ \A x \in Requests \ {r} : pc'[x] = pc[x]
  BY <1>0, <1>1 DEF TypeOK
<1>8. ASSUME answer[r] # None PROVE pc'[r] = "ok"
  BY <1>0, <1>1, <1>8 DEF ThreadAnswered, ThreadGivesUp, Returned, TypeOK
\* No answer to r is on its way.
<1>9. ASSUME NEW j \in 1..Len(events), events[j].kind = "ack" PROVE events[j].call # r
  <2>1. CASE ThreadAnswered(r)
    <3>1. Replies(r) = {}
      BY <1>0, <2>1 DEF AtMostOnce, ThreadAnswered
    <3> QED BY <1>9, <3>1 DEF Replies, Answers
  <2>2. CASE ThreadGivesUp(r)
    <3>1. ~Underway(Op(kind[r]), r)
      <4> SUFFICES ASSUME Underway(Op(kind[r]), r) PROVE FALSE
        OBVIOUS
      <4>1. gap' = TRUE
        BY <2>2 DEF ThreadGivesUp
      <4> QED BY <4>1
    <3> QED BY <3>1 DEF Underway
  <2> QED BY <2>1, <2>2
<1>10. \A j \in 1..Len(events) :
          events[j].kind = "ack" /\ Setting(events[j].call, "wait")
          => Setting(events[j].call, "wait")'
  <2> TAKE j \in 1..Len(events)
  <2>1. events[j] \in Evt
    BY <1>0, Queues
  <2>2. events[j].kind = "ack" => events[j].call \in Requests \ {r}
    BY <1>9, <2>1 DEF Evt
  <2> QED BY <1>1, <1>7, <2>2 DEF Setting
<1>11. \A i : (AckBehind(i) => AckBehind(i)') /\ NewsBehind(i)' = NewsBehind(i)
  BY <1>1, <1>10, BehindKept
<1>12. Answered => Answered' \/ Setting(r, "ok")'
  BY <1>1, <1>7, <1>8 DEF Answered, Setting
<1>13. \A i \in 0..Len(ready) : /\ StartBehind(i) => StartBehind(i)'
                                /\ Setting(r, "ok")' => WakeBehind(i)'
  BY <1>4, <1>5, <1>6 DEF StartBehind, WakeBehind
<1>14. \A i : WakeBehind(i) => WakeBehind(i)'
  <2>1. \A j \in 1..Len(ready) : ready[j].what = "wake" => ready[j].call \in Requests
    BY DEF ViewInv, Wakes
  <2>2. ASSUME NEW x \in Requests, Setting(x, "ok") PROVE Setting(x, "ok")'
    BY <1>1, <1>7, <2>2 DEF Setting
  <2> QED BY <1>5, <1>6, <2>1, <2>2 DEF WakeBehind
<1>15. NewsInHand' = NewsInHand
  BY <1>1 DEF NewsInHand, Announced
<1>16. 0 \in 0..Len(ready) /\ \A i \in 1..Len(ready) : i \in 0..Len(ready)
  BY <1>5
<1>17. (News => News') /\ (Unfinished => Unfinished')
  <2>1. News => News'
    BY <1>11, <1>13, <1>15, <1>16 DEF News
  <2>2. ASSUME NEW x \in Requests, Setting(x, "ok") \/ Setting(x, "tell")
        PROVE  Setting(x, "ok")' \/ Setting(x, "tell")'
    BY <1>1, <1>7, <2>2 DEF Setting
  <2> QED BY <1>11, <1>12, <2>1, <2>2 DEF Unfinished
<1>18. EventsFresh' /\ HandlingFresh'
  BY <1>1, <1>3, <1>11 DEF Fresh, EventsFresh, HandlingFresh, Reading
<1>19. ReadyFresh'
  <2> SUFFICES ASSUME NEW i \in 1..Len(ready'), ready'[i].what = "start"
               PROVE  \/ ready'[i].msg.value = pin'
                      \/ StartBehind(i)' \/ NewsInHand' \/ NewsBehind(0)'
                      \/ AckBehind(0)' \/ Answered' \/ WakeBehind(i)'
    BY DEF ReadyFresh
  <2>1. i \in 1..Len(ready) /\ ready'[i] = ready[i] /\ i \in 0..Len(ready)
    BY <1>4, <1>5, <1>6, <1>16
  <2> QED BY <1>1, <1>3, <1>11, <1>12, <1>13, <1>14, <1>15, <2>1 DEF Fresh, ReadyFresh
<1>20. \A x \in Requests : pc'[x] = "status" <=> pc[x] = "status"
  BY <1>1, <1>7
<1>21. FiledFresh'
  BY <1>1, <1>3, <1>17, <1>20 DEF Fresh, FiledFresh, StatusComing
<1>22. CacheFresh'
  BY <1>1, <1>3, <1>17 DEF Fresh, CacheFresh
<1>23. ViewsFresh'
  BY <1>1, <1>3, <1>17, <1>20 DEF Fresh, ViewsFresh, SyncComing, Serving, Shown
<1> QED BY <1>18, <1>19, <1>21, <1>22, <1>23 DEF Fresh

\* The loop starts a broadcast of the handler thread.
LEMMA StartFresh ==
    ASSUME ViewInv, StartBroadcast, ~gap'
    PROVE  Fresh'
<1>0. TypeOK
  BY DEF ViewInv
<1>1. /\ UNCHANGED <<pin, cmds, events, handling, answer, filed, cache, pc, kind, syncs, clients,
                     hello, open, toldLevel>>
      /\ ~gap /\ ready # <<>> /\ ready' = Tail(ready)
  BY DEF StartBroadcast, deviceVars, handlerVars, socketVars, clientVars
<1>2. /\ Len(ready) \in Nat \ {0} /\ Len(ready') = Len(ready) - 1
      /\ Head(ready) = ready[1] /\ ready[1] \in Handed
      /\ \A i \in 1..Len(ready') : ready'[i] = ready[i + 1]
      /\ \A i \in 2..Len(ready) : ready'[i - 1] = ready[i]
  BY <1>0, <1>1, Removed DEF TypeOK
<1>3. /\ \A i \in 1..Len(ready') : i + 1 \in 1..Len(ready)
      /\ \A i \in 2..Len(ready) : i - 1 \in 1..Len(ready')
      /\ 1 \in 1..Len(ready)
  BY <1>2
<1>4. Fresh
  BY <1>1 DEF ViewInv
<1>5. /\ \A i : AckBehind(i)' = AckBehind(i) /\ NewsBehind(i)' = NewsBehind(i)
      /\ NewsInHand' = NewsInHand /\ Answered' = Answered
  BY <1>1 DEF AckBehind, NewsBehind, NewsInHand, Answered, Setting, Announced
<1>6. \A i \in Nat : /\ StartBehind(i + 1) => StartBehind(i)'
                     /\ WakeBehind(i + 1) => WakeBehind(i)'
  <2> TAKE i \in Nat
  <2>1. ASSUME NEW j \in 1..Len(ready), j > i + 1
        PROVE  j - 1 \in 1..Len(ready') /\ j - 1 > i /\ ready'[j - 1] = ready[j]
    BY <1>2, <1>3, <2>1
  <2> QED BY <1>1, <2>1 DEF StartBehind, WakeBehind, Setting
<1>7. Unfinished' = Unfinished
  BY <1>1, <1>5 DEF Unfinished, Setting
<1>8. EventsFresh' /\ HandlingFresh'
  BY <1>1, <1>4, <1>5 DEF Fresh, EventsFresh, HandlingFresh, Reading
<1>9. ReadyFresh'
  <2> SUFFICES ASSUME NEW i \in 1..Len(ready'), ready'[i].what = "start"
               PROVE  \/ ready'[i].msg.value = pin'
                      \/ StartBehind(i)' \/ NewsInHand' \/ NewsBehind(0)'
                      \/ AckBehind(0)' \/ Answered' \/ WakeBehind(i)'
    BY DEF ReadyFresh
  <2>1. i + 1 \in 1..Len(ready) /\ ready'[i] = ready[i + 1] /\ i \in Nat
    BY <1>2, <1>3
  <2> QED BY <1>1, <1>4, <1>5, <1>6, <2>1 DEF Fresh, ReadyFresh
<1>10. FiledFresh'
  <2>1. \A r \in Requests : pc[r] # "status"
    BY <1>0, NoNone DEF StartBroadcast, LoopFree, TypeOK
  <2> QED BY <1>1, <2>1 DEF FiledFresh
<1>11. CacheFresh'
  BY <1>1, <1>4, <1>7 DEF Fresh, CacheFresh
<1>12. ViewsFresh'
  <2>1. ready[1].what = "start" /\ outbox' = Broadcasting(ready[1].msg, Nobody)
    BY <1>2 DEF StartBroadcast
  <2>2. \/ ready[1].msg.value = pin
        \/ StartBehind(1) \/ NewsInHand \/ NewsBehind(0)
        \/ AckBehind(0) \/ Answered \/ WakeBehind(1)
    BY <1>3, <1>4, <2>1 DEF Fresh, ReadyFresh
  <2>3. CASE ready[1].msg.value = pin
    <3>1. ready[1].msg = Told(pin)
      BY <1>2, <2>3 DEF Handed, OfPin, Told
    <3>2. \A c \in Serving' : Shown(c)'
      BY <1>0, <1>1, <2>1, <3>1, LevelShown DEF Owner
    <3> QED BY <3>2 DEF ViewsFresh
  <2>4. CASE StartBehind(1) \/ NewsInHand \/ NewsBehind(0)
    <3>1. 0 \in Nat /\ 0 + 1 = 1
      OBVIOUS
    <3>2. StartBehind(1) => StartBehind(0)'
      BY <1>6, <3>1
    <3> QED BY <1>5, <2>4, <3>2 DEF ViewsFresh, News
  <2>5. CASE AckBehind(0) \/ Answered
    BY <1>7, <2>5 DEF ViewsFresh, Unfinished
  <2>6. CASE WakeBehind(1)
    <3>1. \E x \in Requests : Setting(x, "ok")
      BY <2>6 DEF WakeBehind, ViewInv, Wakes
    <3> QED BY <1>7, <3>1 DEF ViewsFresh, Unfinished
  <2> QED BY <2>2, <2>3, <2>4, <2>5, <2>6
<1> QED BY <1>8, <1>9, <1>10, <1>11, <1>12 DEF Fresh

\* Steps of a call that is not waited for any more, or not yet.
LEMMA CallsKept ==
    ASSUME ViewInv, Fresh,
           UNCHANGED <<pin, events, handling, answer, ready>>,
           \A x \in Requests : \A s \in {"wait", "ok"} : Setting(x, s) => Setting(x, s)'
    PROVE  /\ EventsFresh' /\ HandlingFresh' /\ ReadyFresh'
           /\ News' = News
           /\ AckBehind(0) \/ Answered \/ (\E x \in Requests : Setting(x, "ok")) => Unfinished'
<1>0. TypeOK
  BY DEF ViewInv
<1>1. \A j \in 1..Len(events) :
         events[j].kind = "ack" /\ Setting(events[j].call, "wait")
         => Setting(events[j].call, "wait")'
  <2> TAKE j \in 1..Len(events)
  <2>1. events[j] \in Evt
    BY <1>0, Queues
  <2> QED BY <2>1 DEF Evt
<1>2. \A i : (AckBehind(i) => AckBehind(i)') /\ NewsBehind(i)' = NewsBehind(i)
  BY <1>1, BehindKept
<1>3. Answered => Answered'
  BY DEF Answered
<1>4. \A i : (WakeBehind(i) => WakeBehind(i)') /\ StartBehind(i)' = StartBehind(i)
  <2>1. \A j \in 1..Len(ready) : ready[j].what = "wake" => ready[j].call \in Requests
    BY DEF ViewInv, Wakes
  <2> QED BY <2>1 DEF WakeBehind, StartBehind
<1>5. NewsInHand' = NewsInHand
  BY DEF NewsInHand, Announced
<1>6. EventsFresh' /\ HandlingFresh'
  BY <1>2 DEF Fresh, EventsFresh, HandlingFresh, Reading
<1>7. ReadyFresh'
  BY <1>2, <1>3, <1>4, <1>5 DEF Fresh, ReadyFresh
<1>8. News' = News
  BY <1>2, <1>4, <1>5 DEF News
<1> QED BY <1>2, <1>3, <1>6, <1>7, <1>8 DEF Unfinished

\* A request begins its bridge call.
LEMMA CallFresh ==
    ASSUME ViewInv, NEW r \in Requests, NEW k \in Kinds \ {"idle"}, CallBridge(r, k),
           pc[r] = "idle", ~gap'
    PROVE  Fresh'
<1> DEFINE m == [op |-> Op(k), call |-> r]
<1>0. TypeOK
  BY DEF ViewInv
<1>1. /\ UNCHANGED <<pin, events, handling, answer, filed, cache, ready, syncs, clients, hello, open,
                     outbox, toldLevel>>
      /\ ~gap /\ cmds' = Append(cmds, m) /\ pc' = [pc EXCEPT ![r] = "wait"]
      /\ kind' = [kind EXCEPT ![r] = k]
  BY DEF CallBridge, handlerVars, socketVars, clientVars
<1>2. m \in Cmd
  BY DEF Cmd, Op
<1> HIDE DEF m
<1>3. /\ Len(cmds) \in Nat /\ Len(cmds') = Len(cmds) + 1
      /\ \A i \in 1..Len(cmds) : i \in 1..Len(cmds') /\ cmds'[i] = cmds[i]
  BY <1>0, <1>1, <1>2, Appended DEF TypeOK
<1>4. Fresh
  BY <1>1 DEF ViewInv
<1>5. pc'[r] = "wait" /\ \A x \in Requests \ {r} : pc'[x] = pc[x] /\ kind'[x] = kind[x]
  BY <1>0, <1>1 DEF TypeOK
<1>6. \A x \in Requests : \A s \in {"wait", "ok", "tell"} : Setting(x, s) => Setting(x, s)'
  BY <1>5 DEF Setting
<1>7. EventsFresh' /\ HandlingFresh' /\ ReadyFresh' /\ News' = News
  BY <1>1, <1>4, <1>6, CallsKept
<1>8. Unfinished => Unfinished'
  <2>1. AckBehind(0) \/ Answered \/ (\E x \in Requests : Setting(x, "ok")) => Unfinished'
    BY <1>1, <1>4, <1>6, CallsKept
  <2>2. (\E x \in Requests : Setting(x, "tell")) => Unfinished'
    BY <1>6 DEF Unfinished
  <2> QED BY <2>1, <2>2 DEF Unfinished
<1>9. \A x \in Requests : /\ StatusComing(x) => StatusComing(x)'
                          /\ pc'[x] = "status" <=> pc[x] = "status"
  BY <1>1, <1>3, <1>5 DEF StatusComing
<1>10. FiledFresh'
  BY <1>1, <1>4, <1>7, <1>8, <1>9 DEF Fresh, FiledFresh
<1>11. CacheFresh'
  BY <1>1, <1>3, <1>4, <1>8 DEF Fresh, CacheFresh
<1>12. ViewsFresh'
  <2>1. SyncComing => SyncComing'
    BY <1>1, <1>3 DEF SyncComing
  <2>2. Serving' = Serving /\ \A c \in Serving : Shown(c)' = Shown(c)
    BY <1>1 DEF Serving, Shown
  <2> QED BY <1>4, <1>7, <1>8, <1>9, <2>1, <2>2 DEF Fresh, ViewsFresh
<1> QED BY <1>7, <1>10, <1>11, <1>12 DEF Fresh

\* The handler of a call resumes; after a gpio_set it has still to ask for the
\* status (routes.py gpio_set, _broadcast_gpio_status).
LEMMA ResumeFresh ==
    ASSUME ViewInv, NEW r \in Requests, Resume(r), ~gap'
    PROVE  Fresh'
<1>0. TypeOK /\ Wakes
  BY DEF ViewInv
<1>1. /\ UNCHANGED <<pin, cmds, events, handling, filed, cache, kind, syncs, clients, hello, open,
                     toldLevel>>
      /\ answer' = [answer EXCEPT ![r] = None]
      /\ \E s \in {"tell", "done"} : pc' = [pc EXCEPT ![r] = s]
  BY DEF Resume, deviceVars, socketVars, clientVars
<1>2. ~gap
  <2>1. CASE pc[r] = "failed" \/ OverWs(r)
    BY <2>1 DEF Resume
  <2>2. CASE ~(pc[r] = "failed" \/ OverWs(r))
    <3>1. gap' = (gap \/ (kind[r] = "get" /\ answer[r] # pin))
      BY <2>2, Zenon DEF Resume
    <3> QED BY <3>1
  <2> QED BY <2>1, <2>2
<1>3. Fresh
  BY <1>2 DEF ViewInv
<1>4. /\ ready # <<>> /\ ready' = Tail(ready) /\ pc[r] \in {"ok", "failed"}
      /\ ready[1] = Wake(r)
      /\ \A i \in 2..Len(ready) : ready[i].what = "wake" => ready[i].call # r
  BY <1>0, Woken
<1>5. /\ Len(ready) \in Nat \ {0} /\ Len(ready') = Len(ready) - 1
      /\ \A i \in 1..Len(ready') : ready'[i] = ready[i + 1]
      /\ \A i \in 2..Len(ready) : ready'[i - 1] = ready[i]
  BY <1>0, <1>4, Removed DEF TypeOK
<1>6. /\ \A i \in 1..Len(ready') : i + 1 \in 1..Len(ready)
      /\ \A i \in 2..Len(ready) : i - 1 \in 1..Len(ready')
      /\ \A i \in 1..Len(ready) : i = 1 \/ i \in 2..Len(ready)
  BY <1>5
<1>7. /\ pc'[r] \in {"tell", "done"}
      /\ \A x \in Requests \ {r} : pc'[x] = pc[x] /\ answer'[x] = answer[x]
  BY <1>0, <1>1 DEF TypeOK
<1>8. \A x \in Requests \ {r} : \A s : Setting(x, s)' = Setting(x, s)
  BY <1>1, <1>7 DEF Setting
<1>9. \A i : (AckBehind(i) => AckBehind(i)') /\ NewsBehind(i)' = NewsBehind(i)
  <2>1. ASSUME NEW j \in 1..Len(events), events[j].kind = "ack", Setting(events[j].call, "wait")
        PROVE  Setting(events[j].call, "wait")'
    <3>1. events[j] \in Evt
      BY <1>0, Queues
    <3>2. PICK x \in Requests \ {r} : x = events[j].call
      BY <1>4, <2>1, <3>1 DEF Evt, Setting
    <3> QED BY <1>1, <1>8, <2>1, <3>2
  <2> QED BY <1>1, <2>1, BehindKept
<1>10. Answered => Answered'
  BY <1>4, <1>7, <1>8 DEF Answered, Setting
<1>11. NewsInHand' = NewsInHand
  BY <1>1 DEF NewsInHand, Announced
<1>12. \A i \in Nat : /\ StartBehind(i + 1) => StartBehind(i)'
                      /\ WakeBehind(i + 1) => WakeBehind(i)'
  <2> TAKE i \in Nat
  <2>1. ASSUME NEW j \in 1..Len(ready), j > i + 1
        PROVE  /\ j \in 2..Len(ready) /\ j - 1 \in 1..Len(ready') /\ j - 1 > i
               /\ ready'[j - 1] = ready[j]
    BY <1>5, <1>6, <2>1
  <2>2. ASSUME WakeBehind(i + 1) PROVE WakeBehind(i)'
    <3>1. PICK j \in 1..Len(ready) : /\ j > i + 1 /\ ready[j].what = "wake"
                                     /\ Setting(ready[j].call, "ok")
      BY <2>2 DEF WakeBehind
    <3>2. PICK x \in Requests \ {r} : x = ready[j].call
      BY <1>0, <1>4, <2>1, <3>1 DEF Wakes
    <3>3. Setting(x, "ok")' /\ x = ready'[j - 1].call
      BY <1>8, <2>1, <3>1, <3>2
    <3> QED BY <2>1, <3>1, <3>3 DEF WakeBehind
  <2> QED BY <2>1, <2>2 DEF StartBehind
<1>13. StartBehind(0) => StartBehind(0)'
  <2>1. StartBehind(0) => StartBehind(1)
    BY <1>4, <1>5 DEF StartBehind, Wake
  <2>2. 0 \in Nat /\ 0 + 1 = 1
    OBVIOUS
  <2> QED BY <1>12, <2>1, <2>2
<1>14. News => News'
  BY <1>9, <1>11, <1>13 DEF News
<1>15. EventsFresh' /\ HandlingFresh'
  BY <1>1, <1>3, <1>9 DEF Fresh, EventsFresh, HandlingFresh, Reading
<1>16. ReadyFresh'
  <2> SUFFICES ASSUME NEW i \in 1..Len(ready'), ready'[i].what = "start"
               PROVE  \/ ready'[i].msg.value = pin'
                      \/ StartBehind(i)' \/ NewsInHand' \/ NewsBehind(0)'
                      \/ AckBehind(0)' \/ Answered' \/ WakeBehind(i)'
    BY DEF ReadyFresh
  <2>1. i + 1 \in 1..Len(ready) /\ ready'[i] = ready[i + 1] /\ i \in Nat
    BY <1>5, <1>6
  <2> QED BY <1>1, <1>3, <1>9, <1>10, <1>11, <1>12, <2>1 DEF Fresh, ReadyFresh
<1>17. FiledFresh'
  <2>1. \A x \in Requests : pc'[x] # "status"
    BY <1>0, <1>7, NoNone DEF Resume, LoopFree, TypeOK
  <2> QED BY <2>1 DEF FiledFresh
<1>18. CASE Setting(r, "ok")
  <2>1. kind[r] = "set" /\ pc[r] = "ok"
    BY <1>18 DEF Setting
  <2>2. pc' = [pc EXCEPT ![r] = "tell"]
    BY <2>1 DEF Resume, OverWs, Ws
  <2>3. Setting(r, "tell")'
    BY <1>0, <1>1, <2>1, <2>2 DEF Setting, TypeOK
  <2>4. Unfinished'
    BY <2>3 DEF Unfinished
  <2> QED BY <1>15, <1>16, <1>17, <2>4 DEF Fresh, CacheFresh, ViewsFresh
<1>19. CASE ~Setting(r, "ok")
  <2>1. Unfinished => Unfinished'
    <3>1. ASSUME NEW x \in Requests, Setting(x, "ok") \/ Setting(x, "tell") PROVE Unfinished'
      <4>1. x # r
        BY <1>4, <1>19, <3>1 DEF Setting
      <4> QED BY <1>8, <3>1, <4>1 DEF Unfinished
    <3> QED BY <1>9, <1>10, <3>1 DEF Unfinished
  <2>2. CacheFresh'
    BY <1>1, <1>3, <2>1 DEF Fresh, CacheFresh, Reading
  <2>3. ViewsFresh'
    <3>1. CASE pc[r] = "failed" \/ OverWs(r)
      <4>1. outbox' = outbox
        BY <3>1 DEF Resume
      <4>2. Serving' = Serving /\ \A c \in Serving : Shown(c)' = Shown(c)
        BY <1>1, <4>1 DEF Serving, Shown
      <4>3. SyncComing' = SyncComing
        BY <1>1 DEF SyncComing
      <4>4. \A x \in Requests : pc[x] # "status"
        BY <1>0, NoNone DEF Resume, LoopFree, TypeOK
      <4> QED BY <1>3, <1>14, <2>1, <4>2, <4>3, <4>4 DEF Fresh, ViewsFresh
    <3>2. CASE ~(pc[r] = "failed" \/ OverWs(r))
      <4>1. pc[r] = "ok" /\ kind[r] # "set"
        BY <1>4, <1>19, <3>2 DEF Setting
      <4>2. kind[r] = "get"
        BY <1>0, <3>2, <4>1 DEF TypeOK, Kinds, OverWs, Ws, ViewInv, Commanded
      <4>3. answer[r] = pin
        <5>1. gap' = (gap \/ (kind[r] = "get" /\ answer[r] # pin))
          BY <3>2, Zenon DEF Resume
        <5> QED BY <4>2, <5>1
      <4>4. outbox' = Broadcasting(Told(pin), r)
        BY <3>2, <4>2, <4>3 DEF Resume
      <4> QED BY <1>0, <1>1, <4>4, LevelShown DEF Owner, ViewsFresh
    <3> QED BY <3>1, <3>2
  <2> QED BY <1>15, <1>16, <1>17, <2>2, <2>3 DEF Fresh
<1> QED BY <1>18, <1>19

\* The handler of a gpio_set asks for the status and waits inside the loop.
LEMMA AskFresh ==
    ASSUME ViewInv, NEW r \in Requests, AskStatus(r), ~gap'
    PROVE  Fresh'
<1> DEFINE m == [op |-> "status", call |-> r]
<1>0. TypeOK
  BY DEF ViewInv
<1>1. /\ UNCHANGED <<pin, events, handling, answer, cache, ready, kind>>
      /\ ~gap /\ link /\ pc[r] = "tell" /\ filed' = None
      /\ cmds' = Append(cmds, m) /\ pc' = [pc EXCEPT ![r] = "status"]
  BY DEF AskStatus, ViewInv, Linkless
<1>2. m \in Cmd
  BY DEF Cmd
<1>3. /\ Len(cmds') = Len(cmds) + 1 /\ Len(cmds) \in Nat /\ cmds'[Len(cmds) + 1] = m
  BY <1>0, <1>1, <1>2, Appended DEF TypeOK
<1>4. Len(cmds) + 1 \in 1..Len(cmds')
  BY <1>3
<1>5. Fresh
  BY <1>1 DEF ViewInv
<1>6. pc'[r] = "status" /\ \A x \in Requests \ {r} : pc'[x] = pc[x]
  BY <1>0, <1>1 DEF TypeOK
<1>7. \A x \in Requests : \A s \in {"wait", "ok"} : Setting(x, s) => Setting(x, s)'
  BY <1>1, <1>6 DEF Setting
<1>8. EventsFresh' /\ HandlingFresh' /\ ReadyFresh'
  BY <1>1, <1>5, <1>7, CallsKept
<1>9. FiledFresh'
  <2>1. \A x \in Requests \ {r} : pc'[x] # "status"
    BY <1>0, <1>6, NoNone DEF AskStatus, LoopFree, TypeOK
  <2>2. StatusComing(r)'
    BY <1>3, <1>4 DEF StatusComing
  <2> QED BY <1>1, <2>1, <2>2 DEF FiledFresh
<1>10. CacheFresh'
  BY <1>3, <1>4 DEF CacheFresh
<1>11. ViewsFresh'
  BY <1>6 DEF ViewsFresh
<1> QED BY <1>8, <1>9, <1>10, <1>11 DEF Fresh

\* The wait ends with the first status filed or without one; in the latter
\* case something else will still reach the clients.
LEMMA StatusFresh ==
    ASSUME ViewInv, NEW r \in Requests, StatusAnswered(r) \/ StatusMissing(r), ~gap'
    PROVE  Fresh'
<1>0. TypeOK
  BY DEF ViewInv
<1>1. /\ UNCHANGED <<pin, cmds, events, handling, answer, cache, ready, kind, syncs, clients, hello,
                     open, toldLevel>>
      /\ pc[r] = "status" /\ pc' = [pc EXCEPT ![r] = "done"]
  BY DEF StatusAnswered, StatusMissing, deviceVars, handlerVars, socketVars, clientVars
<1>2. ~gap /\ (StatusMissing(r) => filed = None /\ ~StatusComing(r))
  <2>1. CASE StatusAnswered(r)
    BY <2>1 DEF StatusAnswered, StatusMissing
  <2>2. CASE StatusMissing(r)
    <3>1. ~Underway("status", r)
      <4> SUFFICES ASSUME Underway("status", r) PROVE FALSE
        OBVIOUS
      <4>1. gap' = TRUE
        BY <2>2 DEF StatusMissing
      <4> QED BY <4>1
    <3>2. ~gap /\ filed = None
      BY <2>2, <3>1 DEF StatusMissing
    <3> QED BY <3>1, <3>2 DEF Underway, StatusComing
  <2> QED BY <2>1, <2>2
<1>3. Fresh
  BY <1>2 DEF ViewInv
<1>4. pc'[r] = "done" /\ \A x \in Requests \ {r} : pc'[x] = pc[x]
  BY <1>0, <1>1 DEF TypeOK
<1>5. \A x \in Requests : \A s \in {"wait", "ok", "tell"} : Setting(x, s) => Setting(x, s)'
  BY <1>1, <1>4 DEF Setting
<1>6. EventsFresh' /\ HandlingFresh' /\ ReadyFresh' /\ News' = News
  BY <1>1, <1>3, <1>5, CallsKept
<1>7. Unfinished => Unfinished'
  <2>1. AckBehind(0) \/ Answered \/ (\E x \in Requests : Setting(x, "ok")) => Unfinished'
    BY <1>1, <1>3, <1>5, CallsKept
  <2>2. (\E x \in Requests : Setting(x, "tell")) => Unfinished'
    BY <1>5 DEF Unfinished
  <2> QED BY <2>1, <2>2 DEF Unfinished
<1>8. FiledFresh'
  <2>1. \A x \in Requests : pc'[x] # "status"
    BY <1>0, <1>1, <1>4 DEF TypeOK
  <2> QED BY <2>1 DEF FiledFresh
<1>9. CacheFresh'
  BY <1>1, <1>3, <1>7 DEF Fresh, CacheFresh, Reading
<1>10. ViewsFresh'
  <2>1. News \/ Unfinished \/ filed = pin
    BY <1>1, <1>2, <1>3 DEF Fresh, FiledFresh, StatusAnswered
  <2>2. CASE News \/ Unfinished
    BY <1>6, <1>7, <2>2 DEF ViewsFresh
  <2>3. CASE filed = pin
    <3>1. pin # None
      BY <1>0, NoNone DEF TypeOK
    <3>2. StatusAnswered(r) /\ outbox' = Broadcasting(Told(pin), r)
      BY <1>2, <2>3, <3>1 DEF StatusAnswered
    <3> QED BY <1>0, <1>1, <3>2, LevelShown DEF Owner, ViewsFresh
  <2> QED BY <2>1, <2>2, <2>3
<1> QED BY <1>6, <1>8, <1>9, <1>10 DEF Fresh

LEMMA ViewStep == ViewInv /\ [Next]_vars => ViewInv'
<1> SUFFICES ASSUME ViewInv, [Next]_vars PROVE ViewInv'
  OBVIOUS
<1>1. TypeOK' /\ AtMostOnce' /\ Commanded' /\ InHand' /\ Linkless' /\ Wakes'
  BY TypeStep, OnceStep, CommandedStep, InHandStep, LinklessStep, WakesStep DEF ViewInv
<1>2. ASSUME ~gap' PROVE Fresh'
  <2>1. ASSUME LinkDown PROVE FALSE
    BY <1>2, <2>1 DEF LinkDown
  <2>2. ASSUME NEW r \in Requests, WsCommand(r) \/ RestRequest(r) PROVE Fresh'
    BY <1>2, <2>2, MenuKinds, CallFresh DEF WsCommand, RestRequest
  <2>3. ASSUME NEW c \in Clients, SendTo(c) \/ HelloConnect(c) \/ Endpoint(c) \/ Leave(c)
        PROVE  Fresh'
    BY <1>2, <2>3, ClientSteps DEF Endpoint
  <2>4. ASSUME NEW r \in Requests, Thread(r) PROVE Fresh'
    BY <1>2, <2>4, ThreadFresh DEF Thread
  <2>5. ASSUME NEW r \in Requests, Rest(r) PROVE Fresh'
    BY <1>2, <2>5, ResumeFresh, AskFresh, StatusFresh DEF Rest
  <2>6. ASSUME Device \/ Handler \/ StartBroadcast \/ Poll \/ MonitorTold \/ SyncSends
               \/ UNCHANGED vars
        PROVE  Fresh'
    BY <1>2, <2>1, <2>6, ClientSteps, DeviceFresh, FileFresh, CallbackFresh, StartFresh, SyncFresh
       DEF Device, Handler
  <2> QED BY <2>2, <2>3, <2>4, <2>5, <2>6 DEF Next, Request
<1> QED BY <1>1, <1>2 DEF ViewInv

(* When the dust settles, the cache and every client that is served show   *)
(* the level of the pin, but for the gaps the history marks: for any       *)
(* number of clients, requests, synchronisations and faults, and whatever  *)
(* the order in which the threads and the loop took the events             *)
(* (main.py _on_bridge_event, routes.py gpio_set, websocket_endpoint).     *)
THEOREM ViewsAgreeHolds == Spec => []ViewsAgree
<1>1. Init => ViewInv
  <2> SUFFICES ASSUME Init PROVE ViewInv
    OBVIOUS
  <2>1. TypeOK /\ gap
    BY InitTyped DEF Init
  <2>2. \A r \in Requests : Asked(r) = {} /\ Replies(r) = {} /\ answer[r] = None
    BY DEF Init, Asked, Replies
  <2>3. AtMostOnce
    BY <2>2 DEF AtMostOnce
  <2>4. Commanded /\ InHand /\ Linkless /\ Wakes
    BY DEF Init, Commanded, InHand, Linkless, Wakes
  <2> QED BY <2>1, <2>3, <2>4 DEF ViewInv
<1>2. ViewInv => ViewsAgree
  <2> SUFFICES ASSUME ViewInv, Quiet, ~gap
               PROVE  cache = pin /\ \A c \in Serving : toldLevel[c] = pin
    BY DEF ViewsAgree
  <2>1. CacheFresh /\ ViewsFresh /\ TypeOK
    BY DEF ViewInv, Fresh
  <2>2. ~News /\ ~Unfinished /\ ~SyncComing
    BY DEF Quiet, News, StartBehind, NewsInHand, NewsBehind, Unfinished, AckBehind, Answered,
           Setting, SyncComing
  <2>3. cache = pin
    BY <2>1, <2>2 DEF Quiet, CacheFresh
  <2>4. ASSUME NEW c \in Serving PROVE toldLevel[c] = pin
    <3>1. Shown(c)
      BY <2>1, <2>2 DEF Quiet, ViewsFresh
    <3>2. outbox[c] = <<>>
      BY <2>1 DEF Quiet, Serving, TypeOK
    <3> QED BY <3>1, <3>2 DEF Shown, Nothing
  <2> QED BY <2>3, <2>4
<1> QED BY <1>1, <1>2, ViewStep, PTL DEF Spec
=============================================================================
