------------------------------ MODULE Platform ------------------------------
(***************************************************************************)
(* The platform process (platform/src): how the level of one output pin    *)
(* and the state of the device's link travel from the device to the        *)
(* WebSocket clients.  Three kinds of threads run:                         *)
(*                                                                         *)
(*   - the event loop: the monitor, the /ws endpoints, the REST handlers   *)
(*     and the broadcasts, one step at a time between two awaits;          *)
(*   - the bridge's handler thread, which files an event, then calls       *)
(*     _on_bridge_event: it updates the cache and hands a broadcast to     *)
(*     the loop;                                                           *)
(*   - executor threads, one for each bridge call in progress.             *)
(*                                                                         *)
(* call_soon_threadsafe is a queue ("ready"): the loop starts what other   *)
(* threads hand to it in the order in which they did.  A broadcast that    *)
(* has started is in the outbox of every client registered at that moment; *)
(* sends to one client are written in that order.  Messages that carry     *)
(* neither the link nor the level are left out, and so are the BLE half of *)
(* _sync_device_state and every pin but one.                               *)
(***************************************************************************)
EXTENDS Naturals, Sequences, FiniteSets

CONSTANTS
    Clients,      \* WebSocket connections, each made at most once
    Consoles,     \* those with role=console
    Leavers,      \* bound: those that may close their socket
    Requests,     \* REST and WS requests, each made at most once
    Menu,         \* Menu[r]: which of "set", "get" (REST), "wsset", "wsget" (WS) r may be
    Target,       \* Target[r]: the level a "set" or a "wsset" asks for
    Asker,        \* Asker[r]: the connection a WebSocket command comes from
    MaxSyncs,     \* bound: tasks of _sync_device_state that wait to send
    Nobody,       \* no request, no owner
    None,         \* no value
    MaxFaults,    \* bound: lost links and calls given up too early
    Silences      \* whether heartbeats may stop for 35 seconds

Level == {0, 1}

ASSUME PlatformAssumption ==
    /\ Consoles \subseteq Clients /\ Leavers \subseteq Clients
    /\ Menu \in [Requests -> SUBSET {"set", "get", "wsset", "wsget"}]
    /\ Target \in [Requests -> Level]
    /\ Asker \in [Requests -> Clients]
    /\ Nobody \notin Requests /\ None \notin Level
    /\ MaxSyncs \in Nat \ {0} /\ MaxFaults \in Nat /\ Silences \in BOOLEAN

VARIABLES
    \* the device and the link
    pin,        \* level of the pin
    link,       \* IoTAgentServer.connected
    cmds,       \* commands on their way to the device
    events,     \* events on their way to the handler thread
    faults,     \* faults so far
    \* the handler thread
    handling,   \* event filed whose callbacks have not run, as a sequence
    answer,     \* pending_responses: the answer to a call, a level for "get"
    filed,      \* first EVENT_PORT_STATUS filed since the discard, while one waits
    cache,      \* _gpio_state_cache[pin]["value"]
    silent,     \* whether _last_heartbeat_time is more than 35 seconds ago
    \* the event loop
    ready,      \* starts and wake-ups handed to the loop by other threads
    blocked,    \* the handler that waits synchronously, inside the loop
    pc,         \* pc[r] of a request
    kind,       \* kind[r], what it turned out to be
    syncs,      \* tasks of _sync_device_state that have not sent yet
    monitor,    \* "sleep" or "tell"
    was,        \* was_connected
    clients,    \* ConnectionManager._clients
    hello,      \* progress of websocket_endpoint
    open,       \* whether the socket of a client is open
    outbox,     \* messages a started broadcast has still to send to a client
    \* the clients
    toldLink,   \* last connection_change received, as 0 or 1
    heard,      \* whether that one was a broadcast, not the endpoint's own
    toldLevel,  \* last level received
    gap         \* history: something since the last snapshot went unannounced

deviceVars  == <<pin, link, cmds, events, faults>>
handlerVars == <<handling, answer, filed, cache, silent>>
clientVars  == <<toldLink, heard, toldLevel>>
socketVars  == <<clients, hello, open>>
vars == <<deviceVars, handlerVars, ready, blocked, pc, kind, syncs, monitor, was,
          socketVars, outbox, clientVars, gap>>

-----------------------------------------------------------------------------
(* Messages and helpers                                                    *)

Told(v)   == [about |-> "level", value |-> v]
Linked(b) == [about |-> "link", value |-> IF b THEN 1 ELSE 0]

Start(msg) == [what |-> "start", msg |-> msg, call |-> Nobody]
Wake(r)    == [what |-> "wake", msg |-> Told(None), call |-> r]

Event(k, x, v) == [kind |-> k, call |-> x, level |-> v]

\* broadcast() from its first step: one message for each registered client.
Broadcasting(msg, owner) ==
    [c \in Clients |->
        IF c \in clients
        THEN Append(outbox[c], [msg |-> msg, owner |-> owner])
        ELSE outbox[c]]

\* Is a broadcast awaited by x still being sent?
Sending(x) == \E c \in Clients : \E i \in 1..Len(outbox[c]) : outbox[c][i].owner = x

LoopFree == blocked = Nobody

\* Whether the device has still to answer operation op of call x, or has
\* answered and the event has not been filed.
Underway(op, x) ==
    \/ \E i \in 1..Len(cmds) : cmds[i] = [op |-> op, call |-> x]
    \/ \E i \in 1..Len(events) : events[i].call = x

\* create_task(_sync_device_state).
Spawned == syncs < MaxSyncs /\ syncs' = syncs + 1

\* The thread of call r ends and the future wakes the coroutine.
Returned(r, result) ==
    /\ pc' = [pc EXCEPT ![r] = result]
    /\ ready' = Append(ready, Wake(r))

Op(k) == IF k \in {"get", "wsget"} THEN "get" ELSE "set"

Ws == {"wsset", "wsget"}
OverWs(r) == kind[r] \in Ws

\* allowed_by_role against the permission class of the operation.
Allowed(r, k) == Asker[r] \in Consoles \/ k = "wsget"

Init ==
    /\ pin = 0 /\ link = FALSE /\ cmds = <<>> /\ events = <<>>
    /\ faults = 0
    /\ handling = <<>> /\ answer = [r \in Requests |-> None]
    /\ filed = None /\ cache = None /\ silent = FALSE
    /\ ready = <<>> /\ blocked = Nobody
    /\ pc = [r \in Requests |-> "idle"] /\ syncs = 0
    /\ kind = [r \in Requests |-> "idle"]
    /\ monitor = "sleep" /\ was = FALSE
    /\ clients = {} /\ hello = [c \in Clients |-> "away"]
    /\ open = [c \in Clients |-> FALSE]
    /\ outbox = [c \in Clients |-> <<>>]
    /\ toldLink = [c \in Clients |-> None]
    /\ heard = [c \in Clients |-> FALSE]
    /\ toldLevel = [c \in Clients |-> None]
    /\ gap = TRUE

-----------------------------------------------------------------------------
(* The device and the link                                                 *)

\* The device connects again; IoTAgentServer sets connected.
LinkUp ==
    /\ ~link
    /\ link' = TRUE
    /\ UNCHANGED <<pin, cmds, events, faults, handlerVars, ready, blocked,
                   pc, kind, syncs, monitor, was, socketVars, outbox, clientVars, gap>>

\* The connection breaks: what was on its way is lost.
LinkDown ==
    /\ link /\ faults < MaxFaults
    /\ link' = FALSE /\ faults' = faults + 1
    /\ cmds' = <<>> /\ events' = <<>>
    /\ gap' = TRUE
    /\ UNCHANGED <<pin, handlerVars, ready, blocked, pc, kind, syncs, monitor, was,
                   socketVars, outbox, clientVars>>

\* The firmware executes the next command and answers it.
DeviceStep ==
    /\ cmds # <<>>
    /\ LET op == Head(cmds).op
           x  == Head(cmds).call
       IN  /\ pin' = IF op = "set" THEN Target[x] ELSE pin
           /\ events' = events \o
                CASE op = "set"    -> <<Event("ack", x, 0)>>
                  [] op = "get"    -> <<Event("value", x, pin)>>
                  [] op = "status" -> <<Event("status", x, pin)>>
                  [] OTHER         -> <<Event("snapshot", Nobody, pin)>>
           /\ gap' =
                CASE op = "sync" -> FALSE
                  [] op = "set" /\ kind[x] = "wsset" -> TRUE
                  [] op = "set" /\ pc[x] # "wait"    -> TRUE
                  [] OTHER -> gap
    /\ cmds' = Tail(cmds)
    /\ UNCHANGED <<link, faults, handlerVars, ready, blocked, pc, kind, syncs, monitor,
                   was, socketVars, outbox, clientVars>>

\* A heartbeat arrives and _on_bridge_event notes the time.
Heartbeat ==
    /\ link /\ silent
    /\ silent' = FALSE
    /\ UNCHANGED <<deviceVars, handling, answer, filed, cache, ready, blocked, pc,
                   kind, syncs, monitor, was, socketVars, outbox, clientVars, gap>>

\* 35 seconds pass without a heartbeat, connected or not.
Silence ==
    /\ Silences /\ ~silent /\ faults < MaxFaults
    /\ silent' = TRUE /\ faults' = faults + 1
    /\ UNCHANGED <<pin, link, cmds, events, handling, answer, filed, cache, ready,
                   blocked, pc, kind, syncs, monitor, was, socketVars, outbox, clientVars,
                   gap>>

-----------------------------------------------------------------------------
(* The handler thread                                                      *)

\* EventHandler.handle_event, first half: the event is filed where a call
\* waits for it.
FileEvent ==
    /\ events # <<>> /\ handling = <<>>
    /\ LET e == Head(events)
       IN  /\ answer' = IF e.kind \in {"ack", "value"} /\ pc[e.call] = "wait"
                        THEN [answer EXCEPT ![e.call] = e.level] ELSE answer
           /\ filed' = IF e.kind \in {"status", "snapshot"} /\ filed = None /\ ~LoopFree
                       THEN e.level ELSE filed
           /\ handling' = IF e.kind = "ack" THEN <<>> ELSE <<e>>
    /\ events' = Tail(events)
    /\ UNCHANGED <<pin, link, cmds, faults, cache, silent, ready, blocked,
                   pc, kind, syncs, monitor, was, socketVars, outbox, clientVars, gap>>

\* Second half: the callback of start_bridge, then _on_bridge_event.  Every
\* event with a level enters the cache; a value and a snapshot are broadcast
\* as well, an answer to PORT_STATUS is not.
OnBridgeEvent ==
    /\ handling # <<>>
    /\ LET e == handling[1]
       IN  /\ cache' = e.level
           /\ ready' = IF e.kind \in {"value", "snapshot"}
                       THEN Append(ready, Start(Told(e.level))) ELSE ready
    /\ handling' = <<>>
    /\ UNCHANGED <<deviceVars, answer, filed, silent, blocked, pc, monitor, was,
                   syncs, kind, socketVars, outbox, clientVars, gap>>

-----------------------------------------------------------------------------
(* Bridge calls in executor threads                                        *)

\* request_sync in its thread, after the delay; nobody looks at its result.
SyncSends ==
    /\ syncs > 0
    /\ syncs' = syncs - 1
    /\ cmds' = IF link THEN Append(cmds, [op |-> "sync", call |-> Nobody]) ELSE cmds
    /\ UNCHANGED <<pin, link, events, faults, handlerVars, ready, blocked, pc,
                   monitor, was, kind, socketVars, outbox, clientVars, gap>>

\* The thread's poll finds the answer; the future wakes its coroutine.
ThreadAnswered(r) ==
    /\ pc[r] = "wait" /\ answer[r] # None
    /\ Returned(r, "ok")
    /\ UNCHANGED <<deviceVars, handlerVars, blocked, monitor, was, syncs, kind, socketVars,
                   outbox, clientVars, gap>>

\* The thread gives up.  The answer may come later: that is a fault.
ThreadGivesUp(r) ==
    /\ pc[r] = "wait" /\ answer[r] = None
    /\ IF Underway(Op(kind[r]), r)
       THEN /\ faults < MaxFaults /\ faults' = faults + 1
            /\ gap' = TRUE
       ELSE UNCHANGED <<faults, gap>>
    /\ Returned(r, "failed")
    /\ UNCHANGED <<pin, link, cmds, events, handlerVars, blocked, monitor,
                   was, syncs, kind, socketVars, outbox, clientVars>>

-----------------------------------------------------------------------------
(* The event loop: broadcasts                                              *)

\* The loop starts a broadcast handed over by the handler thread.
StartBroadcast ==
    /\ LoopFree /\ ready # <<>> /\ Head(ready).what = "start"
    /\ outbox' = Broadcasting(Head(ready).msg, Nobody)
    /\ ready' = Tail(ready)
    /\ UNCHANGED <<deviceVars, handlerVars, blocked, pc, monitor, was, syncs, kind, socketVars,
                   clientVars, gap>>

\* Mutant of SendTo: a broadcast ends at the first client that is gone.
SendToOrStop(c) ==
    /\ LoopFree /\ outbox[c] # <<>>
    /\ LET m == Head(outbox[c]).msg
       IN  IF open[c]
           THEN /\ toldLink' = [toldLink EXCEPT ![c] = IF m.about = "link" THEN m.value ELSE @]
                /\ heard' = [heard EXCEPT ![c] = @ \/ m.about = "link"]
                /\ outbox' = [outbox EXCEPT ![c] = Tail(@)]
                /\ UNCHANGED <<clients, toldLevel>>
           ELSE /\ clients' = clients \ {c}
                /\ outbox' = [d \in Clients |->
                       IF outbox[d] # <<>> /\ Head(outbox[d]).msg = m
                       THEN Tail(outbox[d]) ELSE outbox[d]]
                /\ UNCHANGED clientVars
    /\ UNCHANGED <<deviceVars, handlerVars, ready, blocked, pc, kind, syncs, monitor,
                   was, hello, open, gap>>

\* One send of a broadcast.  A client whose socket is gone raises, and is
\* taken out of the registry; the broadcast goes on with the others.
SendTo(c) ==
    /\ LoopFree /\ outbox[c] # <<>>
    /\ LET m == Head(outbox[c]).msg
       IN  IF open[c]
           THEN /\ toldLink' = IF m.about = "link"
                               THEN [toldLink EXCEPT ![c] = m.value] ELSE toldLink
                /\ heard' = IF m.about = "link"
                            THEN [heard EXCEPT ![c] = TRUE] ELSE heard
                /\ toldLevel' = IF m.about = "level"
                                THEN [toldLevel EXCEPT ![c] = m.value] ELSE toldLevel
                /\ UNCHANGED clients
           ELSE /\ clients' = clients \ {c}
                /\ UNCHANGED clientVars
    /\ outbox' = [outbox EXCEPT ![c] = Tail(@)]
    /\ UNCHANGED <<deviceVars, handlerVars, ready, blocked, pc, kind, syncs, monitor, was,
                   hello, open, gap>>

-----------------------------------------------------------------------------
(* The event loop: the monitor and the synchronisation                     *)

\* Mutant of Poll: the time stamp of the last heartbeat stands for the link.
PollHeartbeat ==
    /\ LoopFree /\ monitor = "sleep"
    /\ was = silent
    /\ was' = ~silent
    /\ outbox' = Broadcasting(Linked(~silent), "monitor")
    /\ monitor' = "tell"
    /\ UNCHANGED <<deviceVars, handlerVars, ready, blocked, pc, kind, syncs,
                   socketVars, clientVars, gap>>

\* One round of _monitor_bridge up to its first broadcast.
Poll ==
    /\ LoopFree /\ monitor = "sleep"
    /\ LET connected == link /\ ~silent
       IN  /\ connected # was
           /\ was' = connected
           /\ outbox' = Broadcasting(Linked(connected), "monitor")
    /\ monitor' = "tell"
    /\ UNCHANGED <<deviceVars, handlerVars, ready, blocked, pc, syncs, kind, socketVars,
                   clientVars, gap>>

\* The change is sent; a connection is followed by a synchronisation.
MonitorTold ==
    /\ LoopFree /\ monitor = "tell" /\ ~Sending("monitor")
    /\ IF was THEN Spawned ELSE UNCHANGED syncs
    /\ monitor' = "sleep"
    /\ UNCHANGED <<deviceVars, handlerVars, ready, blocked, pc, was, kind, socketVars,
                   outbox, clientVars, gap>>

-----------------------------------------------------------------------------
(* The event loop: websocket_endpoint                                      *)

\* manager.connect, then connection_change with the link as the bridge sees it.
HelloConnect(c) ==
    /\ LoopFree /\ hello[c] = "away"
    /\ hello' = [hello EXCEPT ![c] = "database"]
    /\ open' = [open EXCEPT ![c] = TRUE]
    /\ clients' = clients \union {c}
    /\ toldLink' = [toldLink EXCEPT ![c] = Linked(link).value]
    /\ UNCHANGED <<deviceVars, handlerVars, ready, blocked, pc, kind, syncs, monitor, was,
                   outbox, heard, toldLevel, gap>>

\* After the database: device_state from the cache, when there is one, and a
\* synchronisation if the bridge is connected.  A send on a closed socket
\* raises out of the endpoint, before its try: the client stays registered.
HelloState(c) ==
    /\ LoopFree /\ hello[c] = "database"
    /\ IF open[c] \/ cache = None
       THEN /\ IF link THEN Spawned ELSE UNCHANGED syncs
            /\ hello' = [hello EXCEPT ![c] = "serving"]
       ELSE /\ hello' = [hello EXCEPT ![c] = "gone"]
            /\ UNCHANGED syncs
    /\ toldLevel' = IF open[c] /\ cache # None
                    THEN [toldLevel EXCEPT ![c] = cache] ELSE toldLevel
    /\ UNCHANGED <<deviceVars, handlerVars, ready, blocked, pc, kind, monitor, was,
                   clients, open, outbox, toldLink, heard, gap>>

\* The client closes its socket, at any time.
Leave(c) ==
    /\ c \in Leavers /\ open[c]
    /\ open' = [open EXCEPT ![c] = FALSE]
    /\ toldLink' = [toldLink EXCEPT ![c] = None]
    /\ heard' = [heard EXCEPT ![c] = FALSE]
    /\ toldLevel' = [toldLevel EXCEPT ![c] = None]
    /\ UNCHANGED <<deviceVars, handlerVars, ready, blocked, pc, kind, syncs, monitor, was,
                   clients, hello, outbox, gap>>

\* receive_text raises, the endpoint unregisters the client.
EndpointEnds(c) ==
    /\ LoopFree /\ hello[c] = "serving" /\ ~open[c]
    /\ \A r \in Requests : OverWs(r) /\ Asker[r] = c => pc[r] \in {"idle", "done"}
    /\ hello' = [hello EXCEPT ![c] = "gone"]
    /\ clients' = clients \ {c}
    /\ UNCHANGED <<deviceVars, handlerVars, ready, blocked, pc, kind, syncs, monitor, was,
                   open, outbox, clientVars, gap>>

\* The bridge call goes to a thread, which sends the command.
CallBridge(r, k) ==
    /\ kind' = [kind EXCEPT ![r] = k]
    /\ pc' = [pc EXCEPT ![r] = "wait"]
    /\ cmds' = Append(cmds, [op |-> Op(k), call |-> r])
    /\ UNCHANGED <<pin, link, events, faults, handlerVars, ready, blocked, syncs,
                   monitor, was, socketVars, outbox, clientVars, gap>>

\* _handle_ws_command: gpio_set is a control operation, gpio_get a read.  A
\* command that is refused, or finds no connection, changes nothing.
WsCommand(r) ==
    /\ LoopFree /\ pc[r] = "idle" /\ link
    /\ hello[Asker[r]] = "serving" /\ open[Asker[r]]
    /\ \E k \in Menu[r] \intersect Ws : Allowed(r, k) /\ CallBridge(r, k)

-----------------------------------------------------------------------------
(* The event loop: REST handlers gpio_set and gpio_get                     *)

\* check_connected, which refuses with 503, then the bridge call.
RestRequest(r) ==
    /\ LoopFree /\ pc[r] = "idle" /\ link
    /\ \E k \in Menu[r] \ Ws : CallBridge(r, k)

\* Mutant of Resume: no status is asked for after a gpio_set.
ResumeNoRefresh(r) ==
    /\ LoopFree /\ ready # <<>> /\ Head(ready) = Wake(r)
    /\ ready' = Tail(ready)
    /\ outbox' = IF pc[r] = "ok" /\ kind[r] = "set"
                 THEN Broadcasting(Told(Target[r]), r) ELSE outbox
    /\ pc' = [pc EXCEPT ![r] = "done"]
    /\ UNCHANGED <<deviceVars, handlerVars, blocked, monitor, was, kind, syncs,
                   socketVars, clientVars, gap>>

\* The call has returned.  A failure is reported to the caller alone, and so is
\* any result of a WebSocket command; a REST handler broadcasts what was set
\* or read.
Resume(r) ==
    /\ LoopFree /\ ready # <<>> /\ Head(ready) = Wake(r)
    /\ ready' = Tail(ready)
    /\ answer' = [answer EXCEPT ![r] = None]
    /\ IF pc[r] = "failed" \/ OverWs(r)
       THEN /\ pc' = [pc EXCEPT ![r] = "done"]
            /\ UNCHANGED <<outbox, gap>>
       ELSE /\ outbox' = Broadcasting(
                  Told(IF kind[r] = "set" THEN Target[r] ELSE answer[r]), r)
            /\ pc' = [pc EXCEPT ![r] = IF kind[r] = "set" THEN "tell" ELSE "done"]
            /\ gap' = (gap \/ (kind[r] = "get" /\ answer[r] # pin))
    /\ UNCHANGED <<deviceVars, handling, filed, cache, silent, blocked, monitor, was, syncs, kind, socketVars,
                   clientVars>>

\* _broadcast_gpio_status: port_status discards what is filed, sends, and then
\* waits inside the loop.
AskStatus(r) ==
    /\ LoopFree /\ pc[r] = "tell" /\ ~Sending(r)
    /\ filed' = None
    /\ IF link
       THEN /\ cmds' = Append(cmds, [op |-> "status", call |-> r])
            /\ blocked' = r
            /\ pc' = [pc EXCEPT ![r] = "status"]
            /\ UNCHANGED outbox
       ELSE /\ outbox' = Broadcasting(Told(None), r)
            /\ pc' = [pc EXCEPT ![r] = "done"]
            /\ UNCHANGED <<cmds, blocked>>
    /\ UNCHANGED <<pin, link, events, faults, handling, answer, cache,
                   silent, ready, monitor, was, syncs, kind, socketVars, clientVars, gap>>

\* The first status filed is broadcast.
StatusAnswered(r) ==
    /\ pc[r] = "status" /\ filed # None
    /\ outbox' = Broadcasting(Told(filed), r)
    /\ filed' = None
    /\ blocked' = Nobody
    /\ pc' = [pc EXCEPT ![r] = "done"]
    /\ UNCHANGED <<deviceVars, handling, answer, cache, silent, ready, monitor,
                   was, syncs, kind, socketVars, clientVars, gap>>

\* No status in time: a status without a level is broadcast.
StatusMissing(r) ==
    /\ pc[r] = "status" /\ filed = None
    /\ IF Underway("status", r)
       THEN /\ faults < MaxFaults /\ faults' = faults + 1
            /\ gap' = TRUE
       ELSE UNCHANGED <<faults, gap>>
    /\ outbox' = Broadcasting(Told(None), r)
    /\ blocked' = Nobody
    /\ pc' = [pc EXCEPT ![r] = "done"]
    /\ UNCHANGED <<pin, link, cmds, events, handlerVars, ready, monitor,
                   was, syncs, kind, socketVars, clientVars>>

-----------------------------------------------------------------------------
Device  == LinkUp \/ LinkDown \/ DeviceStep \/ Heartbeat \/ Silence
Handler == FileEvent \/ OnBridgeEvent
Thread(r) == ThreadAnswered(r) \/ ThreadGivesUp(r)
Endpoint(c) == HelloState(c) \/ EndpointEnds(c)
Request(r) == WsCommand(r) \/ RestRequest(r)
Rest(r) == \/ Resume(r) \/ AskStatus(r) \/ StatusAnswered(r)
           \/ StatusMissing(r)

Next ==
    \/ Device \/ Handler
    \/ StartBroadcast \/ Poll \/ MonitorTold \/ SyncSends
    \/ \E c \in Clients : SendTo(c) \/ HelloConnect(c) \/ Endpoint(c) \/ Leave(c)
    \/ \E r \in Requests : Request(r) \/ Thread(r) \/ Rest(r)

\* Every thread that runs makes progress: the device while it is connected, the
\* handler, the executor threads and the loop.  Nobody is obliged to connect, to
\* send a request or to leave, and the link need not come up.
Fairness ==
    /\ WF_vars(DeviceStep) /\ WF_vars(Heartbeat) /\ WF_vars(Handler)
    /\ WF_vars(StartBroadcast) /\ WF_vars(SyncSends)
    /\ WF_vars(Poll) /\ WF_vars(MonitorTold)
    /\ \A c \in Clients : WF_vars(SendTo(c)) /\ WF_vars(Endpoint(c))
    /\ \A r \in Requests : WF_vars(Thread(r)) /\ WF_vars(Rest(r))

Spec == Init /\ [][Next]_vars /\ Fairness

-----------------------------------------------------------------------------
(* Properties                                                              *)

CallState == {"idle", "wait", "ok", "failed", "tell", "status", "done"}
Kinds     == {"idle", "set", "get", "wsset", "wsget"}

Cmd    == [op : {"set", "get", "status"}, call : Requests]
            \union [op : {"sync"}, call : {Nobody}]
Evt    == [kind : {"ack", "value", "status"}, call : Requests, level : Level]
            \union [kind : {"snapshot"}, call : {Nobody}, level : Level]
OfPin  == [about : {"level"}, value : Level \union {None}]
Msg    == OfPin \union [about : {"link"}, value : {0, 1}]
Entry  == [msg : Msg, owner : Requests \union {"monitor", Nobody}]
Handed == [what : {"start", "wake"}, msg : OfPin, call : Requests \union {Nobody}]

\* Types of the variables; the loop is blocked exactly while a handler waits for
\* a status (bridge_service.py port_status).
TypeOK ==
    /\ pin \in Level /\ link \in BOOLEAN
    /\ cmds \in Seq(Cmd) /\ events \in Seq(Evt) /\ handling \in Seq(Evt)
    /\ faults \in 0..MaxFaults /\ gap \in BOOLEAN
    /\ answer \in [Requests -> Level \union {None}]
    /\ filed \in Level \union {None} /\ cache \in Level \union {None}
    /\ silent \in BOOLEAN
    /\ ready \in Seq(Handed)
    /\ pc \in [Requests -> CallState] /\ kind \in [Requests -> Kinds]
    /\ syncs \in 0..MaxSyncs
    /\ monitor \in {"sleep", "tell"} /\ was \in BOOLEAN
    /\ clients \subseteq Clients
    /\ hello \in [Clients -> {"away", "database", "serving", "gone"}]
    /\ open \in [Clients -> BOOLEAN]
    /\ outbox \in [Clients -> Seq(Entry)]
    /\ toldLink \in [Clients -> {0, 1, None}]
    /\ heard \in [Clients -> BOOLEAN]
    /\ toldLevel \in [Clients -> Level \union {None}]
    /\ \A r \in Requests : pc[r] = "status" <=> blocked = r
    /\ blocked \in Requests \union {Nobody}

\* No thread has anything to do for the level of the pin.
Quiet ==
    /\ cmds = <<>> /\ events = <<>> /\ handling = <<>> /\ ready = <<>>
    /\ \A c \in Clients : outbox[c] = <<>>
    /\ syncs = 0 /\ \A r \in Requests : pc[r] \in {"idle", "done"}

Serving == {c \in clients : hello[c] = "serving" /\ open[c]}

\* When the dust settles, every client that is served shows the level the pin
\* has, and so does the cache: whatever the order in which handler thread,
\* executor threads and loop took the events of concurrent gpio_set requests, of
\* a client's arrival and of a synchronisation.  Excepted are the gaps the
\* history marks: no snapshot yet, a lost connection, a call that was
\* given up, a gpio_set over WebSocket, which nobody announces, and a gpio_get
\* whose reading was overtaken by a gpio_set before its handler resumed.
ViewsAgree ==
    Quiet /\ ~gap => /\ cache = pin
                        /\ \A c \in Serving : toldLevel[c] = pin

\* A client whose last word on the link was a broadcast, and who has no other on
\* its way, has been told what the monitor believes: a client that breaks off in
\* the middle of a broadcast takes the message from nobody else.
HeardTheMonitor ==
    \A c \in Clients :
        /\ open[c] /\ heard[c]
        /\ \A i \in 1..Len(outbox[c]) : outbox[c][i].msg.about # "link"
        => toldLink[c] = Linked(was).value

\* Once the device is gone for good the monitor notices, and in the end no
\* client is left with a broadcast that said it was there; once it is there for
\* good, the time stamp of the last connection's heartbeat (main.py:187) cannot
\* keep it away for ever.
LinkNoticed ==
    /\ <>[]~link => <>[](~was /\ \A c \in Clients : open[c] /\ heard[c] => toldLink[c] = 0)
    /\ <>[]link  => <>[](was /\ \A c \in Clients : open[c] /\ heard[c] => toldLink[c] = 1)
=============================================================================
