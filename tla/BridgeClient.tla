---------------------------- MODULE BridgeClient ----------------------------
(***************************************************************************)
(* The request/response layer of the host bridge: IoTAgentClient,          *)
(* CommandDispatcher and EventHandler (bridge/src/client.py, commands.py,  *)
(* events.py) together with the way the HTTP layer reports a failed call   *)
(* (platform/src/api/errors.py).                                           *)
(*                                                                         *)
(* Several executor threads (Caller) issue commands concurrently.  A       *)
(* command gets an id from a shared counter, goes over the link, and its   *)
(* answers come back as events that one handler thread files in two        *)
(* tables: pending_events (by opcode) and pending_responses (by command    *)
(* id).  Every caller polls one of the tables until its deadline.          *)
(*                                                                         *)
(* "serial" is a history value, absent from the code: commands are         *)
(* numbered in the order their ids are drawn, and an event carries the     *)
(* serial of the command that caused it.  It tells apart two commands      *)
(* that were given the same 16-bit id.                                     *)
(***************************************************************************)
EXTENDS Naturals, Sequences, SequencesExt, FiniteSets

CONSTANTS
  Caller,     \* threads of the platform's executor
  Gpio,       \* pins addressed by the commands
  ErrCode,    \* firmware error codes (IOT_ERR_*), none of them NoError
  NoError,    \* error_code of a successful ACK, and Python's None
  NoEvent,    \* "no response": what a wait returns at its deadline
  Ops,        \* the API calls that the callers make
  MaxCmdId,   \* ids are 1 .. MaxCmdId: 65535 in the code
  MaxCalls,   \* bound on the number of API calls of one behaviour
  MaxFaults   \* bound on the losses, link changes and unprompted heartbeats

AllOps == {"set", "configure", "get", "sync", "receive", "exchange", "heartbeat"}

ASSUME BridgeClientAssumption ==
  /\ Gpio # {}
  /\ Ops \subseteq AllOps
  /\ MaxCmdId \in Nat \ {0}
  /\ MaxCalls \in Nat
  /\ MaxFaults \in Nat
  /\ NoError \notin ErrCode

VARIABLES
  next_cmd_id,        \* CommandDispatcher.next_cmd_id
  issued,             \* history: how many ids were drawn
  started,            \* how many API calls were begun
  faults,             \* how many losses, link changes and unprompted heartbeats there were
  call,               \* per caller, the API call it executes or last executed
  last_error,         \* IoTAgentClient.last_error
  pending_responses,  \* EventHandler.pending_responses
  pending_events,     \* EventHandler.pending_events
  handling,           \* event filed by opcode and not yet by id, or NoEvent
  connected,          \* whether the server has a client
  toDevice,           \* commands on their way to the dispatcher
  capturing,          \* signal commands the firmware's signal tasks work on
  toHost,             \* events on their way to the handler thread
  bound,              \* pins configured on the device
  executed            \* history: serials the device executed and acknowledged

hostVars   == <<next_cmd_id, issued, started, call, last_error>>
tableVars  == <<pending_responses, pending_events, handling>>
deviceVars == <<toDevice, capturing, toHost, bound, executed>>
linkVars   == <<connected, faults>>
vars       == <<hostVars, tableVars, deviceVars, linkVars>>

-----------------------------------------------------------------------------
CmdId   == 1 .. MaxCmdId
NoId    == 0            \* events without a cmd_id attribute
Opcode  == {"ack", "error", "value", "sync", "captured", "heartbeat"}
Polled  == {"captured", "heartbeat"}  \* the only opcodes some call waits for by opcode
CmdKind == AllOps \cup {"config", "unbind"}

Event == [op : Opcode, id : CmdId \cup {NoId}, gpio : Gpio,
          code : ErrCode \cup {NoError}, serial : Nat]
Command == [kind : CmdKind, id : CmdId, gpio : Gpio, serial : Nat]

Pc    == {"idle", "drawn", "waiting", "retry", "report"}
Stage == {"only", "first", "unbind", "again"}
Call  == [pc : Pc, op : AllOps, stage : Stage, gpio : Gpio, id : CmdId, serial : Nat,
          result : Event \cup {NoEvent}, code : ErrCode \cup {NoError}]

(* Variants with a fault, here and below, are named after it: no run uses  *)
(* them as they stand; substituted for the definition that follows, each   *)
(* breaks a property.                                                      *)
NextIdStuck(n) == n

(* The id after n: (n + 1) % 65536, with 0 skipped. *)
NextId(n) == IF n = MaxCmdId THEN 1 ELSE n + 1

KindOfSwapped(cl) == CASE cl.stage \in {"first", "unbind"} -> "config"
                       [] cl.stage = "again"             -> "unbind"
                       [] OTHER                          -> cl.op

(* The command an API call sends at its present stage. *)
KindOf(cl) == CASE cl.stage \in {"first", "again"} -> "config"
                [] cl.stage = "unbind"             -> "unbind"
                [] OTHER                           -> cl.op

SucceededOnAnyAnswer(cl) == cl.result # NoEvent

(* What each API call takes for success. *)
Succeeded(cl) ==
  /\ cl.result # NoEvent
  /\ CASE cl.op \in {"set", "configure"}    -> cl.result.op = "ack" /\ cl.result.code = NoError
       [] cl.op = "get"                     -> cl.result.op = "value"
       [] cl.op = "sync"                    -> cl.result.op = "sync"
       [] cl.op \in {"receive", "exchange"} -> cl.result.op = "captured"
       [] OTHER                             -> TRUE

(* A caller that has made no call yet: only its pc is ever read. *)
NoCall == [pc |-> "idle", op |-> "set", stage |-> "only", gpio |-> CHOOSE g \in Gpio : TRUE,
           id |-> 1, serial |-> 1, result |-> NoEvent, code |-> NoError]

Init ==
  /\ next_cmd_id = 1
  /\ issued = 0
  /\ started = 0
  /\ call = [c \in Caller |-> NoCall]
  /\ last_error = NoError
  /\ pending_responses = [i \in CmdId |-> <<>>]
  /\ pending_events = [o \in Polled |-> <<>>]
  /\ handling = NoEvent
  /\ connected = TRUE
  /\ faults = 0
  /\ toDevice = <<>>
  /\ capturing = {}
  /\ toHost = <<>>
  /\ bound = {}
  /\ executed = {}

-----------------------------------------------------------------------------
(* Callers.                                                                *)

(* _get_next_cmd_id: draw an id under the dispatcher's lock. *)
Draw(c, op, stage, g) ==
  /\ call' = [call EXCEPT ![c] = [pc |-> "drawn", op |-> op, stage |-> stage, gpio |-> g,
                                  id |-> next_cmd_id, serial |-> issued + 1,
                                  result |-> NoEvent, code |-> NoError]]
  /\ next_cmd_id' = NextId(next_cmd_id)
  /\ issued' = issued + 1

(* A caller enters an API function and draws the id of its first command. *)
Begin(c, op, g) ==
  /\ call[c].pc = "idle"
  /\ started < MaxCalls
  /\ started' = started + 1
  /\ Draw(c, op, IF op = "configure" THEN "first" ELSE "only", g)
  /\ UNCHANGED <<last_error, tableVars, deviceVars, linkVars>>

(* send_command finds a client; exchange_signals then resets last_error. *)
Send(c) ==
  /\ call[c].pc = "drawn"
  /\ connected
  /\ toDevice' = Append(toDevice, [kind |-> KindOf(call[c]), id |-> call[c].id,
                                   gpio |-> call[c].gpio, serial |-> call[c].serial])
  /\ call' = [call EXCEPT ![c].pc = "waiting"]
  /\ last_error' = IF call[c].op = "exchange" THEN NoError ELSE last_error
  /\ UNCHANGED <<next_cmd_id, issued, started, tableVars, capturing, toHost, bound, executed,
                 linkVars>>

(* send_command finds no client.  The ACK-based calls reset last_error, the *)
(* others leave it; a failed unbind goes on with the retry.                *)
SendRefused(c) ==
  /\ call[c].pc = "drawn"
  /\ ~connected
  /\ call' = [call EXCEPT ![c].pc = IF call[c].stage = "unbind" THEN "retry" ELSE "report"]
  /\ last_error' = IF call[c].op = "set" \/ call[c].stage = "first" THEN NoError ELSE last_error
  /\ UNCHANGED <<next_cmd_id, issued, started, tableVars, deviceVars, linkVars>>

(* The part of an API call that follows its wait: r is what was popped, or *)
(* NoEvent at the deadline.  ACK-based calls record the error code         *)
(* (_check_ack), a failed exchange records an EventError's code, the other *)
(* calls leave last_error alone.  configure_gpio ignores the answer of its *)
(* unbind and tries the configuration a second time.                       *)
Conclude(c, r) ==
  LET cl     == [call[c] EXCEPT !.result = r]
      failed == ~Succeeded(cl)
      acked  == cl.op \in {"set", "configure"} /\ cl.stage # "unbind"
      again  == cl.stage = "unbind" \/ (cl.stage = "first" /\ failed)
  IN /\ call' = [call EXCEPT ![c] = [cl EXCEPT !.pc = IF again THEN "retry" ELSE "report"]]
     /\ last_error' =
          IF acked THEN (IF failed /\ r # NoEvent THEN r.code ELSE NoError)
          ELSE IF cl.op = "exchange" /\ r # NoEvent /\ r.op = "error" THEN r.code
          ELSE last_error

(* Does an entry of the table answer this call?  wait_for_response and     *)
(* wait_for_capture_or_error take any entry, wait_for_response_of_type the *)
(* wanted type or an error, wait_for_event_matching a capture of the pin.  *)
Accepts(cl, e) ==
  CASE cl.op = "get"      -> e.op \in {"value", "error"}
    [] cl.op = "sync"     -> e.op \in {"sync", "error"}
    [] cl.op = "receive"  -> e.gpio = cl.gpio
    [] OTHER              -> TRUE

(* Calls that poll pending_responses[cmd_id]; receive_signal and heartbeat *)
(* poll pending_events by opcode.                                          *)
Correlated == AllOps \ {"receive", "heartbeat"}
OpcodePolled(op) == IF op = "receive" THEN "captured" ELSE "heartbeat"

(* The first entry of a table that answers the call. *)
IsFirst(cl, table, k) ==
  /\ k \in DOMAIN table
  /\ Accepts(cl, table[k])
  /\ \A j \in 1 .. k - 1 : ~Accepts(cl, table[j])

(* A poll finds an answer by command id and pops it. *)
TakeResponse(c) ==
  /\ call[c].pc = "waiting"
  /\ call[c].op \in Correlated
  /\ LET i == call[c].id
     IN \E k \in DOMAIN pending_responses[i] :
          /\ IsFirst(call[c], pending_responses[i], k)
          /\ Conclude(c, pending_responses[i][k])
          /\ pending_responses' = [pending_responses EXCEPT ![i] = RemoveAt(@, k)]
  /\ UNCHANGED <<next_cmd_id, issued, started, pending_events, handling, deviceVars, linkVars>>

TakeEventPeeks(c) ==
  /\ call[c].pc = "waiting"
  /\ call[c].op \notin Correlated
  /\ LET o == OpcodePolled(call[c].op)
     IN \E k \in DOMAIN pending_events[o] :
          IsFirst(call[c], pending_events[o], k) /\ Conclude(c, pending_events[o][k])
  /\ UNCHANGED <<next_cmd_id, issued, started, tableVars, deviceVars, linkVars>>

(* A poll finds an answer by opcode and pops it. *)
TakeEvent(c) ==
  /\ call[c].pc = "waiting"
  /\ call[c].op \notin Correlated
  /\ LET o == OpcodePolled(call[c].op)
     IN \E k \in DOMAIN pending_events[o] :
          /\ IsFirst(call[c], pending_events[o], k)
          /\ Conclude(c, pending_events[o][k])
          /\ pending_events' = [pending_events EXCEPT ![o] = RemoveAt(@, k)]
  /\ UNCHANGED <<next_cmd_id, issued, started, pending_responses, handling, deviceVars, linkVars>>

TimeoutForgetsAll(c) ==
  /\ call[c].pc = "waiting"
  /\ Conclude(c, NoEvent)
  /\ pending_responses' = [i \in CmdId |-> <<>>]
  /\ UNCHANGED <<next_cmd_id, issued, started, pending_events, handling, deviceVars, linkVars>>

TimeoutNotForUnbind(c) ==
  /\ call[c].pc = "waiting"
  /\ call[c].stage # "unbind"
  /\ Conclude(c, NoEvent)
  /\ UNCHANGED <<next_cmd_id, issued, started, tableVars, deviceVars, linkVars>>

(* The deadline passes.  The clock is read between polls, so an answer may *)
(* lie in the table already.                                               *)
Timeout(c) ==
  /\ call[c].pc = "waiting"
  /\ Conclude(c, NoEvent)
  /\ UNCHANGED <<next_cmd_id, issued, started, tableVars, deviceVars, linkVars>>

(* configure_gpio draws the id of its unbind, then that of its retry. *)
Retry(c) ==
  /\ call[c].pc = "retry"
  /\ Draw(c, call[c].op, IF call[c].stage = "first" THEN "unbind" ELSE "again", call[c].gpio)
  /\ UNCHANGED <<started, last_error, tableVars, deviceVars, linkVars>>

(* check_bridge_ok, on the event loop: a failed call is reported with      *)
(* whatever last_error holds by now.                                       *)
Report(c) ==
  /\ call[c].pc = "report"
  /\ call' = [call EXCEPT ![c].pc = "idle",
                          ![c].code = IF Succeeded(call[c]) THEN NoError ELSE last_error]
  /\ UNCHANGED <<next_cmd_id, issued, started, last_error, tableVars, deviceVars, linkVars>>

-----------------------------------------------------------------------------
(* The handler thread: handle_event takes the lock twice.  The lists of    *)
(* opcodes that no call polls only ever grow and are left out.             *)

FileByOpcode ==
  /\ handling = NoEvent
  /\ toHost # <<>>
  /\ handling' = Head(toHost)
  /\ toHost' = Tail(toHost)
  /\ pending_events' =
       IF Head(toHost).op \notin Polled THEN pending_events
       ELSE [pending_events EXCEPT ![Head(toHost).op] = Append(@, Head(toHost))]
  /\ UNCHANGED <<hostVars, pending_responses, toDevice, capturing, bound, executed, linkVars>>

FileById ==
  /\ handling # NoEvent
  /\ handling' = NoEvent
  /\ pending_responses' =
       IF handling.id = NoId THEN pending_responses
       ELSE [pending_responses EXCEPT ![handling.id] = Append(@, handling)]
  /\ UNCHANGED <<hostVars, pending_events, deviceVars, linkVars>>

(* wait_for_connection: a thread that waits for the device forgets all that *)
(* was filed before.                                                       *)
ClearPending(c) ==
  /\ call[c].pc = "idle"
  /\ connected
  /\ pending_responses' = [i \in CmdId |-> <<>>]
  /\ pending_events' = [o \in Polled |-> <<>>]
  /\ UNCHANGED <<hostVars, handling, deviceVars, linkVars>>

-----------------------------------------------------------------------------
(* The device and the link, as far as the bridge can tell.                 *)

Answer(cmd, op, code) ==
  [op |-> op, id |-> IF op = "heartbeat" THEN NoId ELSE cmd.id, gpio |-> cmd.gpio,
   code |-> code, serial |-> cmd.serial]

(* handle_command rejects the command with EVENT_ERROR; PORT_UNBIND does   *)
(* when the pin is not bound.                                              *)
Reject(cmd) ==
  /\ cmd.kind \notin {"sync", "heartbeat"}
  /\ cmd.kind = "unbind" => cmd.gpio \notin bound
  /\ \E code \in ErrCode : toHost' = Append(toHost, Answer(cmd, "error", code))
  /\ UNCHANGED <<capturing, bound, executed>>

(* handle_command executes a command that ends with EVENT_CMD_ACK. *)
AckCommand(cmd) ==
  /\ cmd.kind \in {"set", "config", "unbind"}
  /\ cmd.kind = "unbind" => cmd.gpio \in bound
  /\ bound' = CASE cmd.kind = "config" -> bound \cup {cmd.gpio}
                [] cmd.kind = "unbind" -> bound \ {cmd.gpio}
                [] OTHER               -> bound
  /\ executed' = executed \cup {cmd.serial}
  /\ toHost' = Append(toHost, Answer(cmd, "ack", NoError))
  /\ UNCHANGED capturing

(* Commands answered by a value; SYNC_REQUEST sends its ACK first. *)
ReplyValue(cmd) ==
  /\ \/ /\ cmd.kind = "get"
        /\ toHost' = Append(toHost, Answer(cmd, "value", NoError))
     \/ /\ cmd.kind = "heartbeat"
        /\ toHost' = Append(toHost, Answer(cmd, "heartbeat", NoError))
     \/ /\ cmd.kind = "sync"
        /\ toHost' = toHost \o <<Answer(cmd, "ack", NoError), Answer(cmd, "sync", NoError)>>
  /\ executed' = executed \cup {cmd.serial}
  /\ UNCHANGED <<capturing, bound>>

(* Signal commands are queued for the signal tasks. *)
StartCapture(cmd) ==
  /\ cmd.kind \in {"receive", "exchange"}
  /\ capturing' = capturing \cup {cmd}
  /\ UNCHANGED <<toHost, bound, executed>>

Dispatch ==
  /\ toDevice # <<>>
  /\ LET cmd == Head(toDevice)
     IN Reject(cmd) \/ AckCommand(cmd) \/ ReplyValue(cmd) \/ StartCapture(cmd)
  /\ toDevice' = Tail(toDevice)
  /\ UNCHANGED <<hostVars, tableVars, linkVars>>

(* A signal task finishes: capture then ACK, an error alone, an ACK alone  *)
(* when the capture could not be packed, or, for an exchange whose edge    *)
(* buffer cannot be allocated, an error and still an ACK.                  *)
FinishCapture(cmd) ==
  /\ cmd \in capturing
  /\ capturing' = capturing \ {cmd}
  /\ \/ /\ toHost' = toHost \o <<Answer(cmd, "captured", NoError), Answer(cmd, "ack", NoError)>>
        /\ executed' = executed \cup {cmd.serial}
     \/ /\ \E code \in ErrCode : toHost' = Append(toHost, Answer(cmd, "error", code))
        /\ UNCHANGED executed
     \/ /\ toHost' = Append(toHost, Answer(cmd, "ack", NoError))
        /\ executed' = executed \cup {cmd.serial}
     \/ /\ cmd.kind = "exchange"
        /\ \E code \in ErrCode :
             toHost' = toHost \o <<Answer(cmd, "error", code), Answer(cmd, "ack", NoError)>>
        /\ executed' = executed \cup {cmd.serial}
  /\ UNCHANGED <<hostVars, tableVars, linkVars, toDevice, bound>>

(* Full firmware queues drop entries, as do frames that cannot be          *)
(* allocated, and a broken connection loses what was under way.            *)
Fault == faults < MaxFaults /\ faults' = faults + 1

(* heartbeat_task sends an EVENT_HEARTBEAT that no command asked for; left *)
(* out when no call waits for one.                                         *)
Unprompted ==
  /\ "heartbeat" \in Ops
  /\ Fault
  /\ connected
  /\ \E g \in Gpio :
       toHost' = Append(toHost, [op |-> "heartbeat", id |-> NoId, gpio |-> g, code |-> NoError,
                                 serial |-> 0])
  /\ UNCHANGED <<hostVars, tableVars, toDevice, capturing, bound, executed, connected>>

LoseCommand ==
  /\ Fault
  /\ \E k \in DOMAIN toDevice : toDevice' = RemoveAt(toDevice, k)
  /\ UNCHANGED <<hostVars, tableVars, capturing, toHost, bound, executed, connected>>

LoseEvent ==
  /\ Fault
  /\ \E k \in DOMAIN toHost : toHost' = RemoveAt(toHost, k)
  /\ UNCHANGED <<hostVars, tableVars, toDevice, capturing, bound, executed, connected>>

(* The connection breaks, or the device connects again. *)
LinkChange ==
  /\ Fault
  /\ connected' = ~connected
  /\ UNCHANGED <<hostVars, tableVars, deviceVars>>

-----------------------------------------------------------------------------
CallerStep(c) == Send(c) \/ SendRefused(c) \/ TakeResponse(c) \/ TakeEvent(c) \/ Timeout(c)
                 \/ Retry(c) \/ Report(c)

Next ==
  \/ \E c \in Caller, op \in Ops, g \in Gpio : Begin(c, op, g)
  \/ \E c \in Caller : CallerStep(c)
  \/ FileByOpcode
  \/ FileById
  \/ \E c \in Caller : ClearPending(c)
  \/ Dispatch
  \/ \E cmd \in capturing : FinishCapture(cmd)
  \/ Unprompted
  \/ LoseCommand
  \/ LoseEvent
  \/ LinkChange

Spec == Init /\ [][Next]_vars

(* Executor threads run on: a started call keeps taking its steps, its     *)
(* deadline included.  Nothing is assumed of the device or of the link.    *)
FairSpec == Spec /\ \A c \in Caller : WF_vars(CallerStep(c))

-----------------------------------------------------------------------------
(* Every variable stays in its range. *)
TypeOK ==
  /\ next_cmd_id \in CmdId
  /\ issued \in Nat
  /\ started \in 0 .. MaxCalls
  /\ call \in [Caller -> Call]
  /\ last_error \in ErrCode \cup {NoError}
  /\ pending_responses \in [CmdId -> Seq(Event)]
  /\ pending_events \in [Polled -> Seq(Event)]
  /\ handling \in Event \cup {NoEvent}
  /\ connected \in BOOLEAN
  /\ faults \in 0 .. MaxFaults
  /\ toDevice \in Seq(Command)
  /\ capturing \subseteq Command
  /\ toHost \in Seq(Event)
  /\ bound \subseteq Gpio
  /\ executed \subseteq Nat

(* No id was drawn a second time yet. *)
Unwrapped == issued <= MaxCmdId

(* As long as the ids have not wrapped, a call that waits by command id is *)
(* never given the answer of another command, however late answers, lost   *)
(* ones, retries and the polls of the other threads interleave.            *)
OwnAnswer ==
  Unwrapped => \A c \in Caller :
    call[c].op \in Correlated /\ call[c].result # NoEvent
      => call[c].result.serial = call[c].serial

(* A call by command id reports success only if the device did execute the *)
(* very command: for configure_gpio, the attempt that was acknowledged.    *)
SuccessMeansExecuted ==
  Unwrapped => \A c \in Caller :
    call[c].op \in Correlated /\ call[c].pc \in {"report", "idle"} /\ Succeeded(call[c])
      => call[c].serial \in executed

(* One thread configures: if configure_gpio reports success the pin is     *)
(* configured.  No late unbind of a retry, its own or an earlier call's,   *)
(* reaches the device after the configuration that was acknowledged.       *)
ConfiguredMeansBound ==
  \A c \in Caller :
    call[c].op = "configure" /\ call[c].pc \in {"report", "idle"} /\ Succeeded(call[c])
      => call[c].gpio \in bound

(* One event never answers two calls that poll the same table, ids wrapped *)
(* or not: a poll finds and removes its entry under one hold of the lock.  *)
(* Heartbeats that no command asked for are not told apart.                *)
NoDoubleDelivery ==
  \A c, d \in Caller :
    /\ c # d
    /\ call[c].result # NoEvent
    /\ call[d].result # NoEvent
    /\ (call[c].op \in Correlated) = (call[d].op \in Correlated)
    /\ call[c].result.serial # 0
    => \/ call[c].result.serial # call[d].result.serial
       \/ call[c].result.op # call[d].result.op

(* A call that waits by command id and has its answer filed. *)
Answered(c) ==
  /\ call[c].pc = "waiting"
  /\ call[c].op \in Correlated
  /\ \E k \in DOMAIN pending_responses[call[c].id] : Accepts(call[c], pending_responses[call[c].id][k])

(* An answer that was filed for a waiting call stays there until the call  *)
(* ends its wait: no poll, timeout or late event of another thread takes   *)
(* it away.  Only wait_for_connection, which forgets everything, may.      *)
AnswerStays ==
  [][\A c \in Caller :
       Unwrapped /\ Answered(c) /\ ~(\E d \in Caller : ClearPending(d))
         => Answered(c)' \/ call'[c].pc # "waiting"]_vars

(* Every API call returns, answered or not, through all its retries. *)
EveryCallReturns == \A c \in Caller : call[c].pc # "idle" ~> call[c].pc = "idle"
=============================================================================
