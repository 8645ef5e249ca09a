----------------------------- MODULE SignalTasks -----------------------------
(***************************************************************************)
(* The signal commands of the device (gpio_signal_task.c): the dispatcher  *)
(* checks the mode of the pin and puts a command on one of two queues; the *)
(* TX task transmits and captures what follows (an exchange), or captures  *)
(* only (an exchange with nothing to send), with channels of the RMT; the  *)
(* RX task captures on request.  Captures record edges in an interrupt     *)
(* handler, into a buffer of their task.  Pins belong to nobody: the       *)
(* dispatcher reconfigures one, and both tasks may capture on it, while    *)
(* commands are queued or under way.                                       *)
(*                                                                         *)
(* Every handler, interrupt mask and buffer access is a step of its own.   *)
(* The priorities (tasks 6, dispatcher 5, one core) allow fewer orders;    *)
(* an interrupt runs to its end.  Levels, carriers and the items of the    *)
(* RMT are left out; so is an empty transmission, acknowledged at once.    *)
(* The GPIO driver is modelled from how it is used.                        *)
(***************************************************************************)
EXTENDS Integers, Sequences, FiniteSets, SequencesExt

CONSTANTS
    Pin,        \* GPIO numbers
    Command,    \* signal commands, each given at most once
    None,       \* no command
    QueueLen,   \* items a queue holds (4)
    MaxEdges,   \* edges a capture asks for
    Listen,     \* how long a capture listens: rx_total_us, timeout_us
    Modulus,    \* the number of values of a uint32_t
    Uptime,     \* values of esp_timer_get_time when a behaviour begins
    MaxConfigs  \* bound on the GPIO_CONFIG and PORT_UNBIND of one behaviour

Kind == {"transmit", "exchange", "listen", "receive"}

ASSUME SignalTasksAssumption ==
    /\ None \notin Command \union Pin \union [kind : Kind, pin : Pin]
    /\ QueueLen \in Nat \ {0} /\ MaxEdges \in Nat \ {0} /\ Listen \in Nat \ {0}
    /\ Modulus \in Nat \ {0} /\ Uptime \subseteq Nat /\ MaxConfigs \in Nat

VARIABLES
    now,        \* esp_timer_get_time
    mode,       \* gpio_table[p].mode
    handler,    \* handler[p]: whose interrupt handler the pin has
    armed,      \* pins that interrupt on any edge, once enabled
    enabled,    \* pins whose interrupt is enabled
    request,    \* request[c]: what was asked for
    disp,       \* where the dispatcher is, and with which command or pin
    queue,      \* gpio_signal_tx_queue, gpio_signal_rx_queue
    at,         \* at[t]: where task t is
    item,       \* item[t]: the command in its hand
    in_use,     \* rmt_tx_in_use (0, 1) and rmt_rx_in_use (2, 3)
    channel,    \* tx_channel and rx_channel of the item of the TX task
    buffer,     \* buffer[t]: the edges of a capture and the time of the last
    until,      \* until[t]: when it stops listening
    answers,    \* answers[c]: the events sent for it
    begun,      \* history: when t began to listen
    heard,      \* heard[c]: history: for how long, and the edges that were sent
    disturbed,  \* history: captures whose pin was used otherwise meanwhile
    undisputed, \* history: undisputed[p]: no signal command was under way on p
                \* when it was configured last
    configs     \* how many commands reconfigured a pin

pins    == <<mode, handler, armed, enabled>>
rmt     == <<in_use, channel>>
tasks   == <<at, item>>
capture == <<buffer, until, begun>>
history == <<heard, disturbed, undisputed>>
vars    == <<now, pins, request, disp, queue, tasks, rmt, capture, answers, history, configs>>

Task == {"tx", "rx"}

PinOf(c)  == request[c].pin
KindOf(c) == request[c].kind
TaskOf(c) == IF KindOf(c) = "receive" THEN "rx" ELSE "tx"

\* The commands of a queue and of its task.
Waiting(t)  == Range(queue[t])
InHand      == {item[t] : t \in Task} \ {None}
OnPin(p)    == {c \in InHand : PinOf(c) = p}
UnderWay(p) == {c \in InHand \union Waiting("tx") \union Waiting("rx") : PinOf(c) = p}

Answer(c, event) == answers' = [answers EXCEPT ![c] = Append(@, event)]

NoBuffer == [live |-> FALSE, edges |-> <<>>, last |-> 0]

-----------------------------------------------------------------------------
(* The dispatcher                                                          *)

Idle == [at |-> "idle", with |-> None]

\* A signal command whose pin is not in SIGNAL mode, whose fields make no sense
\* or whose pulses find no memory is refused.
Refuse(c) ==
    /\ disp = Idle /\ request[c] = None
    /\ \E k \in Kind, p \in Pin :
        /\ mode[p] # "signal" \/ k \in {"transmit", "exchange"}
        /\ request' = [request EXCEPT ![c] = [kind |-> k, pin |-> p]]
    /\ Answer(c, "error")
    /\ UNCHANGED <<now, pins, disp, queue, tasks, rmt, capture, history, configs>>

\* Mutant: the mode of the pin is not looked at.
AcceptAnyMode(c) ==
    /\ disp = Idle /\ request[c] = None
    /\ \E k \in Kind, p \in Pin :
        request' = [request EXCEPT ![c] = [kind |-> k, pin |-> p]]
    /\ disp' = [at |-> "queue", with |-> c]
    /\ UNCHANGED <<now, pins, queue, tasks, rmt, capture, answers, history, configs>>

Accept(c) ==
    /\ disp = Idle /\ request[c] = None
    /\ \E k \in Kind, p \in Pin :
        /\ mode[p] = "signal"
        /\ request' = [request EXCEPT ![c] = [kind |-> k, pin |-> p]]
    /\ disp' = [at |-> "queue", with |-> c]
    /\ UNCHANGED <<now, pins, queue, tasks, rmt, capture, answers, history, configs>>

\* xQueueSend, and what it does when the queue stays full for 100 ms.
Enqueue ==
    /\ disp.at = "queue"
    /\ LET t == TaskOf(disp.with)
       IN  \/ /\ Len(queue[t]) < QueueLen
              /\ queue' = [queue EXCEPT ![t] = Append(@, disp.with)]
              /\ UNCHANGED answers
           \/ /\ Len(queue[t]) = QueueLen
              /\ Answer(disp.with, "error")
              /\ UNCHANGED queue
    /\ disp' = Idle
    /\ UNCHANGED <<now, pins, request, tasks, rmt, capture, history, configs>>

\* GPIO_CONFIG writes the row, ...
Configure(p, m) ==
    /\ disp = Idle /\ configs < MaxConfigs
    /\ configs' = configs + 1
    /\ mode' = [mode EXCEPT ![p] = m]
    /\ disp' = [at |-> "config", with |-> p]
    /\ disturbed' = disturbed \union OnPin(p)
    /\ undisputed' = [undisputed EXCEPT ![p] = UnderWay(p) = {}]
    /\ UNCHANGED <<now, handler, armed, enabled, request, queue, tasks, rmt, capture, answers, heard>>

\* ... calls gpio_config, ...
ApplyConfig ==
    /\ disp.at = "config"
    /\ LET p == disp.with
           edges == mode[p] = "interrupt"
       IN  /\ armed' = [armed EXCEPT ![p] = edges]
           /\ enabled' = [enabled EXCEPT ![p] = edges]
           /\ disp' = IF edges THEN [disp EXCEPT !.at = "handler"] ELSE Idle
    /\ UNCHANGED <<now, mode, handler, request, queue, tasks, rmt, capture, answers, history, configs>>

\* ... and for INTERRUPT gpio_isr_handler_add, which enables the interrupt.
AddEdgeHandler ==
    /\ disp.at = "handler"
    /\ handler' = [handler EXCEPT ![disp.with] = "edge"]
    /\ enabled' = [enabled EXCEPT ![disp.with] = TRUE]
    /\ disp' = Idle
    /\ UNCHANGED <<now, mode, armed, request, queue, tasks, rmt, capture, answers, history, configs>>

\* PORT_UNBIND: the row, the handler of an INTERRUPT pin, then gpio_reset_pin.
Unbind(p) ==
    /\ disp = Idle /\ configs < MaxConfigs /\ mode[p] # "none"
    /\ configs' = configs + 1
    /\ mode' = [mode EXCEPT ![p] = "none"]
    /\ disp' = [at |-> IF mode[p] = "interrupt" THEN "remove" ELSE "reset", with |-> p]
    /\ disturbed' = disturbed \union OnPin(p)
    /\ UNCHANGED <<now, handler, armed, enabled, request, queue, tasks, rmt, capture, answers,
                   heard, undisputed>>

RemoveEdgeHandler ==
    /\ disp.at = "remove"
    /\ handler' = [handler EXCEPT ![disp.with] = "none"]
    /\ enabled' = [enabled EXCEPT ![disp.with] = FALSE]
    /\ disp' = [disp EXCEPT !.at = "reset"]
    /\ UNCHANGED <<now, mode, armed, request, queue, tasks, rmt, capture, answers, history, configs>>

ResetPin ==
    /\ disp.at = "reset"
    /\ armed' = [armed EXCEPT ![disp.with] = FALSE]
    /\ enabled' = [enabled EXCEPT ![disp.with] = FALSE]
    /\ disp' = Idle
    /\ UNCHANGED <<now, mode, handler, request, queue, tasks, rmt, capture, answers, history, configs>>

Dispatcher ==
    \/ \E c \in Command : Refuse(c) \/ Accept(c)
    \/ Enqueue
    \/ \E p \in Pin : Unbind(p) \/ \E m \in {"signal", "interrupt"} : Configure(p, m)
    \/ ApplyConfig \/ AddEdgeHandler \/ RemoveEdgeHandler \/ ResetPin

-----------------------------------------------------------------------------
(* What both tasks do                                                      *)

\* Task t goes on to another step of its command, or has finished it.
Goes(t, step) == at' = [at EXCEPT ![t] = step] /\ UNCHANGED item
Finishes(t)   == at' = [at EXCEPT ![t] = "idle"] /\ item' = [item EXCEPT ![t] = None]

Hook(t, p) ==
    /\ handler' = [handler EXCEPT ![p] = t]
    /\ enabled' = [enabled EXCEPT ![p] = TRUE]

\* gpio_isr_handler_remove, gpio_intr_disable: whosever handler it is.
Unhook(p) ==
    /\ handler' = [handler EXCEPT ![p] = "none"]
    /\ enabled' = [enabled EXCEPT ![p] = FALSE]

Free(t) == buffer' = [buffer EXCEPT ![t] = NoBuffer]

\* The first command of a queue comes into the hands of its task.
Take(t) ==
    /\ at[t] = "idle" /\ queue[t] # <<>>
    /\ queue' = [queue EXCEPT ![t] = Tail(@)]
    /\ LET c == Head(queue[t])
           others == OnPin(PinOf(c))
       IN  disturbed' = disturbed \union others \union
                        IF others # {} \/ disp.with = PinOf(c) THEN {c} ELSE {}

\* A capture by interrupts listens until its time is over or its buffer full.
Over(t) == now >= until[t] \/ Len(buffer[t].edges) >= MaxEdges

\* build_signal_capture_payload, which may find no memory, and its event.
SendCapture(t) ==
    \/ /\ Answer(item[t], "captured")
       /\ heard' = [heard EXCEPT ![item[t]] =
                       [time |-> now - begun[t], edges |-> buffer[t].edges]]
    \/ UNCHANGED <<answers, heard>>

-----------------------------------------------------------------------------
(* gpio_signal_tx_task                                                     *)

NoChannel == [tx |-> -1, rx |-> -1]

Release(chs) == in_use' = in_use \ chs

\* A command that fails: an error, its channels released, the next one.
Fails ==
    /\ Answer(item["tx"], "error")
    /\ Release({channel.tx, channel.rx})
    /\ channel' = NoChannel
    /\ Finishes("tx")

\* A command is taken; its carrier may be out of range.
TxTake ==
    /\ Take("tx")
    /\ LET c == Head(queue["tx"])
       IN  \/ /\ at' = [at EXCEPT !["tx"] = "reserve"]
              /\ item' = [item EXCEPT !["tx"] = c]
              /\ UNCHANGED answers
           \/ Answer(c, "error") /\ UNCHANGED tasks
    /\ UNCHANGED <<now, pins, request, disp, rmt, capture, heard, undisputed, configs>>

FreeOf(chs) == chs \ in_use
Lowest(chs) == CHOOSE n \in chs : \A m \in chs : n <= m

\* Mutant: a capture reserves a channel, and then another one.
ReserveTwice ==
    /\ at["tx"] = "reserve" /\ FreeOf({0, 1}) # {} /\ FreeOf({2, 3}) # {}
    /\ IF KindOf(item["tx"]) = "listen"
       THEN /\ in_use' = in_use \union {2, 3}
            /\ channel' = [tx |-> -1, rx |-> 3]
            /\ Goes("tx", "rmt_setup")
       ELSE /\ in_use' = in_use \union {Lowest(FreeOf({0, 1}))}
            /\ channel' = [tx |-> Lowest(FreeOf({0, 1})), rx |-> -1]
            /\ Goes("tx", "drive")
    /\ UNCHANGED <<now, pins, request, disp, queue, capture, answers, history, configs>>

\* Channels are reserved when the command is executed: one to transmit, and if
\* there is nothing to transmit one to receive, after which the first is released.
Reserve ==
    /\ at["tx"] = "reserve"
    /\ LET listens == KindOf(item["tx"]) = "listen"
       IN  IF FreeOf({0, 1}) = {} \/ (listens /\ FreeOf({2, 3}) = {})
           THEN Fails
           ELSE LET n == Lowest(FreeOf(IF listens THEN {2, 3} ELSE {0, 1}))
                IN  /\ in_use' = in_use \union {n}
                    /\ channel' = IF listens THEN [tx |-> -1, rx |-> n] ELSE [tx |-> n, rx |-> -1]
                    /\ Goes("tx", IF listens THEN "rmt_setup" ELSE "drive")
                    /\ UNCHANGED answers
    /\ UNCHANGED <<now, pins, request, disp, queue, capture, history, configs>>

\* rmt_config, rmt_driver_install
Drive ==
    /\ at["tx"] = "drive"
    /\ \/ /\ Goes("tx", IF KindOf(item["tx"]) = "exchange" THEN "arm" ELSE "send")
          /\ UNCHANGED <<rmt, answers>>
       \/ Fails
    /\ UNCHANGED <<now, pins, request, disp, queue, capture, history, configs>>

\* The handler of an exchange is added before anything is sent, ...
Arm ==
    /\ at["tx"] = "arm"
    /\ LET p == PinOf(item["tx"])
       IN  \/ /\ armed' = [armed EXCEPT ![p] = TRUE]
              /\ Hook("tx", p)
              /\ buffer' = [buffer EXCEPT !["tx"] = [NoBuffer EXCEPT !.live = TRUE]]
              /\ Goes("tx", "quiet")
              /\ UNCHANGED <<rmt, answers>>
           \/ /\ Fails
              /\ armed' \in {armed, [armed EXCEPT ![p] = TRUE]}
              /\ UNCHANGED <<handler, enabled, buffer>>
    /\ UNCHANGED <<now, mode, request, disp, queue, until, begun, history, configs>>

\* ... which enables the interrupt; it is disabled while the TX task sends.
Quiet ==
    /\ at["tx"] = "quiet"
    /\ enabled' = [enabled EXCEPT ![PinOf(item["tx"])] = FALSE]
    /\ Goes("tx", "send")
    /\ UNCHANGED <<now, mode, handler, armed, request, disp, queue, rmt, capture, answers, history, configs>>

\* rmt_write_items of every chunk and repetition, or no memory for a chunk.
Send ==
    /\ at["tx"] = "send"
    /\ LET exchange == KindOf(item["tx"]) = "exchange"
       IN  \/ /\ Goes("tx", IF exchange THEN "reset" ELSE "ack")
              /\ UNCHANGED <<handler, enabled, buffer, rmt, answers>>
           \/ /\ Fails
              /\ IF exchange
                 THEN Unhook(PinOf(item["tx"])) /\ Free("tx")
                 ELSE UNCHANGED <<handler, enabled, buffer>>
    /\ UNCHANGED <<now, mode, armed, request, disp, queue, until, begun, history, configs>>

\* Mutant: edges from before stay.
ResetCountNot ==
    /\ at["tx"] = "reset"
    /\ Goes("tx", "start")
    /\ UNCHANGED <<now, pins, request, disp, queue, rmt, capture, answers, history, configs>>

\* edge_count = 0
ResetCount ==
    /\ at["tx"] = "reset"
    /\ buffer' = [buffer EXCEPT !["tx"].edges = <<>>]
    /\ Goes("tx", "start")
    /\ UNCHANGED <<now, pins, request, disp, queue, rmt, until, begun, answers, history, configs>>

\* last_edge_time = now; gpio_intr_enable
Start ==
    /\ at["tx"] = "start"
    /\ buffer' = [buffer EXCEPT !["tx"].last = now]
    /\ enabled' = [enabled EXCEPT ![PinOf(item["tx"])] = TRUE]
    /\ until' = [until EXCEPT !["tx"] = now + Listen]
    /\ begun' = [begun EXCEPT !["tx"] = now]
    /\ Goes("tx", "listening")
    /\ UNCHANGED <<now, mode, handler, armed, request, disp, queue, rmt, answers, history, configs>>

Stop ==
    /\ at["tx"] = "listening" /\ Over("tx")
    /\ Unhook(PinOf(item["tx"]))
    /\ Goes("tx", "report")
    /\ UNCHANGED <<now, mode, armed, request, disp, queue, rmt, capture, answers, history, configs>>

Report ==
    /\ at["tx"] = "report"
    /\ SendCapture("tx")
    /\ Free("tx")
    /\ Goes("tx", "ack")
    /\ UNCHANGED <<now, pins, request, disp, queue, rmt, until, begun, disturbed, undisputed, configs>>

\* Capture only.  Without memory for the edges an error is sent, and still an ACK.
RmtSetup ==
    /\ at["tx"] = "rmt_setup"
    /\ \/ /\ until' = [until EXCEPT !["tx"] = (now + Listen) % Modulus]
          /\ begun' = [begun EXCEPT !["tx"] = now]
          /\ Goes("tx", "rmt")
          /\ UNCHANGED <<rmt, answers>>
       \/ Fails /\ UNCHANGED <<until, begun>>
       \/ /\ Answer(item["tx"], "error")
          /\ Release({channel.rx})
          /\ channel' = NoChannel
          /\ Goes("tx", "ack")
          /\ UNCHANGED <<until, begun>>
    /\ UNCHANGED <<now, pins, request, disp, queue, buffer, history, configs>>

\* Mutant: the loop asks once.
RmtReportAtOnce ==
    /\ at["tx"] = "rmt"
    /\ SendCapture("tx")
    /\ Release({channel.rx})
    /\ channel' = NoChannel
    /\ Goes("tx", "ack")
    /\ UNCHANGED <<now, pins, request, disp, queue, capture, disturbed, undisputed, configs>>

\* The loop compares a time of 64 bits with one of 32.
RmtReport ==
    /\ at["tx"] = "rmt" /\ now >= until["tx"]
    /\ SendCapture("tx")
    /\ Release({channel.rx})
    /\ channel' = NoChannel
    /\ Goes("tx", "ack")
    /\ UNCHANGED <<now, pins, request, disp, queue, capture, disturbed, undisputed, configs>>

TxAck ==
    /\ at["tx"] = "ack"
    /\ Answer(item["tx"], "ack")
    /\ Release({channel.tx})
    /\ channel' = NoChannel
    /\ Finishes("tx")
    /\ UNCHANGED <<now, pins, request, disp, queue, capture, history, configs>>

TxTask ==
    \/ TxTake \/ Reserve \/ Drive \/ Arm \/ Quiet \/ Send \/ ResetCount \/ Start \/ Stop
    \/ Report \/ RmtSetup \/ RmtReport \/ TxAck

-----------------------------------------------------------------------------
(* gpio_signal_rx_task                                                     *)

\* Without memory or interrupt service the command fails.
RxTake ==
    /\ Take("rx")
    /\ LET c == Head(queue["rx"])
       IN  \/ /\ at' = [at EXCEPT !["rx"] = "enable"]
              /\ item' = [item EXCEPT !["rx"] = c]
              /\ buffer' = [buffer EXCEPT !["rx"] = [live |-> TRUE, edges |-> <<>>, last |-> now]]
              /\ begun' = [begun EXCEPT !["rx"] = now]
              /\ UNCHANGED answers
           \/ Answer(c, "error") /\ UNCHANGED <<tasks, buffer, begun>>
    /\ UNCHANGED <<now, pins, request, disp, rmt, until, heard, undisputed, configs>>

\* gpio_set_intr_type, gpio_intr_enable: for whatever handler there is, ...
RxEnable ==
    /\ at["rx"] = "enable"
    /\ armed' = [armed EXCEPT ![PinOf(item["rx"])] = TRUE]
    /\ enabled' = [enabled EXCEPT ![PinOf(item["rx"])] = TRUE]
    /\ Goes("rx", "hook")
    /\ UNCHANGED <<now, mode, handler, request, disp, queue, rmt, capture, answers, history, configs>>

\* ... until this one is added.
RxHook ==
    /\ at["rx"] = "hook"
    /\ Hook("rx", PinOf(item["rx"]))
    /\ until' = [until EXCEPT !["rx"] = now + Listen]
    /\ Goes("rx", "listening")
    /\ UNCHANGED <<now, mode, armed, request, disp, queue, rmt, buffer, begun, answers, history, configs>>

\* Mutant: the buffer is freed while the handler is still there.
RxReportFrees ==
    /\ at["rx"] = "listening" /\ Over("rx")
    /\ SendCapture("rx")
    /\ Free("rx")
    /\ Goes("rx", "unhook")
    /\ UNCHANGED <<now, pins, request, disp, queue, rmt, until, begun, disturbed, undisputed, configs>>

\* The edges are sent while the handler may still add to them.
RxReport ==
    /\ at["rx"] = "listening" /\ Over("rx")
    /\ SendCapture("rx")
    /\ Goes("rx", "unhook")
    /\ UNCHANGED <<now, pins, request, disp, queue, rmt, capture, disturbed, undisputed, configs>>

RxUnhook ==
    /\ at["rx"] = "unhook"
    /\ Unhook(PinOf(item["rx"]))
    /\ Goes("rx", "ack")
    /\ UNCHANGED <<now, mode, armed, request, disp, queue, rmt, capture, answers, history, configs>>

\* Mutant: the ACK is missing.
RxAckMissing ==
    /\ at["rx"] = "ack"
    /\ Free("rx")
    /\ Finishes("rx")
    /\ UNCHANGED <<now, pins, request, disp, queue, rmt, until, begun, answers, history, configs>>

RxAck ==
    /\ at["rx"] = "ack"
    /\ Free("rx")
    /\ Answer(item["rx"], "ack")
    /\ Finishes("rx")
    /\ UNCHANGED <<now, pins, request, disp, queue, rmt, until, begun, history, configs>>

RxTask == RxTake \/ RxEnable \/ RxHook \/ RxReport \/ RxUnhook \/ RxAck

-----------------------------------------------------------------------------
\* exchange_capture_isr, signal_capture_isr: an edge of the pin.
Edge(p) ==
    /\ armed[p] /\ enabled[p] /\ handler[p] \in Task
    /\ LET t == handler[p]
       IN  /\ buffer[t].live /\ Len(buffer[t].edges) < MaxEdges
           /\ buffer' = [buffer EXCEPT ![t].edges = Append(@, now - buffer[t].last),
                                       ![t].last = now]
    /\ UNCHANGED <<now, pins, request, disp, queue, tasks, rmt, until, begun, answers, history, configs>>

\* Time passes.  It matters to those that listen only.
Tick ==
    /\ \E t \in Task : at[t] \in {"listening", "rmt"} /\ now < until[t]
    /\ now' = now + 1
    /\ UNCHANGED <<pins, request, disp, queue, tasks, rmt, capture, answers, history, configs>>

\* Pins are as they were restored, in one mode or the other.
Init ==
    /\ now \in Uptime
    /\ mode \in [Pin -> {"signal", "interrupt"}]
    /\ handler = [p \in Pin |-> IF mode[p] = "interrupt" THEN "edge" ELSE "none"]
    /\ undisputed = [p \in Pin |-> mode[p] = "interrupt"]
    /\ armed = undisputed /\ enabled = undisputed
    /\ request = [c \in Command |-> None]
    /\ disp = Idle
    /\ queue = [t \in Task |-> <<>>]
    /\ at = [t \in Task |-> "idle"] /\ item = [t \in Task |-> None]
    /\ in_use = {} /\ channel = NoChannel
    /\ buffer = [t \in Task |-> NoBuffer]
    /\ until = [t \in Task |-> 0] /\ begun = [t \in Task |-> 0]
    /\ answers = [c \in Command |-> <<>>]
    /\ heard = [c \in Command |-> None]
    /\ disturbed = {}
    /\ configs = 0

Next == Dispatcher \/ TxTask \/ RxTask \/ (\E p \in Pin : Edge(p)) \/ Tick

\* The dispatcher and the tasks run, what they wait for being bounded, and time
\* passes; whether commands come and edges strike is left open.
Fairness ==
    /\ WF_vars(Enqueue) /\ WF_vars(ApplyConfig \/ AddEdgeHandler \/ RemoveEdgeHandler \/ ResetPin)
    /\ WF_vars(TxTask) /\ WF_vars(RxTask) /\ WF_vars(Tick)

Spec == Init /\ [][Next]_vars /\ Fairness

-----------------------------------------------------------------------------
(* Properties                                                              *)

\* Between two commands no channel is reserved, and during one no channel but
\* its own: whatever fails, channels do not run out and make "all later
\* captures fail" (gpio_signal_task.c:458-461).
ChannelsReturned ==
    in_use = {channel.tx, channel.rx} \ {-1} /\ (at["tx"] = "idle" => in_use = {})

\* The handler of a capture is on no pin but that of the command in the hand of
\* its task, and its buffer is allocated: no edge is written into memory that was
\* freed, even when both tasks and the dispatcher replace and remove each
\* other's handlers on one pin (gpio_signal_task.c:34-50, 600-615).
HandlerHasBuffer ==
    \A p \in Pin : handler[p] \in Task =>
        LET t == handler[p] IN buffer[t].live /\ item[t] # None /\ PinOf(item[t]) = p

Sum(durations) == FoldLeft(LAMBDA sum, d : sum + d, 0, durations)

\* The edges of a capture that has its pin for itself are of the time it
\* listened: their durations add up to no more, though its handler is added, and
\* enabled, before the transmission (gpio_signal_task.c:308-323, 417-421).
EdgesOfListening ==
    \A c \in Command : heard[c] # None /\ c \notin disturbed =>
        Sum(heard[c].edges) <= heard[c].time

\* A capture listens for the time it was asked to, unless its buffer is full:
\* "the total capture time is controlled by rx_total_us of the software loop"
\* (gpio_signal_task.c:482).  A capture without a transmission keeps its end in
\* 32 bits (line 518) and does not once the clock gets there; the others do.
ListensLongEnough ==
    \A c \in Command : heard[c] # None =>
        \/ heard[c].time >= Listen
        \/ Len(heard[c].edges) = MaxEdges
        \/ KindOf(c) = "listen" /\ now + Listen >= Modulus

\* A pin configured as INTERRUPT while no signal command was under way on it
\* keeps its edge handler, whatever signal commands come: that the mode is checked
\* before a command is queued is enough for those (command_dispatcher.c:518, 606,
\* 655).  For those queued before it is not.
InterruptPinReports ==
    \A p \in Pin : mode[p] = "interrupt" /\ undisputed[p] /\ disp.with # p =>
        handler[p] = "edge" /\ armed[p] /\ enabled[p]

\* Every signal command gets a verdict.
EveryCommandAnswered ==
    \A c \in Command :
        request[c] # None ~> \E i \in 1..Len(answers[c]) : answers[c][i] \in {"ack", "error"}
=============================================================================
