-------------------------- MODULE SignalTasksProofs --------------------------
(* What SignalTasks guarantees for any number of pins, commands and      *)
(* reconfigurations, any length of the queues, captures and buffers, and *)
(* wherever the clock begins.                                            *)
EXTENDS SignalTasks, SequenceTheorems, WellFoundedInduction, TLAPS

-----------------------------------------------------------------------------
(* The inductive invariant.                                                *)

TxStep == {"idle", "reserve", "drive", "arm", "quiet", "send", "reset", "start", "listening",
           "report", "rmt_setup", "rmt", "ack"}
RxStep == {"idle", "enable", "hook", "listening", "unhook", "ack"}

\* Steps of the dispatcher with a pin in its hand.
PinStep == {"config", "handler", "remove", "reset"}

Buffer  == [live : BOOLEAN, edges : Seq(Int), last : Nat]
Capture == [time : Int, edges : Seq(Int)]

PinsOK ==
    /\ now \in Nat /\ configs \in 0..MaxConfigs
    /\ mode \in [Pin -> {"none", "signal", "interrupt"}]
    /\ handler \in [Pin -> {"none", "edge"} \union Task]
    /\ armed \in [Pin -> BOOLEAN] /\ enabled \in [Pin -> BOOLEAN]
    /\ undisputed \in [Pin -> BOOLEAN]
    /\ disp \in [at : {"idle", "queue"} \union PinStep, with : Command \union Pin \union {None}]

CommandsOK ==
    /\ request \in [Command -> [kind : Kind, pin : Pin] \union {None}]
    /\ queue \in [Task -> Seq(Command)]
    /\ answers \in [Command -> Seq({"error", "captured", "ack"})]
    /\ heard \in [Command -> Capture \union {None}]
    /\ disturbed \subseteq Command

TasksOK ==
    /\ at \in [Task -> TxStep \union RxStep] /\ at["tx"] \in TxStep /\ at["rx"] \in RxStep
    /\ item \in [Task -> Command \union {None}]
    /\ in_use \subseteq 0..3 /\ channel \in [tx : {-1, 0, 1}, rx : {-1, 2, 3}]
    /\ buffer \in [Task -> Buffer] /\ until \in [Task -> Nat] /\ begun \in [Task -> Nat]

\* Every variable stays in its range.
TypeOK == PinsOK /\ CommandsOK /\ TasksOK

Asked(c) == c \in Command /\ request[c] # None

\* What is queued or in a hand was asked for, and a task has a command in its
\* hand unless it is idle; the TX task hooks the pins of exchanges only.
Hands ==
    /\ disp.at = "queue" => Asked(disp.with)
    /\ disp.at \in PinStep => disp.with \in Pin
    /\ \A t \in Task : /\ at[t] = "idle" <=> item[t] = None
                       /\ item[t] # None => Asked(item[t])
                       /\ \A c \in Waiting(t) : Asked(c)
    /\ at["tx"] \in {"arm", "quiet", "reset", "start", "listening", "report"}
         => KindOf(item["tx"]) = "exchange"
    /\ at["tx"] \in {"rmt_setup", "rmt"} => KindOf(item["tx"]) = "listen"
    /\ \A c \in Command : heard[c] # None => Asked(c)

\* While task t may have its handler on a pin, and the buffer behind it.
Hooking(t) ==
    IF t = "tx"
    THEN /\ at["tx"] \in {"quiet", "send", "reset", "start", "listening"}
         /\ KindOf(item["tx"]) = "exchange"
    ELSE at["rx"] \in {"listening", "unhook"}

\* The RX task has its buffer from when it takes a command.
Holding(t) == IF t = "tx" THEN Hooking("tx") ELSE at["rx"] # "idle"

Buffers ==
    /\ \A t \in Task : Holding(t) => buffer[t].live
    /\ \A t \in Task, p \in Pin : handler[p] = t => Hooking(t) /\ PinOf(item[t]) = p

Channels ==
    /\ in_use = {channel.tx, channel.rx} \ {-1}
    /\ at["tx"] \in {"idle", "reserve"} => channel = NoChannel
    /\ at["tx"] \in {"rmt_setup", "rmt"} => channel.tx = -1
    /\ at["tx"] \notin {"rmt_setup", "rmt"} => channel.rx = -1

\* Captures listen until their time is over, as far as 32 bits go.
Heeds(t) ==
    /\ begun[t] <= now /\ Len(buffer[t].edges) <= MaxEdges
    /\ at[t] \in {"listening", "report"} => until[t] >= begun[t] + Listen
    /\ at[t] = "report" => Over(t)
    /\ at[t] = "rmt" => until[t] = (begun[t] + Listen) % Modulus

Listening == \A t \in Task : Heeds(t)

\* No signal command is under way on pin p, nor about to be queued.
Quieted(p) ==
    /\ disp.at = "queue" => PinOf(disp.with) # p
    /\ \A t \in Task : /\ item[t] # None => PinOf(item[t]) # p
                       /\ \A c \in Waiting(t) : PinOf(c) # p

\* What the dispatcher has still to do to a pin configured as INTERRUPT.
Interrupts ==
    /\ disp.at \in {"remove", "reset"} => mode[disp.with] = "none"
    /\ \A p \in Pin : mode[p] = "interrupt" /\ undisputed[p] =>
         /\ Quieted(p)
         /\ ~(disp.at = "config" /\ disp.with = p) => armed[p] /\ enabled[p]
         /\ ~(disp.at \in {"config", "handler"} /\ disp.with = p) => handler[p] = "edge"

\* The dispatcher and the other task are off the pin of a capture that has it
\* for itself.
Undisturbed(t) == item[t] # None /\ item[t] \notin disturbed

Private ==
    \A t \in Task : Undisturbed(t) =>
        /\ disp.at \in PinStep => disp.with # PinOf(item[t])
        /\ \A u \in Task \ {t} : item[u] # None => PinOf(item[u]) # PinOf(item[t])

\* While the TX task has a buffer.
Capturing ==
    /\ at["tx"] \in {"quiet", "send", "reset", "start", "listening", "report"}
    /\ KindOf(item["tx"]) = "exchange"

\* The edges of a buffer tell the time from when the capture began to the last.
Told(t) == begun[t] + Sum(buffer[t].edges) = buffer[t].last /\ buffer[t].last <= now

\* The edges that strike before and during a transmission are forgotten.
Clocked ==
    /\ ~Capturing => buffer["tx"].edges = <<>>
    /\ Undisturbed("tx") =>
        /\ Capturing /\ at["tx"] \in {"send", "reset", "start"} => ~enabled[PinOf(item["tx"])]
        /\ at["tx"] = "start" => buffer["tx"].edges = <<>>
        /\ at["tx"] \in {"listening", "report"} => Told("tx")
    /\ at["rx"] # "idle" => Told("rx")

IInv ==
    /\ TypeOK /\ Hands /\ Buffers /\ Channels /\ Listening /\ Interrupts /\ Private /\ Clocked
    /\ ListensLongEnough /\ EdgesOfListening

-----------------------------------------------------------------------------
(* Types.                                                                  *)

\* The channel that is chosen is one of those that are free.
LEMMA LowestIsFree ==
    /\ FreeOf({0, 1}) # {} => Lowest(FreeOf({0, 1})) \in FreeOf({0, 1})
    /\ FreeOf({2, 3}) # {} => Lowest(FreeOf({2, 3})) \in FreeOf({2, 3})
<1>1. ASSUME NEW a \in Int, NEW b \in Int, a < b, NEW S, S \subseteq {a, b}, S # {}
      PROVE  Lowest(S) \in S
  <2>1. CASE a \in S
    <3>1. \A m \in S : a <= m
      BY <1>1
    <3> QED BY <2>1, <3>1 DEF Lowest
  <2>2. CASE a \notin S
    <3>1. S = {b}
      BY <1>1, <2>2
    <3> QED BY <3>1 DEF Lowest
  <2> QED BY <2>1, <2>2
<1>2. FreeOf({0, 1}) \subseteq {0, 1} /\ FreeOf({2, 3}) \subseteq {2, 3}
  BY DEF FreeOf
<1> DEFINE tx == FreeOf({0, 1})  rx == FreeOf({2, 3})
<1> HIDE DEF tx, rx
<1>3. tx # {} => Lowest(tx) \in tx
  BY <1>1, <1>2 DEF tx
<1>4. rx # {} => Lowest(rx) \in rx
  BY <1>1, <1>2 DEF rx
<1> QED BY <1>3, <1>4 DEF tx, rx

\* An event is added to the answers of a command, and to no other.
LEMMA AnswerTyped ==
    ASSUME CommandsOK, NEW c \in Command, NEW e \in {"error", "captured", "ack"}, Answer(c, e)
    PROVE  answers' \in [Command -> Seq({"error", "captured", "ack"})]
BY DEF CommandsOK, Answer

\* What waits in a queue, before and after a command is taken or added.
LEMMA WaitingSteps ==
    ASSUME NEW q \in Seq(Command)
    PROVE  /\ q # <<>> => /\ Head(q) \in Range(q) /\ Tail(q) \in Seq(Command)
                          /\ Range(Tail(q)) \subseteq Range(q)
           /\ Range(q) \subseteq Command
           /\ \A c \in Command : Range(Append(q, c)) = Range(q) \union {c}
<1>1. \A s \in Seq(Command) : Range(s) = {s[i] : i \in 1..Len(s)}
  BY DEF Range
<1>2. ASSUME q # <<>>
      PROVE  /\ Head(q) \in Range(q) /\ Tail(q) \in Seq(Command)
             /\ Range(Tail(q)) \subseteq Range(q)
  <2>1. /\ Tail(q) \in Seq(Command) /\ Len(Tail(q)) = Len(q) - 1 /\ Len(q) \in Nat \ {0}
        /\ \A i \in 1..Len(Tail(q)) : Tail(q)[i] = q[i + 1]
    BY <1>2, HeadTailProperties
  <2>2. 1 \in 1..Len(q) /\ Head(q) = q[1]
    BY <1>2, <2>1
  <2>3. \A i \in 1..Len(Tail(q)) : Tail(q)[i] \in {q[j] : j \in 1..Len(q)}
    BY <2>1
  <2>4. Range(Tail(q)) = {Tail(q)[i] : i \in 1..Len(Tail(q))} /\ Range(q) = {q[i] : i \in 1..Len(q)}
    BY <1>1, <2>1
  <2>5. Head(q) \in Range(q)
    BY <2>2, <2>4
  <2>6. Range(Tail(q)) \subseteq Range(q)
    BY <2>3, <2>4
  <2> QED BY <2>1, <2>5, <2>6
<1>3. ASSUME NEW c \in Command PROVE Range(Append(q, c)) = Range(q) \union {c}
  <2>1. /\ Append(q, c) \in Seq(Command) /\ Len(Append(q, c)) = Len(q) + 1 /\ Len(q) \in Nat
        /\ \A i \in 1..Len(q) : Append(q, c)[i] = q[i]
        /\ Append(q, c)[Len(q) + 1] = c
    BY AppendProperties
  <2>2. {Append(q, c)[i] : i \in 1..(Len(q) + 1)} = {q[i] : i \in 1..Len(q)} \union {c}
    BY <2>1
  <2> QED BY <1>1, <2>1, <2>2
<1> QED BY <1>1, <1>2, <1>3

LEMMA HandsHold ==
    ASSUME TypeOK, Hands
    PROVE  /\ \A t \in Task : at[t] # "idle" =>
                 item[t] \in Command /\ request[item[t]] \in [kind : Kind, pin : Pin]
           /\ \A t \in Task : queue[t] # <<>> =>
                 /\ Head(queue[t]) \in Command
                 /\ request[Head(queue[t])] \in [kind : Kind, pin : Pin]
                 /\ Tail(queue[t]) \in Seq(Command)
           /\ disp.at = "queue" =>
                 disp.with \in Command /\ request[disp.with] \in [kind : Kind, pin : Pin]
<1> USE DEF TypeOK, CommandsOK, TasksOK
<1>1. ASSUME NEW t \in Task, queue[t] # <<>>
      PROVE  /\ Head(queue[t]) \in Command /\ request[Head(queue[t])] # None
             /\ Tail(queue[t]) \in Seq(Command)
  BY <1>1, WaitingSteps DEF Hands, Asked, Waiting
<1> QED BY <1>1 DEF Hands, Asked, Task

\* Where the tasks are, and what is in their hands.
Placed == at \in [Task -> TxStep \union RxStep] /\ at["tx"] \in TxStep /\ at["rx"] \in RxStep

\* A step of the TX task that fails leaves nothing behind.
LEMMA FailsTyped ==
    ASSUME TypeOK, Hands, at["tx"] # "idle", Fails
    PROVE  /\ answers' \in [Command -> Seq({"error", "captured", "ack"})]
           /\ in_use' \subseteq 0..3 /\ channel' \in [tx : {-1, 0, 1}, rx : {-1, 2, 3}]
           /\ Placed' /\ at'["tx"] = "idle" /\ at'["rx"] = at["rx"]
           /\ item' \in [Task -> Command \union {None}] /\ item'["tx"] = None
           /\ item'["rx"] = item["rx"]
<1>1. item["tx"] \in Command
  BY HandsHold DEF Task
<1>2. answers' \in [Command -> Seq({"error", "captured", "ack"})]
  BY <1>1, AnswerTyped DEF Fails, TypeOK
<1>3. in_use' \subseteq 0..3
  BY DEF Fails, Release, TypeOK, TasksOK
<1>4. channel' \in [tx : {-1, 0, 1}, rx : {-1, 2, 3}]
  BY DEF Fails, NoChannel
<1> QED BY <1>2, <1>3, <1>4 DEF Fails, Finishes, TypeOK, TasksOK, TxStep, RxStep, Task, Placed

\* A capture is sent, or not.
LEMMA SendCaptureTyped ==
    ASSUME TypeOK, Hands, NEW t \in Task, at[t] # "idle", SendCapture(t)
    PROVE  /\ answers' \in [Command -> Seq({"error", "captured", "ack"})]
           /\ heard' \in [Command -> Capture \union {None}]
<1>1. item[t] \in Command
  BY HandsHold
<1>2. CASE Answer(item[t], "captured") /\ heard' = [heard EXCEPT ![item[t]] =
                       [time |-> now - begun[t], edges |-> buffer[t].edges]]
  <2>1. [time |-> now - begun[t], edges |-> buffer[t].edges] \in Capture
    BY DEF TypeOK, PinsOK, TasksOK, Capture, Buffer
  <2>2. heard' \in [Command -> Capture \union {None}]
    BY <1>1, <1>2, <2>1 DEF TypeOK, CommandsOK
  <2> QED BY <1>1, <1>2, <2>2, AnswerTyped DEF TypeOK
<1>3. CASE UNCHANGED <<answers, heard>>
  BY <1>3 DEF TypeOK, CommandsOK
<1> QED BY <1>2, <1>3 DEF SendCapture

LEMMA DispatcherTyped == TypeOK /\ Hands /\ Dispatcher => TypeOK'
<1> SUFFICES ASSUME TypeOK, Hands, Dispatcher PROVE TypeOK'
  OBVIOUS
<1> USE SignalTasksAssumption DEF TypeOK, pins, rmt, tasks, capture, history, PinStep
<1>1. TasksOK'
  BY DEF TasksOK, Dispatcher, Refuse, Accept, Enqueue, Configure, ApplyConfig, AddEdgeHandler,
         Unbind, RemoveEdgeHandler, ResetPin
<1>2. ASSUME NEW c \in Command, Refuse(c) \/ Accept(c) PROVE PinsOK' /\ CommandsOK'
  <2>1. PinsOK'
    BY <1>2 DEF Refuse, Accept, PinsOK
  <2>2. UNCHANGED <<queue, heard, disturbed>>
    BY <1>2 DEF Refuse, Accept
  <2>3. request' \in [Command -> [kind : Kind, pin : Pin] \union {None}]
    <3>1. PICK r \in [kind : Kind, pin : Pin] : request' = [request EXCEPT ![c] = r]
      BY <1>2 DEF Refuse, Accept
    <3> QED BY <3>1 DEF CommandsOK
  <2>4. answers' \in [Command -> Seq({"error", "captured", "ack"})]
    BY <1>2, AnswerTyped DEF Refuse, Accept, CommandsOK
  <2> QED BY <2>1, <2>2, <2>3, <2>4 DEF CommandsOK
<1>3. ASSUME Enqueue PROVE PinsOK' /\ CommandsOK'
  <2> DEFINE c == disp.with  t == TaskOf(c)
  <2>1. c \in Command /\ t \in Task
    BY <1>3, HandsHold DEF Enqueue, TaskOf, Task
  <2>2. Append(queue[t], c) \in Seq(Command)
    BY <2>1, AppendProperties DEF CommandsOK
  <2>3. queue' \in [Task -> Seq(Command)]
    BY <1>3, <2>1, <2>2 DEF Enqueue, CommandsOK
  <2>4. answers' \in [Command -> Seq({"error", "captured", "ack"})]
    BY <1>3, <2>1, AnswerTyped DEF Enqueue, CommandsOK
  <2>5. UNCHANGED <<request, heard, disturbed>> /\ disp' = Idle
    BY <1>3 DEF Enqueue
  <2>6. PinsOK'
    BY <1>3, <2>5 DEF Enqueue, PinsOK, Idle
  <2> QED BY <2>3, <2>4, <2>5, <2>6 DEF CommandsOK
<1>4. ASSUME NEW p \in Pin, Unbind(p) \/ \E m \in {"signal", "interrupt"} : Configure(p, m)
      PROVE  PinsOK' /\ CommandsOK'
  <2>1. OnPin(p) \subseteq Command
    BY DEF OnPin, InHand, TasksOK
  <2>2. /\ undisputed' \in [Pin -> BOOLEAN]
        /\ mode' \in [Pin -> {"none", "signal", "interrupt"}]
    <3>1. \E b \in BOOLEAN, m \in {"none", "signal", "interrupt"} :
            /\ undisputed' \in {undisputed, [undisputed EXCEPT ![p] = b]}
            /\ mode' = [mode EXCEPT ![p] = m]
      BY <1>4, Zenon DEF Configure, Unbind
    <3> QED BY <3>1 DEF PinsOK
  <2>3. /\ disp' \in [at : PinStep, with : Pin] /\ configs' \in 0..MaxConfigs
        /\ UNCHANGED <<now, handler, armed, enabled>>
    BY <1>4 DEF Configure, Unbind, PinsOK
  <2>4. CommandsOK'
    BY <1>4, <2>1 DEF Configure, Unbind, CommandsOK
  <2> QED BY <2>2, <2>3, <2>4 DEF PinsOK
<1>5. ASSUME ApplyConfig \/ AddEdgeHandler \/ RemoveEdgeHandler \/ ResetPin
      PROVE  PinsOK' /\ CommandsOK'
  <2>1. CommandsOK'
    BY <1>5 DEF ApplyConfig, AddEdgeHandler, RemoveEdgeHandler, ResetPin, CommandsOK
  <2>2. /\ armed' \in [Pin -> BOOLEAN] /\ enabled' \in [Pin -> BOOLEAN]
        /\ handler' \in [Pin -> {"none", "edge"} \union Task]
    BY <1>5 DEF ApplyConfig, AddEdgeHandler, RemoveEdgeHandler, ResetPin, PinsOK
  <2>3. disp' \in [at : {"idle", "queue"} \union PinStep, with : Command \union Pin \union {None}]
    BY <1>5 DEF ApplyConfig, AddEdgeHandler, RemoveEdgeHandler, ResetPin, PinsOK, Idle
  <2>4. UNCHANGED <<now, configs, mode, undisputed>>
    BY <1>5 DEF ApplyConfig, AddEdgeHandler, RemoveEdgeHandler, ResetPin
  <2> QED BY <2>1, <2>2, <2>3, <2>4 DEF PinsOK
<1> QED BY <1>1, <1>2, <1>3, <1>4, <1>5 DEF Dispatcher

LEMMA GoesTyped ==
    ASSUME TasksOK, NEW t \in Task, NEW s, s \in IF t = "tx" THEN TxStep ELSE RxStep, Goes(t, s)
    PROVE  Placed' /\ item' \in [Task -> Command \union {None}]
BY DEF TasksOK, Placed, Goes, Task, TxStep, RxStep

\* What happens to a buffer.
LEMMA BufferTyped ==
    ASSUME TypeOK, NEW t \in Task
    PROVE  /\ Free(t) => buffer' \in [Task -> Buffer]
           /\ [buffer EXCEPT ![t] = [live |-> TRUE, edges |-> <<>>, last |-> now]] \in [Task -> Buffer]
           /\ [buffer EXCEPT ![t] = [NoBuffer EXCEPT !.live = TRUE]] \in [Task -> Buffer]
           /\ [buffer EXCEPT ![t].edges = <<>>] \in [Task -> Buffer]
           /\ [buffer EXCEPT ![t].last = now] \in [Task -> Buffer]
           /\ [buffer EXCEPT ![t].edges = Append(@, now - buffer[t].last), ![t].last = now]
                 \in [Task -> Buffer]
<1>1. /\ buffer \in [Task -> Buffer] /\ now \in Nat
      /\ buffer[t] \in Buffer /\ now - buffer[t].last \in Int
  BY DEF TypeOK, TasksOK, PinsOK, Buffer
<1>2. Append(buffer[t].edges, now - buffer[t].last) \in Seq(Int) /\ <<>> \in Seq(Int)
  BY <1>1, AppendProperties DEF Buffer
<1>3. \A v \in Buffer : [buffer EXCEPT ![t] = v] \in [Task -> Buffer]
  BY <1>1
<1>4. ASSUME NEW b \in Buffer, NEW s \in Seq(Int), NEW n \in Nat
      PROVE  /\ [b EXCEPT !.edges = s] \in Buffer /\ [b EXCEPT !.last = n] \in Buffer
             /\ [b EXCEPT !.edges = s, !.last = n] \in Buffer
  BY DEF Buffer
<1>5. /\ NoBuffer \in Buffer /\ [NoBuffer EXCEPT !.live = TRUE] \in Buffer
      /\ [live |-> TRUE, edges |-> <<>>, last |-> now] \in Buffer
  BY <1>1, <1>2 DEF NoBuffer, Buffer
<1>6. Free(t) => buffer' \in [Task -> Buffer]
  BY <1>3, <1>5 DEF Free
<1>7. /\ [buffer EXCEPT ![t].edges = <<>>] \in [Task -> Buffer]
      /\ [buffer EXCEPT ![t].last = now] \in [Task -> Buffer]
  BY <1>1, <1>2, <1>3, <1>4
<1>8. [buffer EXCEPT ![t].edges = Append(@, now - buffer[t].last), ![t].last = now]
        \in [Task -> Buffer]
  <2> DEFINE s == Append(buffer[t].edges, now - buffer[t].last)
  <2>1. [buffer[t] EXCEPT !.edges = s, !.last = now] \in Buffer
    BY <1>1, <1>2, <1>4
  <2>2. [buffer EXCEPT ![t].edges = s, ![t].last = now]
           = [buffer EXCEPT ![t] = [buffer[t] EXCEPT !.edges = s, !.last = now]]
    BY <1>1
  <2> QED BY <1>3, <2>1, <2>2
<1> QED BY <1>3, <1>5, <1>6, <1>7, <1>8

LEMMA TxTyped == TypeOK /\ Hands /\ TxTask => TypeOK'
<1> SUFFICES ASSUME TypeOK, Hands, TxTask PROVE TypeOK'
  OBVIOUS
<1> USE DEF TypeOK, pins, rmt, tasks, capture, history
<1>1. "tx" \in Task
  BY DEF Task
<1>2. ASSUME at["tx"] # "idle" PROVE item["tx"] \in Command /\ PinOf(item["tx"]) \in Pin
  BY <1>1, <1>2, HandsHold DEF PinOf
<1>3. CASE TxTake
  <2> DEFINE c == Head(queue["tx"])
  <2>1. c \in Command /\ Tail(queue["tx"]) \in Seq(Command)
    BY <1>1, <1>3, HandsHold DEF TxTake, Take
  <2>2. OnPin(PinOf(c)) \subseteq Command
    BY DEF OnPin, InHand, TasksOK
  <2>3. PinsOK'
    BY <1>3 DEF TxTake, PinsOK
  <2>4. CommandsOK'
    <3>1. disturbed' \subseteq Command /\ queue' \in [Task -> Seq(Command)]
      BY <1>1, <1>3, <2>1, <2>2 DEF TxTake, Take, CommandsOK
    <3>2. answers' \in [Command -> Seq({"error", "captured", "ack"})]
      BY <1>3, <2>1, AnswerTyped DEF TxTake, CommandsOK
    <3> QED BY <1>3, <3>1, <3>2 DEF TxTake, CommandsOK
  <2>5. TasksOK'
    BY <1>3, <2>1 DEF TxTake, TasksOK, Task, TxStep, RxStep
  <2> QED BY <2>3, <2>4, <2>5
<1>4. CASE Reserve \/ Drive
  <2>1. PinsOK' /\ at["tx"] # "idle"
    BY <1>4 DEF Reserve, Drive, PinsOK
  <2>2. CASE Fails
    <3>1. UNCHANGED <<request, queue, heard, disturbed, buffer, until, begun>>
      BY <1>4 DEF Reserve, Drive
    <3>2. CommandsOK'
      BY <2>1, <2>2, <3>1, FailsTyped DEF CommandsOK
    <3>3. TasksOK'
      BY <2>1, <2>2, <3>1, FailsTyped DEF TasksOK, Placed
    <3> QED BY <2>1, <3>2, <3>3
  <2>3. CASE ~Fails
    <3>1. CommandsOK'
      BY <1>4, <2>3 DEF Reserve, Drive, CommandsOK
    <3>2. \E s \in {"rmt_setup", "drive", "arm", "send"} : Goes("tx", s)
      BY <1>4, <2>3 DEF Reserve, Drive
    <3>3. Placed' /\ item' \in [Task -> Command \union {None}]
      BY <1>1, <3>2, GoesTyped DEF TxStep
    <3>4. in_use' \subseteq 0..3 /\ channel' \in [tx : {-1, 0, 1}, rx : {-1, 2, 3}]
      <4>1. CASE Drive
        BY <2>3, <4>1 DEF Drive, TasksOK
      <4>2. CASE Reserve
        <5>1. CASE KindOf(item["tx"]) = "listen"
          <6>1. PICK n \in FreeOf({2, 3}) : in_use' = in_use \union {n} /\ channel' = [tx |-> -1, rx |-> n]
            BY <2>3, <4>2, <5>1, LowestIsFree DEF Reserve
          <6> QED BY <6>1 DEF FreeOf, TasksOK
        <5>2. CASE KindOf(item["tx"]) # "listen"
          <6>1. PICK n \in FreeOf({0, 1}) : in_use' = in_use \union {n} /\ channel' = [tx |-> n, rx |-> -1]
            BY <2>3, <4>2, <5>2, LowestIsFree DEF Reserve
          <6> QED BY <6>1 DEF FreeOf, TasksOK
        <5> QED BY <5>1, <5>2
      <4> QED BY <1>4, <4>1, <4>2
    <3>5. UNCHANGED <<buffer, until, begun>>
      BY <1>4 DEF Reserve, Drive
    <3>6. TasksOK'
      BY <3>3, <3>4, <3>5 DEF TasksOK, Placed
    <3> QED BY <2>1, <3>1, <3>6
  <2> QED BY <2>2, <2>3
<1>5. CASE Arm \/ Send
  <2>1. at["tx"] # "idle" /\ UNCHANGED <<now, configs, mode, undisputed, disp>>
    BY <1>5 DEF Arm, Send
  <2>2. /\ armed' \in [Pin -> BOOLEAN] /\ enabled' \in [Pin -> BOOLEAN]
        /\ handler' \in [Pin -> {"none", "edge"} \union Task]
    BY <1>2, <1>5, <2>1 DEF Arm, Send, Hook, Unhook, PinsOK, Task
  <2>3. buffer' \in [Task -> Buffer]
    BY <1>1, <1>5, BufferTyped DEF Arm, Send, TasksOK
  <2>4. CASE Fails
    <3>1. UNCHANGED <<request, queue, heard, disturbed, until, begun>>
      BY <1>5 DEF Arm, Send
    <3>2. CommandsOK'
      BY <2>1, <2>4, <3>1, FailsTyped DEF CommandsOK
    <3>3. TasksOK'
      BY <2>1, <2>3, <2>4, <3>1, FailsTyped DEF TasksOK, Placed
    <3> QED BY <2>1, <2>2, <3>2, <3>3 DEF PinsOK
  <2>5. CASE ~Fails
    <3>1. \E s \in {"quiet", "reset", "ack"} : Goes("tx", s)
      BY <1>5, <2>5 DEF Arm, Send
    <3>2. Placed' /\ item' \in [Task -> Command \union {None}]
      BY <1>1, <3>1, GoesTyped DEF TxStep
    <3>3. UNCHANGED <<in_use, channel, until, begun>> /\ CommandsOK'
      BY <1>5, <2>5 DEF Arm, Send, CommandsOK
    <3> QED BY <2>1, <2>2, <2>3, <3>2, <3>3 DEF PinsOK, TasksOK, Placed
  <2> QED BY <2>4, <2>5
<1>6. CASE Quiet \/ ResetCount \/ Start \/ Stop
  <2>1. at["tx"] # "idle" /\ UNCHANGED <<now, configs, mode, undisputed, disp, in_use, channel>>
    BY <1>6 DEF Quiet, ResetCount, Start, Stop
  <2>2. /\ armed' \in [Pin -> BOOLEAN] /\ enabled' \in [Pin -> BOOLEAN]
        /\ handler' \in [Pin -> {"none", "edge"} \union Task]
    BY <1>2, <1>6, <2>1 DEF Quiet, ResetCount, Start, Stop, Unhook, PinsOK, Task
  <2>3. buffer' \in [Task -> Buffer]
    <3>1. CASE Quiet \/ Stop
      BY <3>1 DEF Quiet, Stop, TasksOK
    <3>2. CASE ResetCount \/ Start
      <4>1. /\ [buffer EXCEPT !["tx"].edges = <<>>] \in [Task -> Buffer]
            /\ [buffer EXCEPT !["tx"].last = now] \in [Task -> Buffer]
        BY <1>1, BufferTyped
      <4> QED BY <3>2, <4>1 DEF ResetCount, Start
    <3> QED BY <1>6, <3>1, <3>2
  <2>4. \E s \in {"send", "start", "listening", "report"} : Goes("tx", s)
    BY <1>6 DEF Quiet, ResetCount, Start, Stop
  <2>5. Placed' /\ item' \in [Task -> Command \union {None}]
    BY <1>1, <2>4, GoesTyped DEF TxStep
  <2>6. CommandsOK'
    BY <1>6 DEF Quiet, ResetCount, Start, Stop, CommandsOK
  <2>7. until' \in [Task -> Nat] /\ begun' \in [Task -> Nat]
    <3>1. CASE Start
      <4>1. now \in Nat /\ now + Listen \in Nat
        BY SignalTasksAssumption DEF PinsOK
      <4> QED BY <3>1, <4>1 DEF Start, TasksOK
    <3>2. CASE Quiet \/ ResetCount \/ Stop
      BY <3>2 DEF Quiet, ResetCount, Stop, TasksOK
    <3> QED BY <1>6, <3>1, <3>2
  <2> QED BY <2>1, <2>2, <2>3, <2>5, <2>6, <2>7 DEF PinsOK, TasksOK, Placed
<1>7. CASE Report \/ RmtReport
  <2>1. at["tx"] # "idle" /\ PinsOK' /\ UNCHANGED <<until, begun, request, queue, disturbed>>
    BY <1>7 DEF Report, RmtReport, PinsOK
  <2>2. buffer' \in [Task -> Buffer]
    BY <1>1, <1>7, BufferTyped DEF Report, RmtReport, TasksOK
  <2>3. CommandsOK'
    BY <1>1, <1>7, <2>1, SendCaptureTyped DEF Report, RmtReport, CommandsOK
  <2>4. Placed' /\ item' \in [Task -> Command \union {None}]
    BY <1>1, <1>7, GoesTyped DEF Report, RmtReport, TxStep
  <2>5. channel' \in [tx : {-1, 0, 1}, rx : {-1, 2, 3}]
    BY <1>7 DEF Report, RmtReport, NoChannel, TasksOK
  <2>6. in_use' \subseteq 0..3
    BY <1>7 DEF Report, RmtReport, Release, TasksOK
  <2> QED BY <2>1, <2>2, <2>3, <2>4, <2>5, <2>6 DEF TasksOK, Placed
<1>8. CASE RmtSetup
  <2>1. at["tx"] # "idle" /\ PinsOK' /\ UNCHANGED <<buffer, request, queue, heard, disturbed>>
    BY <1>8 DEF RmtSetup, PinsOK
  <2>2. until' \in [Task -> Nat] /\ begun' \in [Task -> Nat]
    BY <1>8, SignalTasksAssumption DEF RmtSetup, TasksOK, PinsOK
  <2>3. CASE Fails
    <3>1. CommandsOK'
      BY <2>1, <2>3, FailsTyped DEF CommandsOK
    <3>2. TasksOK'
      BY <2>1, <2>2, <2>3, FailsTyped DEF TasksOK, Placed
    <3> QED BY <2>1, <3>1, <3>2
  <2>4. CASE ~Fails
    <3>1. answers' \in [Command -> Seq({"error", "captured", "ack"})]
      BY <1>2, <1>8, <2>1, <2>4, AnswerTyped DEF RmtSetup, CommandsOK
    <3>2. Placed' /\ item' \in [Task -> Command \union {None}]
      BY <1>1, <1>8, <2>4, GoesTyped DEF RmtSetup, TxStep
    <3>3. channel' \in [tx : {-1, 0, 1}, rx : {-1, 2, 3}]
      BY <1>8, <2>4 DEF RmtSetup, NoChannel, TasksOK
    <3>4. in_use' \subseteq 0..3
      BY <1>8, <2>4 DEF RmtSetup, Release, TasksOK
    <3> QED BY <2>1, <2>2, <3>1, <3>2, <3>3, <3>4 DEF TasksOK, CommandsOK, Placed
  <2> QED BY <2>3, <2>4
<1>9. CASE TxAck
  <2>1. PinsOK' /\ UNCHANGED <<request, queue, heard, disturbed, buffer, until, begun>>
    BY <1>9 DEF TxAck, PinsOK
  <2>2. answers' \in [Command -> Seq({"error", "captured", "ack"})]
    BY <1>2, <1>9, AnswerTyped DEF TxAck
  <2>3. channel' \in [tx : {-1, 0, 1}, rx : {-1, 2, 3}]
    BY <1>9 DEF TxAck, NoChannel
  <2>4. in_use' \subseteq 0..3
    BY <1>9 DEF TxAck, Release, TasksOK
  <2>5. Placed' /\ item' \in [Task -> Command \union {None}]
    BY <1>9 DEF TxAck, Finishes, TasksOK, Placed, Task, TxStep, RxStep
  <2> QED BY <2>1, <2>2, <2>3, <2>4, <2>5 DEF TasksOK, CommandsOK, Placed
<1> QED BY <1>3, <1>4, <1>5, <1>6, <1>7, <1>8, <1>9 DEF TxTask

LEMMA RxTyped == TypeOK /\ Hands /\ RxTask => TypeOK'
<1> SUFFICES ASSUME TypeOK, Hands, RxTask PROVE TypeOK'
  OBVIOUS
<1> USE DEF TypeOK, pins, rmt, tasks, capture, history
<1>1. "rx" \in Task
  BY DEF Task
<1>2. ASSUME at["rx"] # "idle" PROVE item["rx"] \in Command /\ PinOf(item["rx"]) \in Pin
  BY <1>1, <1>2, HandsHold DEF PinOf
<1>3. CASE RxTake
  <2> DEFINE c == Head(queue["rx"])
  <2>1. c \in Command /\ Tail(queue["rx"]) \in Seq(Command)
    BY <1>1, <1>3, HandsHold DEF RxTake, Take
  <2>2. OnPin(PinOf(c)) \subseteq Command
    BY DEF OnPin, InHand, TasksOK
  <2>3. PinsOK' /\ UNCHANGED <<request, heard, in_use, channel, until>>
    BY <1>3 DEF RxTake, PinsOK
  <2>4. CommandsOK'
    <3>1. disturbed' \subseteq Command /\ queue' \in [Task -> Seq(Command)]
      BY <1>1, <1>3, <2>1, <2>2 DEF RxTake, Take, CommandsOK
    <3>2. answers' \in [Command -> Seq({"error", "captured", "ack"})]
      BY <1>3, <2>1, AnswerTyped DEF RxTake, CommandsOK
    <3> QED BY <2>3, <3>1, <3>2 DEF CommandsOK
  <2>5. buffer' \in [Task -> Buffer] /\ begun' \in [Task -> Nat]
    <3>1. [buffer EXCEPT !["rx"] = [live |-> TRUE, edges |-> <<>>, last |-> now]] \in [Task -> Buffer]
      BY <1>1, BufferTyped
    <3>2. [begun EXCEPT !["rx"] = now] \in [Task -> Nat]
      BY DEF TasksOK, PinsOK
    <3> QED BY <1>3, <3>1, <3>2 DEF RxTake, TasksOK
  <2>6. Placed' /\ item' \in [Task -> Command \union {None}]
    BY <1>3, <2>1 DEF RxTake, TasksOK, Placed, Task, TxStep, RxStep
  <2> QED BY <2>3, <2>4, <2>5, <2>6 DEF TasksOK, Placed
<1>4. CASE RxEnable \/ RxHook \/ RxUnhook
  <2>1. /\ at["rx"] # "idle" /\ CommandsOK'
        /\ UNCHANGED <<now, configs, mode, undisputed, disp, in_use, channel, buffer, begun>>
    BY <1>4 DEF RxEnable, RxHook, RxUnhook, CommandsOK
  <2>2. /\ armed' \in [Pin -> BOOLEAN] /\ enabled' \in [Pin -> BOOLEAN]
        /\ handler' \in [Pin -> {"none", "edge"} \union Task]
    BY <1>2, <1>4, <2>1 DEF RxEnable, RxHook, RxUnhook, Hook, Unhook, PinsOK, Task
  <2>3. \E s \in {"hook", "listening", "ack"} : Goes("rx", s)
    BY <1>4 DEF RxEnable, RxHook, RxUnhook
  <2>4. Placed' /\ item' \in [Task -> Command \union {None}]
    BY <1>1, <2>3, GoesTyped DEF RxStep
  <2>5. until' \in [Task -> Nat]
    BY <1>4, SignalTasksAssumption DEF RxEnable, RxHook, RxUnhook, TasksOK, PinsOK
  <2> QED BY <2>1, <2>2, <2>4, <2>5 DEF PinsOK, TasksOK, Placed
<1>5. CASE RxReport
  <2>1. PinsOK' /\ at["rx"] # "idle"
    BY <1>5 DEF RxReport, PinsOK
  <2>2. CommandsOK'
    BY <1>1, <1>5, <2>1, SendCaptureTyped DEF RxReport, CommandsOK
  <2>3. Placed' /\ item' \in [Task -> Command \union {None}]
    BY <1>1, <1>5, GoesTyped DEF RxReport, RxStep
  <2> QED BY <1>5, <2>1, <2>2, <2>3 DEF RxReport, TasksOK, Placed
<1>6. CASE RxAck
  <2>1. PinsOK' /\ UNCHANGED <<request, queue, heard, disturbed, in_use, channel, until, begun>>
    BY <1>6 DEF RxAck, PinsOK
  <2>2. answers' \in [Command -> Seq({"error", "captured", "ack"})]
    BY <1>2, <1>6, AnswerTyped DEF RxAck
  <2>3. buffer' \in [Task -> Buffer]
    BY <1>1, <1>6, BufferTyped DEF RxAck
  <2>4. Placed' /\ item' \in [Task -> Command \union {None}]
    BY <1>6 DEF RxAck, Finishes, TasksOK, Placed, Task, TxStep, RxStep
  <2> QED BY <2>1, <2>2, <2>3, <2>4 DEF TasksOK, CommandsOK, Placed
<1> QED BY <1>3, <1>4, <1>5, <1>6 DEF RxTask

LEMMA TypeStep == TypeOK /\ Hands /\ [Next]_vars => TypeOK'
<1> SUFFICES ASSUME TypeOK, Hands, [Next]_vars PROVE TypeOK'
  OBVIOUS
<1> USE DEF pins, rmt, tasks, capture, history
<1>1. ASSUME NEW p \in Pin, Edge(p) PROVE TypeOK'
  <2>1. PinsOK' /\ CommandsOK' /\ UNCHANGED <<at, item, in_use, channel, until, begun>>
    BY <1>1 DEF Edge, TypeOK, PinsOK, CommandsOK
  <2>2. buffer' \in [Task -> Buffer]
    BY <1>1, BufferTyped DEF Edge
  <2> QED BY <2>1, <2>2 DEF TypeOK, TasksOK
<1>2. CASE Tick
  <2>1. now' \in Nat /\ CommandsOK'
    BY <1>2 DEF Tick, TypeOK, PinsOK, CommandsOK
  <2>2. TasksOK'
    BY <1>2 DEF Tick, TypeOK, TasksOK
  <2> QED BY <1>2, <2>1, <2>2 DEF Tick, TypeOK, PinsOK
<1>3. CASE UNCHANGED vars
  BY <1>3 DEF vars, TypeOK, PinsOK, CommandsOK, TasksOK
<1> QED BY <1>1, <1>2, <1>3, DispatcherTyped, TxTyped, RxTyped DEF Next

-----------------------------------------------------------------------------
(* What is in the queues and in the hands.                                 *)

\* What was asked for stays as it was asked for.  A command is about to be
\* queued only when its pin is in SIGNAL mode, and comes from there into a queue
\* and from a queue into a hand.
Stays ==
    /\ \A c \in Command : Asked(c) => Asked(c)' /\ request'[c] = request[c]
    /\ disp'.at = "queue" => \/ disp' = disp
                             \/ /\ disp = Idle /\ UNCHANGED mode
                                /\ Asked(disp.with)' /\ mode[PinOf(disp.with)'] = "signal"
    /\ \A t \in Task : Waiting(t)' \subseteq Waiting(t) \union
                                     {c \in Command : disp.at = "queue" /\ c = disp.with}
    /\ \A t \in Task : item'[t] \in Waiting(t) \union {item[t], None}
    /\ \A c \in Command : heard'[c] # heard[c] => c \in {item[t] : t \in Task} \ {None}

LEMMA StaysStep == TypeOK /\ Hands /\ [Next]_vars => Stays
<1> SUFFICES ASSUME TypeOK, Hands, [Next]_vars PROVE Stays
  OBVIOUS
<1> USE DEF pins, rmt, tasks, capture, history
<1>1. ASSUME NEW c \in Command, Refuse(c) \/ Accept(c) PROVE Stays
  <2>1. PICK k \in Kind, p \in Pin :
          /\ request' = [request EXCEPT ![c] = [kind |-> k, pin |-> p]]
          /\ disp' # disp => disp' = [at |-> "queue", with |-> c] /\ mode[p] = "signal"
    BY <1>1 DEF Refuse, Accept
  <2> DEFINE r == [kind |-> k, pin |-> p]
  <2>2. r \in [kind : Kind, pin : Pin] /\ r.pin = p
    OBVIOUS
  <2> HIDE DEF r
  <2>3. request' = [request EXCEPT ![c] = r]
    BY <2>1 DEF r
  <2>4. request[c] = None /\ disp = Idle /\ UNCHANGED <<queue, item, heard, mode>>
    BY <1>1 DEF Refuse, Accept
  <2>5. r # None
    BY <2>2, SignalTasksAssumption
  <2>6. request'[c] = r /\ \A d \in Command \ {c} : request'[d] = request[d]
    BY <2>3 DEF TypeOK, CommandsOK
  <2>7. \A d \in Command : Asked(d) => Asked(d)' /\ request'[d] = request[d]
    BY <2>4, <2>6 DEF Asked
  <2>8. CASE disp' = disp
    BY <2>4, <2>7, <2>8 DEF Stays, Waiting
  <2>9. CASE disp' = [at |-> "queue", with |-> c] /\ mode[p] = "signal"
    <3>1. disp'.with = c /\ PinOf(c)' = p /\ Asked(c)'
      BY <2>2, <2>5, <2>6, <2>9 DEF PinOf, Asked
    <3>2. Asked(disp.with)' /\ mode[PinOf(disp.with)'] = "signal"
      BY <2>9, <3>1 DEF Asked, PinOf
    <3> QED BY <2>4, <2>7, <3>2 DEF Stays, Waiting
  <2> QED BY <2>1, <2>8, <2>9
<1>2. ASSUME Enqueue PROVE Stays
  <2> DEFINE c == disp.with  u == TaskOf(c)
  <2>1. UNCHANGED <<request, item, heard>> /\ disp'.at # "queue" /\ disp.at = "queue"
    BY <1>2 DEF Enqueue, Idle
  <2>2. c \in Command /\ u \in Task
    BY <2>1, HandsHold DEF TaskOf, Task
  <2>3. \A t \in Task : queue[t] \in Seq(Command)
    BY DEF TypeOK, CommandsOK
  <2> HIDE DEF c, u
  <2>4. queue' = [queue EXCEPT ![u] = Append(@, c)] \/ queue' = queue
    BY <1>2 DEF Enqueue, c, u
  <2>5. \A t \in Task : queue'[t] = queue[t] \/ queue'[t] = Append(queue[t], c)
    BY <2>2, <2>4 DEF TypeOK, CommandsOK
  <2>6. ASSUME NEW t \in Task PROVE Waiting(t)' \subseteq Waiting(t) \union {c}
    <3>1. Range(Append(queue[t], c)) = Range(queue[t]) \union {c}
      BY <2>2, <2>3, WaitingSteps
    <3> QED BY <2>5, <3>1 DEF Waiting
  <2>7. {c} \subseteq {d \in Command : disp.at = "queue" /\ d = disp.with}
    BY <2>1, <2>2 DEF c
  <2>8. \A t \in Task : Waiting(t)' \subseteq Waiting(t) \union
                                  {d \in Command : disp.at = "queue" /\ d = disp.with}
    BY <2>6, <2>7
  <2> QED BY <2>1, <2>8 DEF Stays, Asked
<1>3. ASSUME UNCHANGED <<request, queue, item, heard>>, disp'.at # "queue" \/ disp' = disp
      PROVE  Stays
  BY <1>3 DEF Stays, Asked, Waiting
<1>4. ASSUME Dispatcher, \A c \in Command : ~Refuse(c) /\ ~Accept(c), ~Enqueue PROVE Stays
  <2>1. UNCHANGED <<request, queue, item, heard>> /\ disp'.at # "queue"
    BY <1>4 DEF Dispatcher, Configure, ApplyConfig, AddEdgeHandler, Unbind, RemoveEdgeHandler,
                ResetPin, Idle, TypeOK, PinsOK
  <2> QED BY <1>3, <2>1
<1>5. ASSUME NEW u \in Task, Take(u), UNCHANGED <<request, disp, heard>>,
             item' \in {item, [item EXCEPT ![u] = Head(queue[u])]}
      PROVE  Stays
  <2>1. queue[u] \in Seq(Command) /\ queue[u] # <<>> /\ queue' = [queue EXCEPT ![u] = Tail(@)]
    BY <1>5 DEF Take, TypeOK, CommandsOK
  <2>2. /\ Waiting(u)' \subseteq Waiting(u) /\ Head(queue[u]) \in Waiting(u)
        /\ \A t \in Task \ {u} : Waiting(t)' = Waiting(t)
    <3>1. Range(Tail(queue[u])) \subseteq Range(queue[u]) /\ Head(queue[u]) \in Range(queue[u])
      BY <2>1, WaitingSteps
    <3>2. queue'[u] = Tail(queue[u]) /\ \A t \in Task \ {u} : queue'[t] = queue[t]
      BY <2>1 DEF TypeOK, CommandsOK
    <3> QED BY <3>1, <3>2 DEF Waiting
  <2>3. item'[u] \in {item[u], Head(queue[u])} /\ \A t \in Task \ {u} : item'[t] = item[t]
    BY <1>5 DEF TypeOK, TasksOK
  <2> QED BY <1>5, <2>2, <2>3 DEF Stays, Asked
<1>6. ASSUME NEW u \in Task, UNCHANGED <<request, queue, disp>>,
             item' \in {item, [item EXCEPT ![u] = None]},
             heard' = heard \/ (at[u] # "idle" /\ SendCapture(u))
      PROVE  Stays
  <2>1. \A t \in Task : item'[t] \in {item[t], None}
    BY <1>6 DEF TypeOK, TasksOK
  <2>2. \A c \in Command : heard'[c] # heard[c] => c = item[u] /\ item[u] \in Command
    BY <1>6, HandsHold DEF SendCapture, TypeOK, CommandsOK
  <2>3. \A c \in Command : heard'[c] # heard[c] => c \in {item[t] : t \in Task} \ {None}
    BY <2>2, SignalTasksAssumption
  <2> QED BY <1>6, <2>1, <2>3 DEF Stays, Asked, Waiting
<1>7. CASE TxTask
  <2>1. "tx" \in Task
    BY DEF Task
  <2>2. CASE TxTake
    BY <1>5, <2>1, <2>2 DEF TxTake
  <2>3. CASE Reserve \/ Drive \/ Arm \/ Send \/ RmtSetup \/ TxAck
    BY <1>6, <2>1, <2>3 DEF Reserve, Drive, Arm, Send, RmtSetup, TxAck, Fails, Goes, Finishes
  <2>4. CASE Quiet \/ ResetCount \/ Start \/ Stop \/ Report \/ RmtReport
    BY <1>6, <2>1, <2>4 DEF Quiet, ResetCount, Start, Stop, Report, RmtReport, Goes
  <2> QED BY <1>7, <2>2, <2>3, <2>4 DEF TxTask
<1>8. CASE RxTask
  <2>1. "rx" \in Task
    BY DEF Task
  <2>2. CASE RxTake
    BY <1>5, <2>1, <2>2 DEF RxTake
  <2>3. CASE RxEnable \/ RxHook \/ RxReport \/ RxUnhook \/ RxAck
    BY <1>6, <2>1, <2>3 DEF RxEnable, RxHook, RxReport, RxUnhook, RxAck, Goes, Finishes
  <2> QED BY <1>8, <2>2, <2>3 DEF RxTask
<1>9. CASE Tick \/ (\E p \in Pin : Edge(p)) \/ UNCHANGED vars
  BY <1>3, <1>9 DEF Tick, Edge, vars
<1> QED BY <1>1, <1>2, <1>4, <1>7, <1>8, <1>9 DEF Next

\* What a step leaves in a hand is what it was.
LEMMA HandStays ==
    ASSUME TypeOK, Hands, Stays, NEW t \in Task, at[t] # "idle", item'[t] = item[t]
    PROVE  KindOf(item[t])' = KindOf(item[t]) /\ PinOf(item[t])' = PinOf(item[t])
<1>1. item[t] \in Command /\ request[item[t]] # None
  BY DEF TypeOK, TasksOK, Hands, Asked
<1> QED BY <1>1 DEF Stays, Asked, KindOf, PinOf

\* What a task has is changed by its own steps only.
LEMMA Apart ==
    ASSUME TypeOK, [Next]_vars
    PROVE  /\ ~TxTask => /\ UNCHANGED rmt
                         /\ at'["tx"] = at["tx"] /\ item'["tx"] = item["tx"]
                         /\ until'["tx"] = until["tx"] /\ begun'["tx"] = begun["tx"]
           /\ ~RxTask => /\ at'["rx"] = at["rx"] /\ item'["rx"] = item["rx"]
                         /\ until'["rx"] = until["rx"] /\ begun'["rx"] = begun["rx"]
           /\ RxTask => /\ at'["tx"] = at["tx"] /\ item'["tx"] = item["tx"]
                        /\ until'["tx"] = until["tx"] /\ begun'["tx"] = begun["tx"]
           /\ TxTask => /\ at'["rx"] = at["rx"] /\ item'["rx"] = item["rx"]
                        /\ until'["rx"] = until["rx"] /\ begun'["rx"] = begun["rx"]
<1> USE DEF pins, rmt, tasks, capture, history
<1>1. Dispatcher \/ (\E p \in Pin : Edge(p)) \/ Tick \/ UNCHANGED vars
        => UNCHANGED <<rmt, tasks, until, begun>>
  BY DEF Dispatcher, Refuse, Accept, Enqueue, Configure, ApplyConfig, AddEdgeHandler, Unbind,
         RemoveEdgeHandler, ResetPin, Edge, Tick, vars
<1>2. RxTask => /\ UNCHANGED rmt
                /\ at'["tx"] = at["tx"] /\ item'["tx"] = item["tx"]
                /\ until'["tx"] = until["tx"] /\ begun'["tx"] = begun["tx"]
  BY DEF RxTask, RxTake, RxEnable, RxHook, RxReport, RxUnhook, RxAck, Goes, Finishes,
         TypeOK, TasksOK, Task
<1>3. TxTask => /\ at'["rx"] = at["rx"] /\ item'["rx"] = item["rx"]
                /\ until'["rx"] = until["rx"] /\ begun'["rx"] = begun["rx"]
  BY DEF TxTask, TxTake, Reserve, Drive, Arm, Quiet, Send, ResetCount, Start, Stop, Report,
         RmtSetup, RmtReport, TxAck, Fails, Goes, Finishes, TypeOK, TasksOK, Task
<1> QED BY <1>1, <1>2, <1>3 DEF Next

LEMMA HandsStep == TypeOK /\ Hands /\ [Next]_vars => Hands'
<1> SUFFICES ASSUME TypeOK, Hands, [Next]_vars PROVE Hands'
  OBVIOUS
<1> USE DEF pins, rmt, tasks, capture, history
<1>1. Stays /\ TypeOK'
  BY StaysStep, TypeStep
<1>2. disp'.at = "queue" => Asked(disp.with)'
  BY <1>1 DEF Stays, Hands, Asked
<1>3. disp'.at \in PinStep => disp'.with \in Pin
  <2>1. ASSUME NEW c \in Command, Refuse(c) \/ Accept(c) PROVE disp'.at \notin PinStep
    BY <2>1 DEF Refuse, Accept, Idle, PinStep
  <2>2. ASSUME NEW p \in Pin, Unbind(p) \/ \E m \in {"signal", "interrupt"} : Configure(p, m)
        PROVE  disp'.with \in Pin
    BY <2>2 DEF Unbind, Configure
  <2>3. CASE Enqueue \/ ApplyConfig \/ AddEdgeHandler \/ RemoveEdgeHandler \/ ResetPin
    BY <2>3 DEF Enqueue, ApplyConfig, AddEdgeHandler, RemoveEdgeHandler, ResetPin, Idle, PinStep,
                Hands, TypeOK, PinsOK
  <2>4. CASE UNCHANGED disp
    BY <2>4 DEF Hands
  <2>5. TxTask \/ RxTask \/ (\E p \in Pin : Edge(p)) \/ Tick \/ UNCHANGED vars => UNCHANGED disp
    BY DEF TxTask, TxTake, Reserve, Drive, Arm, Quiet, Send, ResetCount, Start, Stop, Report,
           RmtSetup, RmtReport, TxAck, RxTask, RxTake, RxEnable, RxHook, RxReport, RxUnhook,
           RxAck, Edge, Tick, vars
  <2> QED BY <2>1, <2>2, <2>3, <2>4, <2>5 DEF Next, Dispatcher
<1>4. \A t \in Task : /\ item'[t] # None => Asked(item[t])'
                      /\ \A c \in Waiting(t)' : Asked(c)'
  BY <1>1 DEF Stays, Hands, Asked, TypeOK, TasksOK
<1>5. \A t \in Task : at'[t] = "idle" <=> item'[t] = None
  <2>1. CASE UNCHANGED tasks
    BY <2>1 DEF Hands
  <2>2. ASSUME NEW u \in Task, at[u] # "idle", NEW s, s # "idle", Goes(u, s)
        PROVE  \A t \in Task : at'[t] = "idle" <=> item'[t] = None
    BY <2>2 DEF Goes, Hands, TypeOK, TasksOK
  <2>3. ASSUME NEW u \in Task, Finishes(u)
        PROVE  \A t \in Task : at'[t] = "idle" <=> item'[t] = None
    BY <2>3 DEF Finishes, Hands, TypeOK, TasksOK
  <2>4. ASSUME NEW u \in Task, NEW c \in Command, NEW s, s # "idle",
               at' = [at EXCEPT ![u] = s], item' = [item EXCEPT ![u] = c]
        PROVE  \A t \in Task : at'[t] = "idle" <=> item'[t] = None
    BY <2>4, SignalTasksAssumption DEF Hands, TypeOK, TasksOK
  <2>5. CASE TxTask
    <3>1. "tx" \in Task
      BY DEF Task
    <3>2. CASE TxTake
      BY <2>1, <2>4, <3>1, <3>2, HandsHold DEF TxTake, Take
    <3>3. CASE Reserve \/ Drive \/ Arm \/ Send \/ RmtSetup \/ TxAck
      BY <2>2, <2>3, <3>1, <3>3 DEF Reserve, Drive, Arm, Send, RmtSetup, TxAck, Fails
    <3>4. CASE Quiet \/ ResetCount \/ Start \/ Stop \/ Report \/ RmtReport
      BY <2>2, <3>1, <3>4 DEF Quiet, ResetCount, Start, Stop, Report, RmtReport
    <3> QED BY <2>5, <3>2, <3>3, <3>4 DEF TxTask
  <2>6. CASE RxTask
    <3>1. "rx" \in Task
      BY DEF Task
    <3>2. CASE RxTake
      BY <2>1, <2>4, <3>1, <3>2, HandsHold DEF RxTake, Take
    <3>3. CASE RxEnable \/ RxHook \/ RxReport \/ RxUnhook \/ RxAck
      BY <2>2, <2>3, <3>1, <3>3 DEF RxEnable, RxHook, RxReport, RxUnhook, RxAck
    <3> QED BY <2>6, <3>2, <3>3 DEF RxTask
  <2>7. Dispatcher \/ (\E p \in Pin : Edge(p)) \/ Tick \/ UNCHANGED vars => UNCHANGED tasks
    BY DEF Dispatcher, Refuse, Accept, Enqueue, Configure, ApplyConfig, AddEdgeHandler, Unbind,
           RemoveEdgeHandler, ResetPin, Edge, Tick, vars
  <2> QED BY <2>1, <2>5, <2>6, <2>7 DEF Next
<1>6. /\ at'["tx"] \in {"arm", "quiet", "reset", "start", "listening", "report"}
           => KindOf(item["tx"])' = "exchange"
      /\ at'["tx"] \in {"rmt_setup", "rmt"} => KindOf(item["tx"])' = "listen"
  <2>1. "tx" \in Task
    BY DEF Task
  <2>2. CASE at'["tx"] = "idle" \/ at'["tx"] = "reserve" \/ at'["tx"] = "drive"
    BY <2>2
  <2>3. ASSUME item'["tx"] = item["tx"], at["tx"] # "idle",
               at'["tx"] = at["tx"] \/ TxTask
        PROVE  /\ at'["tx"] \in {"arm", "quiet", "reset", "start", "listening", "report"}
                    => KindOf(item["tx"])' = "exchange"
               /\ at'["tx"] \in {"rmt_setup", "rmt"} => KindOf(item["tx"])' = "listen"
    <3>1. KindOf(item["tx"])' = KindOf(item["tx"])
      BY <1>1, <2>1, <2>3, HandStays
    <3>2. CASE at'["tx"] = at["tx"]
      BY <3>1, <3>2 DEF Hands
    <3>3. CASE Reserve \/ Drive \/ Arm \/ Quiet
      BY <2>1, <3>1, <3>3
      DEF Reserve, Drive, Arm, Quiet, Fails, Finishes, Goes, Hands, TypeOK, TasksOK
    <3>4. CASE Send \/ ResetCount \/ Start \/ Stop \/ Report
      BY <2>1, <3>1, <3>4
      DEF Send, ResetCount, Start, Stop, Report, Fails, Finishes, Goes, Hands, TypeOK, TasksOK
    <3>5. CASE RmtSetup \/ RmtReport \/ TxAck
      BY <2>1, <3>1, <3>5
      DEF RmtSetup, RmtReport, TxAck, Fails, Finishes, Goes, Hands, TypeOK, TasksOK
    <3>6. CASE TxTake
      BY <2>3, <3>6 DEF TxTake, Take
    <3> QED BY <2>3, <3>2, <3>3, <3>4, <3>5, <3>6 DEF TxTask
  <2>4. CASE TxTask
    <3>1. TxTake => at'["tx"] = "idle" \/ at'["tx"] = "reserve"
      BY DEF TxTake, Take, TypeOK, TasksOK
    <3>2. ~TxTake => at["tx"] # "idle" /\ (at'["tx"] = "idle" \/ item'["tx"] = item["tx"])
      BY <2>1, <2>4
      DEF TxTask, Reserve, Drive, Arm, Quiet, Send, ResetCount, Start, Stop, Report, RmtSetup,
          RmtReport, TxAck, Fails, Finishes, Goes, TypeOK, TasksOK
    <3> QED BY <2>2, <2>3, <2>4, <3>1, <3>2
  <2>5. CASE ~TxTask
    <3>1. at'["tx"] = at["tx"] /\ item'["tx"] = item["tx"]
      BY <2>5, Apart
    <3> QED BY <2>2, <2>3, <3>1
  <2> QED BY <2>4, <2>5
<1>7. \A c \in Command : heard'[c] # None => Asked(c)'
  <2> SUFFICES ASSUME NEW c \in Command, heard'[c] # None PROVE Asked(c)'
    OBVIOUS
  <2>1. CASE heard'[c] = heard[c]
    BY <1>1, <2>1 DEF Stays, Hands
  <2>2. CASE heard'[c] # heard[c]
    BY <1>1, <2>2 DEF Stays, Hands
  <2> QED BY <2>1, <2>2
<1> QED BY <1>2, <1>3, <1>4, <1>5, <1>6, <1>7 DEF Hands

-----------------------------------------------------------------------------
(* Channels of the RMT.                                                    *)

LEMMA ChannelsStep == TypeOK /\ Hands /\ Channels /\ [Next]_vars => Channels'
<1> SUFFICES ASSUME TypeOK, Hands, Channels, [Next]_vars PROVE Channels'
  OBVIOUS
<1> USE DEF pins, rmt, tasks, capture, history
<1>1. "tx" \in Task /\ at \in [Task -> TxStep \union RxStep]
  BY DEF Task, TypeOK, TasksOK
<1>2. CASE ~TxTask
  BY <1>2, Apart DEF Channels
<1>3. ASSUME Release({channel.tx, channel.rx}), channel' = NoChannel, at'["tx"] = "idle"
      PROVE  Channels'
  BY <1>3 DEF Channels, Release, NoChannel
<1>4. ASSUME UNCHANGED rmt, at["tx"] \notin {"rmt_setup", "rmt"},
             at'["tx"] \notin {"idle", "reserve", "rmt_setup", "rmt"}
      PROVE  Channels'
  BY <1>4 DEF Channels
<1>5. CASE TxTake
  BY <1>1, <1>5 DEF TxTake, Take, Channels
<1>6. CASE Reserve
  <2>1. in_use = {} /\ channel = NoChannel
    BY <1>6 DEF Reserve, Channels, NoChannel
  <2>2. CASE KindOf(item["tx"]) = "listen"
    <3>1. PICK n \in {2, 3} : /\ in_use' = {n} /\ channel' = [tx |-> -1, rx |-> n]
                              /\ at'["tx"] = "rmt_setup"
      BY <1>1, <1>6, <2>1, <2>2, LowestIsFree DEF Reserve, FreeOf, Goes
    <3> QED BY <3>1 DEF Channels
  <2>3. CASE KindOf(item["tx"]) # "listen"
    <3>1. PICK n \in {0, 1} : /\ in_use' = {n} /\ channel' = [tx |-> n, rx |-> -1]
                              /\ at'["tx"] = "drive"
      BY <1>1, <1>6, <2>1, <2>3, LowestIsFree DEF Reserve, FreeOf, Goes
    <3> QED BY <3>1 DEF Channels
  <2> QED BY <2>2, <2>3
<1>7. CASE Drive \/ Arm \/ Send
  <2>1. CASE Fails
    BY <1>1, <1>3, <2>1 DEF Fails, Finishes
  <2>2. CASE ~Fails
    BY <1>1, <1>4, <1>7, <2>2 DEF Drive, Arm, Send, Goes
  <2> QED BY <2>1, <2>2
<1>8. CASE Quiet \/ ResetCount \/ Start \/ Stop \/ Report
  BY <1>1, <1>4, <1>8 DEF Quiet, ResetCount, Start, Stop, Report, Goes
<1>9. ASSUME at["tx"] \in {"rmt_setup", "rmt"}, Release({channel.rx}), channel' = NoChannel,
              at'["tx"] = "ack"
       PROVE  Channels'
  BY <1>9 DEF Channels, Release, NoChannel
<1>10. CASE RmtSetup
  <2>1. CASE Fails
    BY <1>1, <1>3, <2>1 DEF Fails, Finishes
  <2>2. CASE ~Fails /\ Goes("tx", "rmt")
    BY <1>1, <1>10, <2>2 DEF RmtSetup, Goes, Channels
  <2>3. CASE ~Fails /\ ~Goes("tx", "rmt")
    BY <1>1, <1>9, <1>10, <2>3 DEF RmtSetup, Goes
  <2> QED BY <2>1, <2>2, <2>3
<1>11. CASE RmtReport
  BY <1>1, <1>9, <1>11 DEF RmtReport, Goes
<1>12. CASE TxAck
  BY <1>1, <1>12 DEF TxAck, Finishes, Release, NoChannel, Channels
<1> QED BY <1>2, <1>5, <1>6, <1>7, <1>8, <1>10, <1>11, <1>12 DEF TxTask

-----------------------------------------------------------------------------
(* Handlers and their buffers.                                             *)

\* What a task hooks does not depend on what others do.
LEMMA HookingStays ==
    ASSUME TypeOK, Hands, Stays, NEW t \in Task, at'[t] = at[t], item'[t] = item[t]
    PROVE  /\ Hooking(t)' = Hooking(t)
           /\ Hooking(t) => PinOf(item[t])' = PinOf(item[t])
<1>1. CASE at[t] = "idle"
  BY <1>1 DEF Hooking, Task
<1>2. CASE at[t] # "idle"
  <2>1. KindOf(item[t])' = KindOf(item[t]) /\ PinOf(item[t])' = PinOf(item[t])
    BY <1>2, HandStays
  <2>2. CASE t = "tx"
    BY <2>1, <2>2 DEF Hooking
  <2>3. CASE t = "rx"
    BY <2>1, <2>3 DEF Hooking
  <2> QED BY <2>1, <2>2, <2>3 DEF Task
<1> QED BY <1>1, <1>2

\* An edge is recorded in the buffer of one task, while there is room.
LEMMA EdgeRecorded ==
    ASSUME TypeOK, NEW p \in Pin, Edge(p)
    PROVE  \A t \in Task : /\ buffer'[t].live = buffer[t].live
                           /\ \/ buffer'[t] = buffer[t]
                              \/ /\ Len(buffer[t].edges) < MaxEdges
                                 /\ Len(buffer'[t].edges) = Len(buffer[t].edges) + 1
<1> DEFINE u == handler[p]  b == buffer[u]
           s == Append(b.edges, now - b.last)
<1>1. u \in Task /\ Len(b.edges) < MaxEdges /\ buffer \in [Task -> Buffer]
      /\ now - b.last \in Int /\ b \in Buffer
  BY DEF Edge, TypeOK, TasksOK, PinsOK, Buffer
<1>2. Len(s) = Len(b.edges) + 1
  BY <1>1 DEF Buffer
<1>3. buffer' = [buffer EXCEPT ![u].edges = s, ![u].last = now]
  BY DEF Edge
<1> HIDE DEF s
<1>4. [buffer EXCEPT ![u].edges = s, ![u].last = now]
         = [buffer EXCEPT ![u] = [b EXCEPT !.edges = s, !.last = now]]
  BY <1>1
<1>5. buffer'[u] = [b EXCEPT !.edges = s, !.last = now]
  BY <1>1, <1>3, <1>4
<1>6. buffer'[u].live = b.live /\ buffer'[u].edges = s
  BY <1>1, <1>5 DEF Buffer
<1>7. \A t \in Task \ {u} : buffer'[t] = buffer[t]
  BY <1>1, <1>3, <1>4
<1> QED BY <1>1, <1>2, <1>6, <1>7

LEMMA BuffersStep == TypeOK /\ Hands /\ Buffers /\ [Next]_vars => Buffers'
<1> SUFFICES ASSUME TypeOK, Hands, Buffers, [Next]_vars PROVE Buffers'
  OBVIOUS
<1> USE DEF pins, rmt, tasks, capture, history
<1>1. Stays /\ Task = {"tx", "rx"}
  BY StaysStep DEF Task
<1> DEFINE Own(t) == /\ Holding(t) => buffer[t].live
                     /\ \A p \in Pin : handler[p] = t => Hooking(t) /\ PinOf(item[t]) = p
<1>2. ASSUME NEW t \in Task, at'[t] = at[t], item'[t] = item[t],
             buffer'[t].live = buffer[t].live,
             \A p \in Pin : handler'[p] = t => handler[p] = t
      PROVE  Own(t)'
  <2>1. Hooking(t)' = Hooking(t) /\ (Hooking(t) => PinOf(item[t])' = PinOf(item[t]))
    BY <1>1, <1>2, HookingStays
  <2>2. Holding(t)' = Holding(t)
    <3>1. CASE t = "tx"
      BY <2>1, <3>1 DEF Holding
    <3>2. CASE t = "rx"
      BY <1>2, <3>2 DEF Holding
    <3> QED BY <1>1, <3>1, <3>2
  <2> QED BY <1>2, <2>1, <2>2 DEF Buffers
<1>3. CASE Dispatcher
  <2>1. /\ UNCHANGED <<tasks, buffer>>
        /\ \A p \in Pin : handler'[p] \in {handler[p], "none", "edge"}
    BY <1>3
    DEF Dispatcher, Refuse, Accept, Enqueue, Configure, ApplyConfig, AddEdgeHandler, Unbind,
        RemoveEdgeHandler, ResetPin, TypeOK, PinsOK
  <2>2. Own("tx")' /\ Own("rx")'
    BY <1>1, <1>2, <2>1
  <2> QED BY <1>1, <2>2 DEF Buffers
<1>4. CASE Tick \/ (\E p \in Pin : Edge(p)) \/ UNCHANGED vars
  <2>1. UNCHANGED <<tasks, handler>> /\ \A t \in Task : buffer'[t].live = buffer[t].live
    <3>1. ASSUME NEW p \in Pin, Edge(p)
          PROVE  UNCHANGED <<tasks, handler>> /\ \A t \in Task : buffer'[t].live = buffer[t].live
      BY <3>1, EdgeRecorded DEF Edge
    <3>2. CASE Tick \/ UNCHANGED vars
      BY <3>2 DEF Tick, vars
    <3> QED BY <1>4, <3>1, <3>2
  <2>2. Own("tx")' /\ Own("rx")'
    BY <1>1, <1>2, <2>1
  <2> QED BY <1>1, <2>2 DEF Buffers
<1>5. CASE TxTask
  <2>1. /\ buffer'["rx"] = buffer["rx"]
        /\ \A p \in Pin : handler'[p] \in {handler[p], "none", "tx"}
    BY <1>5
    DEF TxTask, TxTake, Reserve, Drive, Arm, Quiet, Send, ResetCount, Start, Stop, Report,
        RmtSetup, RmtReport, TxAck, Hook, Unhook, Free, TypeOK, TasksOK, PinsOK, Task
  <2>2. at'["rx"] = at["rx"] /\ item'["rx"] = item["rx"]
    BY <1>5
    DEF TxTask, TxTake, Reserve, Drive, Arm, Quiet, Send, ResetCount, Start, Stop, Report,
        RmtSetup, RmtReport, TxAck, Fails, Goes, Finishes, TypeOK, TasksOK, Task
  <2>3. Own("rx")'
    BY <1>1, <1>2, <2>1, <2>2
  <2>4. Own("tx")'
    <3>1. ASSUME ~Hooking("tx"), ~Hooking("tx")', UNCHANGED handler PROVE Own("tx")'
      BY <1>1, <3>1 DEF Buffers, Holding
    <3>2. ASSUME Hooking("tx"), ~Hooking("tx")', Unhook(PinOf(item["tx"])) PROVE Own("tx")'
      BY <1>1, <3>2 DEF Buffers, Holding, Unhook, TypeOK, PinsOK
    <3>3. ASSUME Hooking("tx"), at'["tx"] \in {"send", "reset", "start", "listening"},
                 item'["tx"] = item["tx"], buffer'["tx"].live = buffer["tx"].live,
                 UNCHANGED handler
          PROVE  Own("tx")'
      <4>1. KindOf(item["tx"])' = KindOf(item["tx"]) /\ PinOf(item["tx"])' = PinOf(item["tx"])
        BY <1>1, <3>3, HandStays DEF Hooking
      <4>2. Hooking("tx")'
        BY <3>3, <4>1 DEF Hooking
      <4> QED BY <1>1, <3>3, <4>1, <4>2 DEF Buffers, Holding
    <3>4. at \in [Task -> TxStep \union RxStep] /\ item \in [Task -> Command \union {None}]
      BY DEF TypeOK, TasksOK
    <3>5. CASE TxTake \/ RmtSetup \/ RmtReport \/ TxAck \/ Report \/ Reserve
      BY <1>1, <3>1, <3>4, <3>5
      DEF TxTake, Take, RmtSetup, RmtReport, TxAck, Report, Reserve, Fails, Goes, Finishes, Hooking
    <3>6. CASE Drive
      <4>1. CASE Fails
        BY <1>1, <3>1, <3>4, <3>6, <4>1 DEF Drive, Fails, Finishes, Hooking
      <4>2. CASE ~Fails
        <5>1. KindOf(item["tx"])' = KindOf(item["tx"])
          BY <1>1, <3>6, <4>2, HandStays DEF Drive, Goes
        <5> QED BY <1>1, <3>1, <3>4, <3>6, <4>2, <5>1 DEF Drive, Goes, Hooking
      <4> QED BY <4>1, <4>2
    <3>7. CASE Arm
      <4>1. CASE Fails
        BY <1>1, <3>1, <3>4, <3>7, <4>1 DEF Arm, Hook, Goes, Fails, Finishes, Hooking
      <4>2. CASE ~Fails
        <5>1. /\ KindOf(item["tx"])' = "exchange" /\ PinOf(item["tx"])' = PinOf(item["tx"])
              /\ at'["tx"] = "quiet"
          BY <1>1, <3>4, <3>7, <4>2, HandStays DEF Arm, Goes, Hands
        <5>2. buffer'["tx"].live
          BY <1>1, <3>7, <4>2 DEF Arm, NoBuffer, TypeOK, TasksOK
        <5>3. \A p \in Pin : handler[p] # "tx"
          BY <1>1, <3>7 DEF Arm, Buffers, Hooking
        <5>4. \A p \in Pin : handler'[p] = "tx" => p = PinOf(item["tx"])
          BY <3>7, <4>2, <5>3 DEF Arm, Hook, TypeOK, PinsOK
        <5> QED BY <5>1, <5>2, <5>4 DEF Hooking, Holding
      <4> QED BY <4>1, <4>2
    <3>8. CASE Quiet \/ ResetCount \/ Start
      <4>1. Hooking("tx")
        BY <3>8 DEF Quiet, ResetCount, Start, Hooking, Hands
      <4>2. /\ at'["tx"] \in {"send", "reset", "start", "listening"}
            /\ item'["tx"] = item["tx"] /\ UNCHANGED handler
        BY <1>1, <3>4, <3>8 DEF Quiet, ResetCount, Start, Goes
      <4>3. buffer'["tx"].live = buffer["tx"].live
        BY <1>1, <3>8 DEF Quiet, ResetCount, Start, TypeOK, TasksOK, Buffer
      <4> QED BY <3>3, <4>1, <4>2, <4>3
    <3>9. CASE Send
      <4>1. CASE Fails
        BY <1>1, <3>1, <3>2, <3>4, <3>9, <4>1 DEF Send, Fails, Goes, Finishes, Hooking
      <4>2. CASE ~Fails
        <5>1. KindOf(item["tx"])' = KindOf(item["tx"]) /\ PinOf(item["tx"])' = PinOf(item["tx"])
          BY <1>1, <3>9, <4>2, HandStays DEF Send, Goes
        <5> QED BY <1>1, <3>1, <3>3, <3>4, <3>9, <4>2, <5>1 DEF Send, Goes, Hooking
      <4> QED BY <4>1, <4>2
    <3>10. CASE Stop
      BY <1>1, <3>2, <3>4, <3>10 DEF Stop, Goes, Hooking, Hands
    <3> QED BY <1>5, <3>5, <3>6, <3>7, <3>8, <3>9, <3>10 DEF TxTask
  <2> QED BY <1>1, <2>3, <2>4 DEF Buffers
<1>6. CASE RxTask
  <2>1. /\ buffer'["tx"] = buffer["tx"] /\ at'["tx"] = at["tx"] /\ item'["tx"] = item["tx"]
        /\ \A p \in Pin : handler'[p] \in {handler[p], "none", "rx"}
    BY <1>6
    DEF RxTask, RxTake, RxEnable, RxHook, RxReport, RxUnhook, RxAck, Hook, Unhook, Free, Goes,
        Finishes, TypeOK, TasksOK, PinsOK, Task
  <2>2. Own("tx")'
    BY <1>1, <1>2, <2>1
  <2>3. Own("rx")'
    <3>1. at \in [Task -> TxStep \union RxStep] /\ item \in [Task -> Command \union {None}]
      BY DEF TypeOK, TasksOK
    <3>2. ASSUME ~Hooking("rx"), ~Hooking("rx")', UNCHANGED handler,
                 at'["rx"] # "idle" => buffer'["rx"].live
          PROVE  Own("rx")'
      BY <1>1, <3>2 DEF Buffers, Holding
    <3>3. CASE RxTake \/ RxEnable \/ RxAck
      <4>1. ~Hooking("rx") /\ ~Hooking("rx")' /\ UNCHANGED handler
        BY <1>1, <3>1, <3>3 DEF RxTake, Take, RxEnable, RxAck, Goes, Finishes, Hooking
      <4>2. at'["rx"] # "idle" => buffer'["rx"].live
        BY <1>1, <3>1, <3>3
        DEF RxTake, Take, RxEnable, RxAck, Goes, Finishes, Buffers, Holding, TypeOK, TasksOK
      <4> QED BY <3>2, <4>1, <4>2
    <3>4. CASE RxHook
      <4>1. PinOf(item["rx"])' = PinOf(item["rx"]) /\ at'["rx"] = "listening"
        BY <1>1, <3>1, <3>4, HandStays DEF RxHook, Goes
      <4>2. \A p \in Pin : handler'[p] = "rx" => p = PinOf(item["rx"])
        BY <1>1, <3>4 DEF RxHook, Hook, Buffers, Hooking, TypeOK, PinsOK
      <4>3. buffer'["rx"].live
        BY <1>1, <3>4 DEF RxHook, Buffers, Holding
      <4> QED BY <4>1, <4>2, <4>3 DEF Hooking
    <3>5. CASE RxReport
      <4>1. Hooking("rx") /\ PinOf(item["rx"])' = PinOf(item["rx"]) /\ at'["rx"] = "unhook"
        BY <1>1, <3>1, <3>5, HandStays DEF RxReport, Goes, Hooking
      <4> QED BY <1>1, <3>5, <4>1 DEF RxReport, Hooking, Holding, Buffers
    <3>6. CASE RxUnhook
      <4>1. at'["rx"] = "ack"
        BY <1>1, <3>1, <3>6 DEF RxUnhook, Goes
      <4> QED BY <1>1, <3>6, <4>1 DEF RxUnhook, Unhook, Hooking, Holding, Buffers, TypeOK, PinsOK
    <3> QED BY <1>6, <3>3, <3>4, <3>5, <3>6 DEF RxTask
  <2> QED BY <1>1, <2>2, <2>3 DEF Buffers
<1> QED BY <1>3, <1>4, <1>5, <1>6 DEF Next

-----------------------------------------------------------------------------
(* How long a capture listens.                                             *)

LEMMA ListeningStep == TypeOK /\ Hands /\ Listening /\ [Next]_vars => Listening' /\ now' >= now
<1> SUFFICES ASSUME TypeOK, Hands, Listening, [Next]_vars PROVE Listening' /\ now' >= now
  OBVIOUS
<1> USE SignalTasksAssumption DEF pins, rmt, tasks, capture, history
<1>1. /\ Task = {"tx", "rx"} /\ now \in Nat /\ at \in [Task -> TxStep \union RxStep]
      /\ until \in [Task -> Nat] /\ begun \in [Task -> Nat]
      /\ \A t \in Task : Len(buffer[t].edges) \in Nat
  BY DEF TypeOK, TasksOK, PinsOK, Buffer, Task
<1>2. now' \in {now, now + 1}
  BY DEF Next, Dispatcher, Refuse, Accept, Enqueue, Configure, ApplyConfig, AddEdgeHandler, Unbind,
         RemoveEdgeHandler, ResetPin, TxTask, TxTake, Reserve, Drive, Arm, Quiet, Send, ResetCount,
         Start, Stop, Report, RmtSetup, RmtReport, TxAck, RxTask, RxTake, RxEnable, RxHook,
         RxReport, RxUnhook, RxAck, Edge, Tick, vars
<1>3. ASSUME NEW t \in Task, at'[t] = at[t], until'[t] = until[t], begun'[t] = begun[t],
             \/ buffer'[t] = buffer[t]
             \/ /\ Len(buffer[t].edges) < MaxEdges
                /\ Len(buffer'[t].edges) = Len(buffer[t].edges) + 1
      PROVE  Heeds(t)'
  <2> DEFINE n == Len(buffer[t].edges)  m == Len(buffer'[t].edges)
  <2>1. n \in Nat /\ n <= MaxEdges /\ m \in {n, n + 1} /\ m <= MaxEdges
    <3>1. n \in Nat /\ n <= MaxEdges
      BY <1>1 DEF Listening, Heeds
    <3>2. CASE buffer'[t] = buffer[t]
      BY <3>1, <3>2
    <3>3. CASE n < MaxEdges /\ m = n + 1
      <4> HIDE DEF n, m
      <4> QED BY <3>1, <3>3
    <3> QED BY <1>3, <3>2, <3>3
  <2>2. begun'[t] <= now' /\ (at'[t] = "report" => Over(t)')
    <3>1. /\ begun[t] <= now
          /\ at[t] = "report" => now >= until[t] \/ n >= MaxEdges
      BY DEF Listening, Heeds, Over
    <3>2. Over(t)' <=> now' >= until[t] \/ m >= MaxEdges
      BY <1>3 DEF Over
    <3> HIDE DEF n, m
    <3> QED BY <1>1, <1>2, <1>3, <2>1, <3>1, <3>2
  <2>3. /\ at'[t] \in {"listening", "report"} => until'[t] >= begun'[t] + Listen
        /\ at'[t] = "rmt" => until'[t] = (begun'[t] + Listen) % Modulus
    BY <1>3 DEF Listening, Heeds
  <2> QED BY <2>1, <2>2, <2>3 DEF Heeds
<1>4. ASSUME NEW t \in Task, begun'[t] \in {begun[t], now}, at'[t] \notin {"listening", "report", "rmt"},
             buffer'[t].edges \in {buffer[t].edges, <<>>}
      PROVE  Heeds(t)'
  <2>1. begun'[t] <= now'
    BY <1>1, <1>2, <1>4 DEF Listening, Heeds
  <2>2. Len(buffer'[t].edges) <= MaxEdges
    <3>1. Len(<<>>) = 0 /\ Len(buffer[t].edges) <= MaxEdges
      BY DEF Listening, Heeds
    <3> QED BY <1>4, <3>1
  <2> QED BY <1>4, <2>1, <2>2 DEF Heeds
<1>5. CASE Dispatcher
  <2>1. UNCHANGED <<tasks, capture>>
    BY <1>5 DEF Dispatcher, Refuse, Accept, Enqueue, Configure, ApplyConfig, AddEdgeHandler, Unbind,
                RemoveEdgeHandler, ResetPin
  <2> QED BY <1>1, <1>2, <1>3, <2>1 DEF Listening
<1>6. CASE Tick \/ UNCHANGED vars
  BY <1>1, <1>2, <1>3, <1>6 DEF Tick, vars, Listening
<1>7. ASSUME NEW p \in Pin, Edge(p) PROVE Listening'
  <2>1. UNCHANGED <<tasks, until, begun>>
    BY <1>7 DEF Edge
  <2> QED BY <1>1, <1>3, <1>7, <2>1, EdgeRecorded DEF Listening
<1>8. CASE TxTask
  <2>1. Heeds("rx")'
    <3>1. buffer'["rx"] = buffer["rx"]
      BY <1>1, <1>8
      DEF TxTask, TxTake, Reserve, Drive, Arm, Quiet, Send, ResetCount, Start, Stop, Report,
          RmtSetup, RmtReport, TxAck, Free, TypeOK, TasksOK
    <3>2. at'["rx"] = at["rx"] /\ until'["rx"] = until["rx"] /\ begun'["rx"] = begun["rx"]
      BY <1>8, Apart
    <3> QED BY <1>1, <1>3, <3>1, <3>2
  <2>2. ASSUME TxTake \/ Reserve \/ Drive \/ Arm \/ Quiet \/ Send \/ ResetCount \/ TxAck PROVE Heeds("tx")'
    <3>1. at'["tx"] \notin {"listening", "report", "rmt"} /\ UNCHANGED begun
      BY <1>1, <2>2
      DEF TxTake, Take, Reserve, Drive, Arm, Quiet, Send, ResetCount, TxAck, Fails, Goes, Finishes
    <3>2. buffer'["tx"].edges \in {buffer["tx"].edges, <<>>}
      BY <1>1, <2>2
      DEF TxTake, Reserve, Drive, Arm, Quiet, Send, ResetCount, TxAck, Free, NoBuffer, Buffer,
          TypeOK, TasksOK
    <3> QED BY <1>1, <1>4, <3>1, <3>2
  <2>3. ASSUME Start PROVE Heeds("tx")'
    <3>1. /\ at'["tx"] = "listening" /\ begun'["tx"] = now /\ until'["tx"] = now + Listen
          /\ now' = now
      BY <1>1, <2>3 DEF Start, Goes
    <3>2. buffer'["tx"].edges = buffer["tx"].edges
      BY <1>1, <2>3 DEF Start, Buffer, TypeOK, TasksOK
    <3> QED BY <1>1, <3>1, <3>2 DEF Heeds, Listening
  <2>4. ASSUME Stop PROVE Heeds("tx")'
    <3>1. /\ at'["tx"] = "report" /\ UNCHANGED <<now, capture>> /\ Over("tx")
          /\ at["tx"] = "listening"
      BY <1>1, <2>4 DEF Stop, Goes
    <3> QED BY <1>1, <3>1 DEF Heeds, Listening, Over
  <2>5. ASSUME Report \/ RmtReport PROVE Heeds("tx")'
    <3>1. at'["tx"] = "ack" /\ UNCHANGED begun
      BY <1>1, <2>5 DEF Report, RmtReport, Goes
    <3>2. buffer'["tx"].edges \in {buffer["tx"].edges, <<>>}
      BY <1>1, <2>5 DEF Report, RmtReport, Free, NoBuffer, TypeOK, TasksOK
    <3> QED BY <1>1, <1>4, <3>1, <3>2
  <2>6. ASSUME RmtSetup PROVE Heeds("tx")'
    <3>1. CASE Goes("tx", "rmt") /\ ~Fails
      <4>1. /\ at'["tx"] = "rmt" /\ begun'["tx"] = now /\ until'["tx"] = (now + Listen) % Modulus
            /\ UNCHANGED <<now, buffer>>
        BY <1>1, <2>6, <3>1 DEF RmtSetup, Goes
      <4> QED BY <1>1, <4>1 DEF Heeds, Listening
    <3>2. CASE Fails \/ ~Goes("tx", "rmt")
      <4>1. at'["tx"] \notin {"listening", "report", "rmt"} /\ UNCHANGED buffer
            /\ begun'["tx"] \in {begun["tx"], now}
        BY <1>1, <2>6, <3>2 DEF RmtSetup, Fails, Goes, Finishes
      <4> QED BY <1>1, <1>4, <4>1
    <3> QED BY <3>1, <3>2
  <2>7. Heeds("tx")'
    BY <1>8, <2>2, <2>3, <2>4, <2>5, <2>6 DEF TxTask
  <2> QED BY <1>1, <1>2, <2>1, <2>7 DEF Listening
<1>9. CASE RxTask
  <2>1. Heeds("tx")'
    <3>1. buffer'["tx"] = buffer["tx"]
      BY <1>1, <1>9 DEF RxTask, RxTake, RxEnable, RxHook, RxReport, RxUnhook, RxAck, Free,
                        TypeOK, TasksOK
    <3>2. at'["tx"] = at["tx"] /\ until'["tx"] = until["tx"] /\ begun'["tx"] = begun["tx"]
      BY <1>9, Apart
    <3> QED BY <1>1, <1>3, <3>1, <3>2
  <2>2. ASSUME RxTake \/ RxEnable \/ RxReport \/ RxUnhook \/ RxAck PROVE Heeds("rx")'
    <3>1. at'["rx"] \notin {"listening", "report", "rmt"} /\ begun'["rx"] \in {begun["rx"], now}
      BY <1>1, <2>2 DEF RxTake, Take, RxEnable, RxReport, RxUnhook, RxAck, Goes, Finishes
    <3>2. buffer'["rx"].edges \in {buffer["rx"].edges, <<>>}
      BY <1>1, <2>2
      DEF RxTake, RxEnable, RxReport, RxUnhook, RxAck, Free, NoBuffer, TypeOK, TasksOK
    <3> QED BY <1>1, <1>4, <3>1, <3>2
  <2>3. ASSUME RxHook PROVE Heeds("rx")'
    <3>1. /\ at'["rx"] = "listening" /\ until'["rx"] = now + Listen
          /\ UNCHANGED <<now, begun, buffer>>
      BY <1>1, <2>3 DEF RxHook, Goes
    <3> QED BY <1>1, <3>1 DEF Heeds, Listening
  <2>4. Heeds("rx")'
    BY <1>9, <2>2, <2>3 DEF RxTask
  <2> QED BY <1>1, <1>2, <2>1, <2>4 DEF Listening
<1> QED BY <1>1, <1>2, <1>5, <1>6, <1>7, <1>8, <1>9 DEF Next

\* A time that fits in the width of the counter is kept as it is.
LEMMA FitsInWidth == ASSUME NEW x \in Nat, x < Modulus PROVE x % Modulus = x
BY SignalTasksAssumption

LEMMA ListensStep ==
    TypeOK /\ Hands /\ Listening /\ ListensLongEnough /\ [Next]_vars => ListensLongEnough'
<1> SUFFICES ASSUME TypeOK, Hands, Listening, ListensLongEnough, [Next]_vars,
                    NEW c \in Command, heard'[c] # None
             PROVE  \/ heard'[c].time >= Listen
                    \/ Len(heard'[c].edges) = MaxEdges
                    \/ KindOf(c)' = "listen" /\ now' + Listen >= Modulus
  BY DEF ListensLongEnough
<1> USE DEF pins, rmt, tasks, capture, history
<1>1. /\ Task = {"tx", "rx"} /\ now \in Nat /\ until \in [Task -> Nat] /\ begun \in [Task -> Nat]
      /\ heard \in [Command -> Capture \union {None}]
      /\ \A t \in Task : Len(buffer[t].edges) \in Nat
  <2>1. Task = {"tx", "rx"} /\ now \in Nat /\ until \in [Task -> Nat] /\ begun \in [Task -> Nat]
    BY DEF TypeOK, TasksOK, PinsOK, Task
  <2>2. \A t \in Task : Len(buffer[t].edges) \in Nat
    BY DEF TypeOK, TasksOK, Buffer
  <2>3. heard \in [Command -> Capture \union {None}]
    BY DEF TypeOK, CommandsOK
  <2> QED BY <2>1, <2>2, <2>3
<1>a. Stays /\ now' >= now /\ now' \in Nat /\ Listen \in Nat /\ Modulus \in Nat
  BY StaysStep, ListeningStep, TypeStep, SignalTasksAssumption DEF TypeOK, PinsOK
<1>b. now + Listen >= Modulus => now' + Listen >= Modulus
  <2>1. \A x, y, d, m \in Nat : x <= y /\ x + d >= m => y + d >= m
    OBVIOUS
  <2> QED BY <1>1, <1>a, <2>1, Zenon
<1>c. MaxEdges \in Nat
  BY SignalTasksAssumption
<1>2. CASE heard'[c] = heard[c]
  <2>1. KindOf(c)' = KindOf(c)
    BY <1>a, <1>2 DEF Hands, Stays, Asked, KindOf
  <2>2. \/ heard[c].time >= Listen
        \/ Len(heard[c].edges) = MaxEdges
        \/ KindOf(c) = "listen" /\ now + Listen >= Modulus
    BY <1>2 DEF ListensLongEnough
  <2> QED BY <1>2, <1>b, <2>1, <2>2
<1>3. ASSUME NEW t \in Task, at[t] # "idle", SendCapture(t), UNCHANGED <<now, request>>,
             heard'[c] # heard[c]
      PROVE  /\ c = item[t] /\ KindOf(c)' = KindOf(item[t])
             /\ heard'[c].time = now - begun[t] /\ heard'[c].edges = buffer[t].edges
  <2>1. heard' = [heard EXCEPT ![item[t]] = [time |-> now - begun[t], edges |-> buffer[t].edges]]
    BY <1>3 DEF SendCapture
  <2>2. c = item[t]
    BY <1>1, <1>3, <2>1
  <2>3. heard'[c] = [time |-> now - begun[t], edges |-> buffer[t].edges]
    BY <1>1, <2>1, <2>2
  <2> QED BY <1>3, <2>2, <2>3 DEF KindOf
<1>4. ASSUME NEW t \in Task, at[t] \in {"listening", "report"}, Over(t), SendCapture(t),
             UNCHANGED <<now, request>>, heard'[c] # heard[c]
      PROVE  heard'[c].time >= Listen \/ Len(heard'[c].edges) = MaxEdges
  <2>1. until[t] >= begun[t] + Listen /\ Len(buffer[t].edges) <= MaxEdges
    BY <1>4 DEF Listening, Heeds
  <2>2. heard'[c].time = now - begun[t] /\ heard'[c].edges = buffer[t].edges
    BY <1>3, <1>4
  <2> QED BY <1>1, <1>a, <1>c, <1>4, <2>1, <2>2 DEF Over
<1>5. CASE Report /\ heard'[c] # heard[c]
  <2>1. at["tx"] = "report" /\ SendCapture("tx") /\ UNCHANGED <<now, request>> /\ Over("tx")
    BY <1>1, <1>5 DEF Report, Listening, Heeds
  <2> QED BY <1>1, <1>4, <1>5, <2>1
<1>6. CASE RxReport /\ heard'[c] # heard[c]
  <2>1. at["rx"] = "listening" /\ SendCapture("rx") /\ UNCHANGED <<now, request>> /\ Over("rx")
    BY <1>6 DEF RxReport
  <2> QED BY <1>1, <1>4, <1>6, <2>1
<1>7. CASE RmtReport /\ heard'[c] # heard[c]
  <2>1. /\ at["tx"] = "rmt" /\ SendCapture("tx") /\ UNCHANGED <<now, request>>
        /\ now >= until["tx"]
    BY <1>7 DEF RmtReport
  <2>2. heard'[c].time = now - begun["tx"] /\ KindOf(c)' = "listen"
    BY <1>1, <1>3, <1>7, <2>1 DEF Hands
  <2>3. begun["tx"] <= now /\ until["tx"] = (begun["tx"] + Listen) % Modulus
    BY <1>1, <2>1 DEF Listening, Heeds
  <2>4. CASE begun["tx"] + Listen < Modulus
    <3>1. until["tx"] = begun["tx"] + Listen
      BY <1>1, <1>a, <2>3, <2>4, FitsInWidth
    <3> QED BY <1>1, <1>a, <2>1, <2>2, <3>1
  <2>5. CASE begun["tx"] + Listen >= Modulus
    <3>1. begun["tx"] <= now /\ begun["tx"] \in Nat
      BY <1>1, <2>3
    <3>2. now + Listen >= Modulus
      BY <1>1, <1>a, <2>5, <3>1
    <3> QED BY <1>b, <2>2, <3>2
  <2> QED BY <1>1, <1>a, <2>4, <2>5
<1>8. Report \/ RmtReport \/ RxReport \/ UNCHANGED heard
  BY DEF Next, Dispatcher, Refuse, Accept, Enqueue, Configure, ApplyConfig, AddEdgeHandler, Unbind,
         RemoveEdgeHandler, ResetPin, TxTask, TxTake, Reserve, Drive, Arm, Quiet, Send, ResetCount,
         Start, Stop, RmtSetup, TxAck, RxTask, RxTake, RxEnable, RxHook, RxUnhook, RxAck,
         Edge, Tick, vars
<1> QED BY <1>2, <1>5, <1>6, <1>7, <1>8

-----------------------------------------------------------------------------
(* The sum of a sequence.  FoldLeft is defined with a recursive function   *)
(* on sets of positions; its values on 1..k are the sums of the first k.   *)

\* A set of naturals that contains 0 and the successor of each of its members
\* contains every natural: no least one is missing.
LEMMA Induction ==
    ASSUME NEW S, 0 \in S, \A n \in Nat : n \in S => n + 1 \in S
    PROVE  Nat \subseteq S
<1> SUFFICES ASSUME Nat \ S # {} PROVE FALSE
  OBVIOUS
<1> DEFINE T == Nat \ S
<1>1. PICK m \in T : \A k \in T : ~ (<<k, m>> \in OpToRel(<, Nat))
  <2>1. T \subseteq Nat /\ T # {}
    OBVIOUS
  <2> HIDE DEF T
  <2> QED BY <2>1, NatLessThanWellFounded, WFMin
<1>2. m \in Nat /\ m - 1 \in Nat /\ m - 1 < m /\ (m - 1) + 1 = m
  OBVIOUS
<1>3. <<m - 1, m>> \in OpToRel(<, Nat)
  BY <1>2 DEF OpToRel
<1>4. m - 1 \in S
  BY <1>1, <1>2, <1>3
<1> QED BY <1>1, <1>2, <1>4
\* The function on the sets of positions of s, by which FoldLeft is defined.
IsFold(g, n, s) ==
    g = [T \in SUBSET (1..n) |-> IF T = {} THEN 0 ELSE g[T \ {Max(T)}] + s[Max(T)]]

LEMMA MaxOfInterval ==
    ASSUME NEW n \in Nat, NEW T \in SUBSET (1..n), n \in T
    PROVE  Max(T) = n
<1>1. n \in T /\ \A y \in T : n >= y
  OBVIOUS
<1>2. \A x \in T : (\A y \in T : x >= y) => x = n
  OBVIOUS
<1> QED BY <1>1, <1>2 DEF Max

LEMMA FoldExists ==
    ASSUME NEW s
    PROVE  \A n \in Nat : \E g : IsFold(g, n, s)
<1> DEFINE S == {n \in Nat : \E g : IsFold(g, n, s)}
<1>1. 0 \in S
  <2> DEFINE g == [T \in SUBSET (1..0) |-> 0]
  <2>1. \A T \in SUBSET (1..0) : T = {}
    OBVIOUS
  <2>2. g = [T \in SUBSET (1..0) |-> IF T = {} THEN 0 ELSE g[T \ {Max(T)}] + s[Max(T)]]
    BY <2>1
  <2> QED BY <2>2 DEF IsFold
<1>2. ASSUME NEW n \in Nat, n \in S PROVE n + 1 \in S
  <2>1. PICK g : IsFold(g, n, s)
    BY <1>2
  <2> DEFINE h == [T \in SUBSET (1..(n + 1)) |->
                     IF n + 1 \in T THEN g[T \ {n + 1}] + s[n + 1] ELSE g[T]]
             v(T) == IF T = {} THEN 0 ELSE h[T \ {Max(T)}] + s[Max(T)]
  <2>2. \A T \in SUBSET (1..n) : /\ g[T] = IF T = {} THEN 0 ELSE g[T \ {Max(T)}] + s[Max(T)]
                                 /\ T \in SUBSET (1..(n + 1)) /\ n + 1 \notin T
                                 /\ h[T] = g[T]
    <3>1. \A T \in SUBSET (1..n) : g[T] = IF T = {} THEN 0 ELSE g[T \ {Max(T)}] + s[Max(T)]
      BY <2>1 DEF IsFold
    <3>2. \A T \in SUBSET (1..n) : T \in SUBSET (1..(n + 1)) /\ n + 1 \notin T
      OBVIOUS
    <3> QED BY <3>1, <3>2
  <2>3. ASSUME NEW T \in SUBSET (1..(n + 1)) PROVE h[T] = v(T)
    <3>1. CASE n + 1 \in T
      <4>1. Max(T) = n + 1 /\ T # {}
        BY <3>1, MaxOfInterval
      <4>2. T \ {n + 1} \in SUBSET (1..n)
        OBVIOUS
      <4>3. h[T \ {n + 1}] = g[T \ {n + 1}]
        BY <2>2, <4>2
      <4> HIDE DEF h
      <4>4. v(T) = g[T \ {n + 1}] + s[n + 1]
        BY <4>1, <4>3
      <4> QED BY <3>1, <4>4 DEF h
    <3>2. CASE n + 1 \notin T
      <4>1. T \in SUBSET (1..n)
        BY <3>2
      <4>2. T \ {Max(T)} \in SUBSET (1..n)
        BY <4>1
      <4>3. h[T] = g[T] /\ h[T \ {Max(T)}] = g[T \ {Max(T)}]
        BY <2>2, <4>1, <4>2
      <4> HIDE DEF h
      <4> QED BY <2>2, <4>1, <4>3
    <3> QED BY <3>1, <3>2
  <2>4. h = [T \in SUBSET (1..(n + 1)) |-> v(T)]
    BY <2>3
  <2>5. IsFold(h, n + 1, s)
    BY <2>4 DEF IsFold
  <2> QED BY <2>5
<1> HIDE DEF S
<1>3. Nat \subseteq S
  BY <1>1, <1>2, Induction
<1> QED BY <1>3 DEF S

\* The sums of the beginnings of a sequence.
Sums(v, s) ==
    /\ v \in [0..Len(s) -> Int] /\ v[0] = 0
    /\ \A i \in 1..Len(s) : v[i] = v[i - 1] + s[i]

LEMMA SumHasSums ==
    ASSUME NEW s \in Seq(Int)
    PROVE  \E v : Sums(v, s) /\ v[Len(s)] = Sum(s)
<1> DEFINE n == Len(s)
           g == CHOOSE g : IsFold(g, n, s)
           u == [k \in 0..n |-> g[1..k]]
<1>1. n \in Nat /\ DOMAIN s = 1..n /\ \A i \in 1..n : s[i] \in Int
  OBVIOUS
<1>2. Sum(s) = g[1..n]
  BY <1>1 DEF Sum, FoldLeft, MapThenFoldSet, IsFold
<1>3. IsFold(g, n, s)
  BY <1>1, FoldExists
<1> HIDE DEF g, n
<1>4. u[0] = 0
  <2>1. 1..0 = {} /\ {} \in SUBSET (1..n)
    OBVIOUS
  <2>2. g[{}] = 0
    BY <1>3, <2>1 DEF IsFold
  <2> QED BY <1>1, <2>1, <2>2
<1>5. ASSUME NEW k \in 1..n PROVE u[k] = u[k - 1] + s[k]
  <2>1. 1..k \in SUBSET (1..n) /\ 1..k # {} /\ k \in Nat /\ k \in 1..k /\ 1..k \in SUBSET (1..k)
    BY <1>1
  <2>2. Max(1..k) = k
    BY <2>1, MaxOfInterval
  <2>3. (1..k) \ {k} = 1..(k - 1)
    BY <2>1
  <2>4. g[1..k] = g[(1..k) \ {Max(1..k)}] + s[Max(1..k)]
    BY <1>3, <2>1 DEF IsFold
  <2>5. k \in 0..n /\ k - 1 \in 0..n
    BY <1>1
  <2>6. u[k] = g[1..k] /\ u[k - 1] = g[1..(k - 1)]
    BY <2>5
  <2>7. g[1..k] = g[1..(k - 1)] + s[k]
    BY <2>2, <2>3, <2>4
  <2> QED BY <2>6, <2>7
<1> HIDE DEF u
<1>6. \A k \in Nat : k <= n => u[k] \in Int
  <2> DEFINE S == {k \in Nat : k <= n => u[k] \in Int}
  <2>1. 0 \in S
    BY <1>4
  <2>2. ASSUME NEW k \in Nat, k \in S PROVE k + 1 \in S
    <3> SUFFICES ASSUME k + 1 <= n PROVE u[k + 1] \in Int
      OBVIOUS
    <3>1. k + 1 \in 1..n /\ k <= n /\ (k + 1) - 1 = k
      BY <1>1
    <3> QED BY <1>1, <1>5, <2>2, <3>1
  <2> HIDE DEF S
  <2>3. Nat \subseteq S
    BY <2>1, <2>2, Induction
  <2> QED BY <2>3 DEF S
<1>7. u \in [0..n -> Int]
  <2>1. \A k \in 0..n : u[k] \in Int
    BY <1>1, <1>6
  <2> QED BY <2>1 DEF u
<1>8. Sums(u, s)
  BY <1>4, <1>5, <1>7 DEF Sums, n
<1>9. u[n] = Sum(s)
  BY <1>1, <1>2 DEF u
<1> QED BY <1>8, <1>9 DEF n

\* Two lists of sums are the same, as far as what they are of is the same.
LEMMA SumsAgree ==
    ASSUME NEW s \in Seq(Int), NEW t \in Seq(Int), NEW v, NEW w, Sums(v, s), Sums(w, t),
           Len(s) <= Len(t), \A i \in 1..Len(s) : s[i] = t[i]
    PROVE  v[Len(s)] = w[Len(s)]
<1> DEFINE S == {k \in Nat : k <= Len(s) => v[k] = w[k]}
<1>0. Len(s) \in Nat /\ Len(t) \in Nat
  OBVIOUS
<1>1. 0 \in S
  BY DEF Sums
<1>2. ASSUME NEW k \in Nat, k \in S PROVE k + 1 \in S
  <2> SUFFICES ASSUME k + 1 <= Len(s) PROVE v[k + 1] = w[k + 1]
    OBVIOUS
  <2>1. k + 1 \in 1..Len(s) /\ k + 1 \in 1..Len(t) /\ k <= Len(s) /\ (k + 1) - 1 = k
    BY <1>0
  <2> QED BY <1>2, <2>1 DEF Sums
<1> HIDE DEF S
<1>3. Nat \subseteq S
  BY <1>1, <1>2, Induction
<1> QED BY <1>0, <1>3 DEF S

\* The durations of no edges, and of those and one more.
LEMMA SumOfEdges ==
    /\ Sum(<<>>) = 0
    /\ \A s \in Seq(Int), d \in Int :
         Sum(s) \in Int /\ Sum(Append(s, d)) = Sum(s) + d
<1>1. Sum(<<>>) = 0
  <2>0. <<>> \in Seq(Int) /\ Len(<<>>) = 0
    OBVIOUS
  <2>1. PICK v : Sums(v, <<>>) /\ v[Len(<<>>)] = Sum(<<>>)
    BY <2>0, SumHasSums
  <2> QED BY <2>0, <2>1 DEF Sums
<1>2. ASSUME NEW s \in Seq(Int), NEW d \in Int
      PROVE  Sum(s) \in Int /\ Sum(Append(s, d)) = Sum(s) + d
  <2> DEFINE t == Append(s, d)
  <2>1. /\ t \in Seq(Int) /\ Len(t) = Len(s) + 1 /\ Len(s) \in Nat
        /\ \A i \in 1..Len(s) : t[i] = s[i]
        /\ t[Len(s) + 1] = d
    BY AppendProperties
  <2> HIDE DEF t
  <2>2. PICK v : Sums(v, s) /\ v[Len(s)] = Sum(s)
    BY SumHasSums
  <2>3. PICK w : Sums(w, t) /\ w[Len(t)] = Sum(t)
    BY <2>1, SumHasSums
  <2>4. v[Len(s)] = w[Len(s)]
    BY <2>1, <2>2, <2>3, SumsAgree
  <2>5. v[Len(s)] \in Int
    BY <2>1, <2>2 DEF Sums
  <2>6. w[Len(t)] = w[Len(s)] + d
    <3>1. Len(t) \in 1..Len(t) /\ Len(t) - 1 = Len(s) /\ t[Len(t)] = d
      BY <2>1
    <3> QED BY <2>3, <3>1 DEF Sums
  <2> QED BY <2>2, <2>3, <2>4, <2>5, <2>6 DEF t
<1> QED BY <1>1, <1>2

-----------------------------------------------------------------------------
(* Who has a pin for itself.                                               *)

\* A command comes into a hand, or the dispatcher turns to a pin: whoever has a
\* command on that pin is disturbed by it.
Turns ==
    /\ disturbed \subseteq disturbed'
    /\ \A t \in Task : item'[t] \notin {item[t], None} =>
         /\ item'[t] \in Waiting(t) /\ disp' = disp /\ item[t] = None
         /\ \A u \in Task \ {t} : item'[u] = item[u]
         /\ OnPin(PinOf(item'[t])) \subseteq disturbed'
         /\ \/ item'[t] \in disturbed'
            \/ OnPin(PinOf(item'[t])) = {} /\ disp.with # PinOf(item'[t])
    /\ disp'.at \in PinStep => \/ disp.at \in PinStep /\ disp'.with = disp.with
                               \/ OnPin(disp'.with) \subseteq disturbed' /\ UNCHANGED item

LEMMA TurnsStep == TypeOK /\ Hands /\ [Next]_vars => Turns
<1> SUFFICES ASSUME TypeOK, Hands, [Next]_vars PROVE Turns
  OBVIOUS
<1> USE DEF pins, rmt, tasks, capture, history
<1>1. Task = {"tx", "rx"} /\ item \in [Task -> Command \union {None}]
  BY DEF TypeOK, TasksOK, Task
<1>2. ASSUME UNCHANGED <<disturbed, disp>>, \A t \in Task : item'[t] \in {item[t], None}
      PROVE  Turns
  BY <1>2 DEF Turns
<1>3. CASE Dispatcher
  <2>1. CASE \E c \in Command : Refuse(c) \/ Accept(c)
    BY <2>1 DEF Refuse, Accept, Turns, PinStep
  <2>2. CASE Enqueue \/ ApplyConfig \/ AddEdgeHandler \/ RemoveEdgeHandler \/ ResetPin
    BY <2>2 DEF Enqueue, ApplyConfig, AddEdgeHandler, RemoveEdgeHandler, ResetPin, Turns, PinStep,
                Idle, TypeOK, PinsOK
  <2>3. ASSUME NEW p \in Pin, Unbind(p) \/ \E m \in {"signal", "interrupt"} : Configure(p, m)
        PROVE  Turns
    <3>1. disp'.with = p /\ disturbed' = disturbed \union OnPin(p) /\ UNCHANGED item
      BY <2>3 DEF Unbind, Configure
    <3> QED BY <3>1 DEF Turns
  <2> QED BY <1>3, <2>1, <2>2, <2>3 DEF Dispatcher
<1>4. ASSUME NEW u \in Task, Take(u), UNCHANGED disp,
             item' \in {item, [item EXCEPT ![u] = Head(queue[u])]}, UNCHANGED request
      PROVE  Turns
  <2> DEFINE c == Head(queue[u])  others == OnPin(PinOf(c))
  <2>1. at[u] = "idle" /\ item[u] = None /\ c \in Waiting(u)
    <3>1. queue[u] \in Seq(Command) /\ queue[u] # <<>> /\ at[u] = "idle"
      BY <1>4 DEF Take, TypeOK, CommandsOK
    <3> QED BY <3>1, WaitingSteps DEF Waiting, Hands
  <2>2. disturbed' = disturbed \union others \union
                       IF others # {} \/ disp.with = PinOf(c) THEN {c} ELSE {}
    BY <1>4 DEF Take
  <2>3. item'[u] \in {item[u], c} /\ \A t \in Task \ {u} : item'[t] = item[t]
    BY <1>1, <1>4
  <2> HIDE DEF c
  <2>4. disturbed \subseteq disturbed' /\ others \subseteq disturbed'
    BY <2>2
  <2>5. c \in disturbed' \/ (others = {} /\ disp.with # PinOf(c))
    BY <2>2
  <2> QED BY <1>4, <2>1, <2>3, <2>4, <2>5 DEF Turns
<1>5. CASE TxTask
  <2>1. CASE TxTake
    BY <1>1, <1>4, <2>1 DEF TxTake
  <2>2. CASE Reserve \/ Drive \/ Arm \/ Send \/ RmtSetup \/ TxAck
    BY <1>1, <1>2, <2>2 DEF Reserve, Drive, Arm, Send, RmtSetup, TxAck, Fails, Goes, Finishes
  <2>3. CASE Quiet \/ ResetCount \/ Start \/ Stop \/ Report \/ RmtReport
    BY <1>2, <2>3 DEF Quiet, ResetCount, Start, Stop, Report, RmtReport, Goes
  <2> QED BY <1>5, <2>1, <2>2, <2>3 DEF TxTask
<1>6. CASE RxTask
  <2>1. CASE RxTake
    BY <1>1, <1>4, <2>1 DEF RxTake
  <2>2. CASE RxEnable \/ RxHook \/ RxReport \/ RxUnhook \/ RxAck
    BY <1>1, <1>2, <2>2 DEF RxEnable, RxHook, RxReport, RxUnhook, RxAck, Goes, Finishes
  <2> QED BY <1>6, <2>1, <2>2 DEF RxTask
<1>7. CASE Tick \/ (\E p \in Pin : Edge(p)) \/ UNCHANGED vars
  BY <1>2, <1>7 DEF Tick, Edge, vars
<1> QED BY <1>3, <1>5, <1>6, <1>7 DEF Next

LEMMA PrivateStep == TypeOK /\ Hands /\ Private /\ [Next]_vars => Private'
<1> SUFFICES ASSUME TypeOK, Hands, Private, [Next]_vars, NEW t \in Task, Undisturbed(t)'
             PROVE  /\ disp'.at \in PinStep => disp'.with # PinOf(item[t])'
                    /\ \A u \in Task \ {t} : item'[u] # None => PinOf(item[u])' # PinOf(item[t])'
  BY DEF Private
<1>1. Turns /\ Stays
  BY TurnsStep, StaysStep
<1>2. \A u \in Task : item[u] # None => /\ at[u] # "idle" /\ item[u] \in Command /\ item[u] \in InHand
                                       /\ item[u] \in OnPin(PinOf(item[u]))
  BY DEF Hands, Asked, InHand, OnPin
<1>3. ASSUME NEW u \in Task, item'[u] = item[u], item'[u] # None
      PROVE  PinOf(item[u])' = PinOf(item[u])
  BY <1>1, <1>2, <1>3, HandStays
<1>4. ASSUME NEW u \in Task, item'[u] \in Waiting(u)
      PROVE  PinOf(item[u])' = PinOf(item'[u])
  BY <1>1, <1>4 DEF Hands, Stays, Asked, PinOf
<1>5. CASE item'[t] = item[t]
  <2>1. Undisturbed(t) /\ PinOf(item[t])' = PinOf(item[t]) /\ item[t] \notin disturbed'
    BY <1>1, <1>3, <1>5 DEF Undisturbed, Turns
  <2>2. ASSUME disp'.at \in PinStep PROVE disp'.with # PinOf(item[t])
    <3>1. CASE disp.at \in PinStep /\ disp'.with = disp.with
      BY <2>1, <3>1 DEF Private
    <3>2. CASE OnPin(disp'.with) \subseteq disturbed'
      BY <1>2, <2>1, <3>2 DEF Undisturbed
    <3> QED BY <1>1, <2>2, <3>1, <3>2 DEF Turns
  <2>3. ASSUME NEW u \in Task \ {t}, item'[u] # None PROVE PinOf(item[u])' # PinOf(item[t])
    <3>1. CASE item'[u] = item[u]
      BY <1>3, <2>1, <2>3, <3>1 DEF Private
    <3>2. CASE item'[u] # item[u]
      <4>1. item'[u] \in Waiting(u) /\ OnPin(PinOf(item'[u])) \subseteq disturbed'
        BY <1>1, <2>3, <3>2 DEF Turns
      <4>2. item[t] \notin OnPin(PinOf(item'[u]))
        BY <2>1, <4>1
      <4>3. PinOf(item'[u]) # PinOf(item[t])
        BY <1>2, <2>1, <4>2 DEF Undisturbed
      <4> QED BY <1>4, <4>1, <4>3
    <3> QED BY <3>1, <3>2
  <2> QED BY <2>1, <2>2, <2>3
<1>6. CASE item'[t] # item[t]
  <2> DEFINE p == PinOf(item'[t])
  <2>1. item'[t] # None /\ item'[t] \notin disturbed'
    BY DEF Undisturbed
  <2>2. /\ item'[t] \in Waiting(t) /\ disp' = disp /\ \A u \in Task \ {t} : item'[u] = item[u]
        /\ OnPin(p) = {} /\ disp.with # p
    BY <1>1, <1>6, <2>1 DEF Turns
  <2>3. PinOf(item[t])' = p
    BY <1>4, <2>2
  <2> HIDE DEF p
  <2>4. \A u \in Task \ {t} : item'[u] # None => PinOf(item[u]) # p
    BY <1>2, <2>2
  <2> QED BY <1>3, <2>2, <2>3, <2>4
<1> QED BY <1>5, <1>6

-----------------------------------------------------------------------------
(* What the edges of a buffer tell.                                        *)

LEMMA ToldStays ==
    ASSUME TypeOK, TypeOK', NEW t \in Task, Told(t), now' >= now,
           buffer'[t] = buffer[t], begun'[t] = begun[t]
    PROVE  Told(t)'
<1>1. /\ now \in Nat /\ now' \in Nat /\ buffer[t].last \in Nat
  BY DEF TypeOK, PinsOK, TasksOK, Buffer
<1> QED BY <1>1 DEF Told

\* An edge adds the time since the last one, and is the last one then.
LEMMA EdgeTold ==
    ASSUME TypeOK, NEW p \in Pin, Edge(p), NEW t \in Task
    PROVE  /\ handler[p] # t => buffer'[t] = buffer[t]
           /\ Told(t) => Told(t)'
<1> DEFINE u == handler[p]  b == buffer[u]  d == now - b.last
           s == Append(b.edges, d)
<1>1. /\ u \in Task /\ buffer \in [Task -> Buffer] /\ now \in Nat /\ begun[u] \in Nat
      /\ d \in Int /\ b \in Buffer /\ b.edges \in Seq(Int) /\ b.last \in Nat
      /\ UNCHANGED <<now, begun>>
  <2>1. u \in Task /\ UNCHANGED <<now, begun>>
    BY DEF Edge
  <2>2. buffer \in [Task -> Buffer] /\ now \in Nat /\ begun[u] \in Nat /\ b \in Buffer
    BY <2>1 DEF TypeOK, TasksOK, PinsOK
  <2> QED BY <2>1, <2>2 DEF Buffer
<1>2. buffer' = [buffer EXCEPT ![u].edges = s, ![u].last = now]
  BY DEF Edge
<1>3. Sum(s) = Sum(b.edges) + d /\ Sum(b.edges) \in Int
  BY <1>1, SumOfEdges
<1> HIDE DEF s
<1>4. [buffer EXCEPT ![u].edges = s, ![u].last = now]
         = [buffer EXCEPT ![u] = [b EXCEPT !.edges = s, !.last = now]]
  BY <1>1
<1>5. buffer'[u] = [b EXCEPT !.edges = s, !.last = now]
  BY <1>1, <1>2, <1>4
<1>6. buffer'[u].edges = s /\ buffer'[u].last = now
  BY <1>1, <1>5 DEF Buffer
<1>7. \A v \in Task \ {u} : buffer'[v] = buffer[v]
  BY <1>1, <1>2, <1>4
<1>8. CASE t # u
  <2>1. buffer'[t] = buffer[t]
    BY <1>7, <1>8
  <2> QED BY <1>1, <1>8, <2>1 DEF Told
<1>9. CASE t = u
  <2> SUFFICES ASSUME Told(t) PROVE Told(t)'
    BY <1>9
  <2>1. begun[u] + Sum(b.edges) = b.last
    BY <1>9 DEF Told
  <2>2. begun[u] + Sum(s) = now
    BY <1>1, <1>3, <2>1
  <2> QED BY <1>1, <1>6, <1>9, <2>2 DEF Told
<1> QED BY <1>8, <1>9

\* What is not a step of the TX task leaves the interrupt of its pin alone, when
\* it has the pin for itself.
LEMMA PinLeftAlone ==
    ASSUME TypeOK, Hands, Private, [Next]_vars, ~TxTask, Undisturbed("tx")
    PROVE  enabled'[PinOf(item["tx"])] = enabled[PinOf(item["tx"])]
<1> DEFINE p == PinOf(item["tx"])
<1> USE DEF pins, rmt, tasks, capture, history
<1>1. /\ enabled \in [Pin -> BOOLEAN] /\ p \in Pin
      /\ disp.at \in PinStep => disp.with \in Pin /\ disp.with # p
      /\ at["rx"] # "idle" => PinOf(item["rx"]) # p /\ PinOf(item["rx"]) \in Pin
  <2>1. \A t \in Task : at[t] # "idle" => item[t] # None /\ PinOf(item[t]) \in Pin
    BY HandsHold DEF Hands, PinOf
  <2>2. at["tx"] # "idle" /\ "tx" \in Task /\ "rx" \in Task
    BY DEF Hands, Undisturbed, Task
  <2> QED BY <2>1, <2>2 DEF Private, Undisturbed, Hands, TypeOK, PinsOK, Task
<1> HIDE DEF p
<1>2. CASE Dispatcher
  <2>1. \/ UNCHANGED enabled
        \/ disp.at \in PinStep /\ \E b \in BOOLEAN : enabled' = [enabled EXCEPT ![disp.with] = b]
    <3>1. CASE ApplyConfig
      <4>1. (mode[disp.with] = "interrupt") \in BOOLEAN
        OBVIOUS
      <4> QED BY <3>1, <4>1, Zenon DEF ApplyConfig, PinStep
    <3>2. CASE AddEdgeHandler \/ RemoveEdgeHandler \/ ResetPin
      BY <3>2 DEF AddEdgeHandler, RemoveEdgeHandler, ResetPin, PinStep
    <3> QED BY <1>2, <3>1, <3>2
        DEF Dispatcher, Refuse, Accept, Enqueue, Configure, Unbind
  <2> QED BY <1>1, <2>1 DEF p
<1>3. CASE RxTask
  <2>1. CASE RxEnable \/ RxHook \/ RxUnhook
    <3>1. \E b \in BOOLEAN : enabled' = [enabled EXCEPT ![PinOf(item["rx"])] = b]
      BY <2>1, Zenon DEF RxEnable, RxHook, RxUnhook, Hook, Unhook
    <3>2. at["rx"] # "idle"
      BY <2>1 DEF RxEnable, RxHook, RxUnhook
    <3> QED BY <1>1, <3>1, <3>2 DEF p
  <2>2. CASE RxTake \/ RxReport \/ RxAck
    BY <2>2 DEF RxTake, RxReport, RxAck
  <2> QED BY <1>3, <2>1, <2>2 DEF RxTask
<1>4. CASE Tick \/ (\E q \in Pin : Edge(q)) \/ UNCHANGED vars
  BY <1>4 DEF Tick, Edge, vars
<1> QED BY <1>2, <1>3, <1>4 DEF Next, p

\* The part of Clocked that is about the TX task.
TxClocked ==
    /\ ~Capturing => buffer["tx"].edges = <<>>
    /\ Undisturbed("tx") =>
        /\ Capturing /\ at["tx"] \in {"send", "reset", "start"} => ~enabled[PinOf(item["tx"])]
        /\ at["tx"] = "start" => buffer["tx"].edges = <<>>
        /\ at["tx"] \in {"listening", "report"} => Told("tx")

LEMMA TxClockedOthers ==
    ASSUME TypeOK, TypeOK', Hands, Buffers, Listening, Private, Clocked, [Next]_vars, ~TxTask
    PROVE  TxClocked'
<1> USE DEF pins, rmt, tasks, capture, history
<1>1. /\ at'["tx"] = at["tx"] /\ item'["tx"] = item["tx"] /\ begun'["tx"] = begun["tx"]
      /\ now' >= now /\ "tx" \in Task /\ Stays /\ Turns
  BY Apart, ListeningStep, StaysStep, TurnsStep DEF Task
<1>2. /\ at["tx"] # "idle" => PinOf(item["tx"])' = PinOf(item["tx"])
      /\ Capturing' <=> Capturing
  <2>1. at["tx"] # "idle" =>
          KindOf(item["tx"])' = KindOf(item["tx"]) /\ PinOf(item["tx"])' = PinOf(item["tx"])
    BY <1>1, HandStays
  <2> QED BY <1>1, <2>1 DEF Capturing
<1>3. Undisturbed("tx")' => /\ Undisturbed("tx") /\ at["tx"] # "idle"
                            /\ enabled'[PinOf(item["tx"])] = enabled[PinOf(item["tx"])]
  <2>1. Undisturbed("tx")' => Undisturbed("tx")
    BY <1>1 DEF Undisturbed, Turns
  <2> QED BY <1>1, <2>1, PinLeftAlone DEF Undisturbed, Hands
<1>4. \/ buffer'["tx"] = buffer["tx"]
      \/ \E p \in Pin : Edge(p) /\ handler[p] = "tx"
  <2>1. ASSUME NEW p \in Pin, Edge(p), handler[p] # "tx" PROVE buffer'["tx"] = buffer["tx"]
    BY <1>1, <2>1, EdgeTold
  <2>2. RxTask => buffer'["tx"] = buffer["tx"]
    BY DEF RxTask, RxTake, RxEnable, RxHook, RxReport, RxUnhook, RxAck, Free, TypeOK, TasksOK, Task
  <2>3. Dispatcher \/ Tick \/ UNCHANGED vars => buffer'["tx"] = buffer["tx"]
    BY DEF Dispatcher, Refuse, Accept, Enqueue, Configure, ApplyConfig, AddEdgeHandler, Unbind,
           RemoveEdgeHandler, ResetPin, Tick, vars
  <2> QED BY <2>1, <2>2, <2>3 DEF Next
<1>5. CASE buffer'["tx"] = buffer["tx"]
  <2>1. Told("tx") => Told("tx")'
    BY <1>1, <1>5, ToldStays
  <2> QED BY <1>1, <1>2, <1>3, <1>5, <2>1 DEF TxClocked, Clocked
<1>6. ASSUME NEW p \in Pin, Edge(p), handler[p] = "tx" PROVE TxClocked'
  <2>1. Told("tx") => Told("tx")'
    BY <1>1, <1>6, EdgeTold
  <2>2. Capturing /\ PinOf(item["tx"]) = p /\ enabled[p]
    BY <1>1, <1>6 DEF Buffers, Hooking, Capturing, Edge
  <2>3. Undisturbed("tx") => at["tx"] \notin {"send", "reset", "start"}
    BY <2>2 DEF Clocked
  <2> QED BY <1>1, <1>2, <1>3, <2>1, <2>2, <2>3 DEF TxClocked, Clocked
<1> QED BY <1>4, <1>5, <1>6

LEMMA TxClockedSelf ==
    ASSUME TypeOK, TypeOK', Hands, Hands', Private, Clocked, [Next]_vars, TxTask
    PROVE  TxClocked'
<1> USE DEF pins, rmt, tasks, capture, history
<1>1. /\ "tx" \in Task /\ Stays /\ Turns /\ at \in [Task -> TxStep \union RxStep]
      /\ buffer \in [Task -> Buffer] /\ now \in Nat /\ begun \in [Task -> Nat]
      /\ item \in [Task -> Command \union {None}] /\ enabled \in [Pin -> BOOLEAN]
  BY StaysStep, TurnsStep DEF Task, TypeOK, TasksOK, PinsOK
<1>2. at["tx"] # "idle" =>
        /\ item["tx"] # None /\ PinOf(item["tx"]) \in Pin
        /\ item'["tx"] = item["tx"] => /\ KindOf(item["tx"])' = KindOf(item["tx"])
                                       /\ PinOf(item["tx"])' = PinOf(item["tx"])
  BY <1>1, HandStays, HandsHold DEF Hands, PinOf
<1>3. Undisturbed("tx")' /\ item'["tx"] = item["tx"] => Undisturbed("tx")
  BY <1>1 DEF Undisturbed, Turns
<1>4. ASSUME at'["tx"] \notin {"quiet", "send", "reset", "start", "listening", "report"},
             buffer'["tx"].edges = <<>>
      PROVE  TxClocked'
  BY <1>4 DEF TxClocked
<1>5. ASSUME ~Capturing, UNCHANGED buffer,
             at'["tx"] \notin {"quiet", "send", "reset", "start", "listening", "report"}
      PROVE  TxClocked'
  BY <1>4, <1>5 DEF Clocked
<1>6. CASE TxTake \/ Reserve \/ RmtSetup \/ RmtReport \/ TxAck
  BY <1>1, <1>5, <1>6
  DEF TxTake, Reserve, RmtSetup, RmtReport, TxAck, Fails, Goes, Finishes, Capturing, Take
<1>7. CASE Drive
  <2>1. CASE at'["tx"] = "send"
    <3>1. KindOf(item["tx"])' # "exchange" /\ item'["tx"] = item["tx"] /\ UNCHANGED buffer
      BY <1>1, <1>2, <1>7, <2>1 DEF Drive, Goes, Fails, Finishes
    <3>2. ~Capturing' /\ ~Capturing
      BY <1>7, <3>1 DEF Drive, Capturing
    <3> QED BY <2>1, <3>1, <3>2 DEF TxClocked, Clocked
  <2>2. CASE at'["tx"] # "send"
    BY <1>1, <1>5, <1>7, <2>2 DEF Drive, Goes, Fails, Finishes, Capturing
  <2> QED BY <2>1, <2>2
<1>8. CASE Arm
  <2>1. CASE at'["tx"] = "quiet"
    <3>1. KindOf(item["tx"])' = "exchange"
      BY <1>1, <1>2, <1>8, <2>1 DEF Arm, Goes, Fails, Finishes, Hands
    <3>2. Capturing'
      BY <2>1, <3>1 DEF Capturing
    <3> QED BY <2>1, <3>2 DEF TxClocked
  <2>2. CASE at'["tx"] # "quiet"
    BY <1>1, <1>5, <1>8, <2>2 DEF Arm, Goes, Fails, Finishes, Capturing
  <2> QED BY <2>1, <2>2
<1>9. CASE Quiet
  <2>1. /\ at'["tx"] = "send" /\ item'["tx"] = item["tx"] /\ KindOf(item["tx"])' = "exchange"
        /\ ~enabled'[PinOf(item["tx"])] /\ PinOf(item["tx"])' = PinOf(item["tx"])
    BY <1>1, <1>2, <1>9 DEF Quiet, Goes, Hands
  <2> QED BY <2>1 DEF TxClocked, Capturing
<1>10. CASE Send
  <2>1. CASE Goes("tx", "reset") /\ ~Fails
    <3>1. /\ at["tx"] = "send" /\ at'["tx"] = "reset" /\ item'["tx"] = item["tx"]
          /\ KindOf(item["tx"])' = KindOf(item["tx"]) /\ KindOf(item["tx"]) = "exchange"
          /\ PinOf(item["tx"])' = PinOf(item["tx"]) /\ UNCHANGED enabled
      BY <1>1, <1>2, <1>10, <2>1 DEF Send, Goes
    <3> QED BY <1>3, <3>1 DEF TxClocked, Clocked, Capturing
  <2>2. CASE Goes("tx", "ack") /\ ~Fails
    BY <1>1, <1>5, <1>10, <2>2 DEF Send, Goes, Capturing
  <2>3. CASE Fails
    <3>1. at'["tx"] = "idle"
      BY <1>1, <2>3 DEF Fails, Finishes
    <3>2. CASE KindOf(item["tx"]) = "exchange"
      <4>1. buffer'["tx"].edges = <<>>
        BY <1>1, <1>10, <2>3, <3>1, <3>2 DEF Send, Goes, Free, NoBuffer
      <4> QED BY <1>4, <3>1, <4>1
    <3>3. CASE KindOf(item["tx"]) # "exchange"
      BY <1>1, <1>5, <1>10, <2>3, <3>1, <3>3 DEF Send, Goes, Capturing
    <3> QED BY <3>2, <3>3
  <2> QED BY <1>10, <2>1, <2>2, <2>3 DEF Send
<1>11. CASE ResetCount
  <2>1. /\ at["tx"] = "reset" /\ at'["tx"] = "start" /\ item'["tx"] = item["tx"]
        /\ KindOf(item["tx"]) = "exchange" /\ PinOf(item["tx"])' = PinOf(item["tx"])
        /\ UNCHANGED enabled
    BY <1>1, <1>2, <1>11 DEF ResetCount, Goes, Hands
  <2>2. buffer'["tx"].edges = <<>>
    BY <1>1, <1>11 DEF ResetCount, Buffer
  <2> QED BY <1>3, <2>1, <2>2 DEF TxClocked, Clocked, Capturing
<1>12. CASE Start
  <2>1. /\ at["tx"] = "start" /\ at'["tx"] = "listening" /\ item'["tx"] = item["tx"]
        /\ KindOf(item["tx"])' = "exchange" /\ begun'["tx"] = now /\ now' = now
    BY <1>1, <1>2, <1>12 DEF Start, Goes, Hands
  <2>2. buffer'["tx"].last = now /\ buffer'["tx"].edges = buffer["tx"].edges
    BY <1>1, <1>12 DEF Start, Buffer
  <2>3. Undisturbed("tx")' => Told("tx")'
    <3> SUFFICES ASSUME Undisturbed("tx") PROVE Told("tx")'
      BY <1>3, <2>1
    <3>1. buffer'["tx"].edges = <<>>
      BY <2>1, <2>2 DEF Clocked
    <3>2. Sum(<<>>) = 0
      BY SumOfEdges
    <3> QED BY <1>1, <2>1, <2>2, <3>1, <3>2 DEF Told
  <2> QED BY <2>1, <2>3 DEF TxClocked, Capturing
<1>13. CASE Stop
  <2>1. /\ at["tx"] = "listening" /\ at'["tx"] = "report" /\ item'["tx"] = item["tx"]
        /\ KindOf(item["tx"])' = "exchange" /\ UNCHANGED <<buffer, begun, now>>
    BY <1>1, <1>2, <1>13 DEF Stop, Goes, Hands
  <2>2. Told("tx") => Told("tx")'
    BY <2>1 DEF Told
  <2> QED BY <1>3, <2>1, <2>2 DEF TxClocked, Clocked, Capturing
<1>14. CASE Report
  <2>1. at'["tx"] = "ack" /\ buffer'["tx"].edges = <<>>
    BY <1>1, <1>14 DEF Report, Goes, Free, NoBuffer
  <2> QED BY <1>4, <2>1
<1> QED BY <1>6, <1>7, <1>8, <1>9, <1>10, <1>11, <1>12, <1>13, <1>14 DEF TxTask

LEMMA RxClocked ==
    ASSUME TypeOK, TypeOK', Hands, Listening, Clocked, [Next]_vars
    PROVE  at'["rx"] # "idle" => Told("rx")'
<1> USE DEF pins, rmt, tasks, capture, history
<1>1. /\ "rx" \in Task /\ now' >= now /\ buffer \in [Task -> Buffer] /\ now \in Nat
      /\ at \in [Task -> TxStep \union RxStep] /\ begun \in [Task -> Nat]
  BY ListeningStep DEF Task, TypeOK, TasksOK, PinsOK
<1>2. ASSUME buffer'["rx"] = buffer["rx"], begun'["rx"] = begun["rx"],
             at["rx"] = "idle" => at'["rx"] = "idle"
      PROVE  at'["rx"] # "idle" => Told("rx")'
  BY <1>1, <1>2, ToldStays DEF Clocked
<1>3. CASE TxTask
  <2>1. buffer'["rx"] = buffer["rx"]
    BY <1>3
    DEF TxTask, TxTake, Reserve, Drive, Arm, Quiet, Send, ResetCount, Start, Stop, Report,
        RmtSetup, RmtReport, TxAck, Free, TypeOK, TasksOK, Task
  <2> QED BY <1>2, <1>3, <2>1, Apart
<1>4. CASE RxTake
  <2>1. CASE UNCHANGED <<tasks, buffer, begun>>
    BY <1>2, <2>1
  <2>2. CASE /\ buffer' = [buffer EXCEPT !["rx"] = [live |-> TRUE, edges |-> <<>>, last |-> now]]
             /\ begun' = [begun EXCEPT !["rx"] = now]
    <3>1. /\ buffer'["rx"].last = now /\ buffer'["rx"].edges = <<>> /\ begun'["rx"] = now
          /\ now' = now
      BY <1>1, <1>4, <2>2 DEF RxTake
    <3>2. Sum(<<>>) = 0
      BY SumOfEdges
    <3> QED BY <1>1, <3>1, <3>2 DEF Told
  <2> QED BY <1>4, <2>1, <2>2 DEF RxTake
<1>5. CASE RxEnable \/ RxHook \/ RxReport \/ RxUnhook
  BY <1>1, <1>2, <1>5 DEF RxEnable, RxHook, RxReport, RxUnhook
<1>6. CASE RxAck
  BY <1>1, <1>6 DEF RxAck, Finishes
<1>7. ASSUME NEW p \in Pin, Edge(p) PROVE at'["rx"] # "idle" => Told("rx")'
  <2>1. UNCHANGED at
    BY <1>7 DEF Edge
  <2> QED BY <1>1, <1>7, <2>1, EdgeTold DEF Clocked
<1>8. CASE Dispatcher \/ Tick \/ UNCHANGED vars
  <2>1. UNCHANGED <<buffer, begun, at>>
    BY <1>8 DEF Dispatcher, Refuse, Accept, Enqueue, Configure, ApplyConfig, AddEdgeHandler, Unbind,
                RemoveEdgeHandler, ResetPin, Tick, vars
  <2> QED BY <1>2, <2>1
<1> QED BY <1>3, <1>4, <1>5, <1>6, <1>7, <1>8 DEF Next, RxTask

LEMMA ClockedStep ==
    TypeOK /\ Hands /\ Buffers /\ Listening /\ Private /\ Clocked /\ [Next]_vars => Clocked'
<1> SUFFICES ASSUME TypeOK, Hands, Buffers, Listening, Private, Clocked, [Next]_vars PROVE Clocked'
  OBVIOUS
<1>1. TypeOK' /\ Hands'
  BY TypeStep, HandsStep
<1>2. TxClocked'
  BY <1>1, TxClockedOthers, TxClockedSelf
<1>3. at'["rx"] # "idle" => Told("rx")'
  BY <1>1, RxClocked
<1> QED BY <1>2, <1>3 DEF Clocked, TxClocked

LEMMA EdgesStep ==
    TypeOK /\ Hands /\ Listening /\ Clocked /\ EdgesOfListening /\ [Next]_vars => EdgesOfListening'
<1> SUFFICES ASSUME TypeOK, Hands, Listening, Clocked, EdgesOfListening, [Next]_vars,
                    NEW c \in Command, heard'[c] # None, c \notin disturbed'
             PROVE  Sum(heard'[c].edges) <= heard'[c].time
  BY DEF EdgesOfListening
<1> USE DEF pins, rmt, tasks, capture, history
<1>1. c \notin disturbed /\ "tx" \in Task /\ "rx" \in Task
  BY TurnsStep DEF Turns, Task
<1>2. CASE heard'[c] = heard[c]
  BY <1>1, <1>2 DEF EdgesOfListening
<1>3. ASSUME NEW t \in Task, at[t] # "idle", SendCapture(t), heard'[c] # heard[c],
             Undisturbed(t) => Told(t) \/ buffer[t].edges = <<>>
      PROVE  Sum(heard'[c].edges) <= heard'[c].time
  <2>1. /\ heard' = [heard EXCEPT ![item[t]] = [time |-> now - begun[t], edges |-> buffer[t].edges]]
        /\ heard \in [Command -> Capture \union {None}] /\ item[t] # None
    BY <1>3 DEF SendCapture, TypeOK, CommandsOK, Hands
  <2>2. c = item[t]
    BY <1>3, <2>1
  <2>3. heard'[c] = [time |-> now - begun[t], edges |-> buffer[t].edges]
    BY <2>1, <2>2
  <2>4. heard'[c].time = now - begun[t] /\ heard'[c].edges = buffer[t].edges
    BY <2>3
  <2>5. now \in Nat /\ begun[t] \in Nat /\ buffer[t].last \in Nat /\ buffer[t].edges \in Seq(Int)
    BY DEF TypeOK, PinsOK, TasksOK, Buffer
  <2>6. begun[t] <= now /\ Sum(buffer[t].edges) \in Int /\ Sum(<<>>) = 0
    BY <2>5, SumOfEdges DEF Listening, Heeds
  <2>7. Told(t) \/ buffer[t].edges = <<>>
    BY <1>1, <1>3, <2>1, <2>2 DEF Undisturbed
  <2>8. Sum(buffer[t].edges) <= now - begun[t]
    BY <2>5, <2>6, <2>7 DEF Told
  <2> QED BY <2>4, <2>8 DEF Sum
<1>4. CASE heard'[c] # heard[c] /\ Report
  BY <1>1, <1>3, <1>4 DEF Report, Clocked
<1>5. CASE heard'[c] # heard[c] /\ RmtReport
  <2>1. buffer["tx"].edges = <<>>
    BY <1>5 DEF RmtReport, Clocked, Capturing
  <2> QED BY <1>1, <1>3, <1>5, <2>1 DEF RmtReport
<1>6. CASE heard'[c] # heard[c] /\ RxReport
  BY <1>1, <1>3, <1>6 DEF RxReport, Clocked
<1>7. Report \/ RmtReport \/ RxReport \/ UNCHANGED heard
  BY DEF Next, Dispatcher, Refuse, Accept, Enqueue, Configure, ApplyConfig, AddEdgeHandler, Unbind,
         RemoveEdgeHandler, ResetPin, TxTask, TxTake, Reserve, Drive, Arm, Quiet, Send, ResetCount,
         Start, Stop, RmtSetup, TxAck, RxTask, RxTake, RxEnable, RxHook, RxUnhook, RxAck,
         Edge, Tick, vars
<1> QED BY <1>2, <1>4, <1>5, <1>6, <1>7

-----------------------------------------------------------------------------
(* Pins configured as INTERRUPT.                                           *)

\* Signal commands stay away from a pin that is in INTERRUPT mode.
LEMMA QuietedStep ==
    ASSUME TypeOK, Hands, Stays, NEW p \in Pin, Quieted(p), mode[p] = "interrupt"
    PROVE  Quieted(p)'
<1>1. disp'.at = "queue" => PinOf(disp.with)' # p
  BY DEF Stays, Quieted, Hands, Asked, PinOf
<1>2. ASSUME NEW t \in Task, NEW c \in Command,
             c = item'[t] \/ c \in Waiting(t)'
      PROVE  PinOf(c)' # p
  <2>1. \/ c = item[t] /\ item[t] # None
        \/ c \in Waiting(t)
        \/ disp.at = "queue" /\ c = disp.with
    BY <1>2, SignalTasksAssumption DEF Stays
  <2>2. PinOf(c) # p /\ Asked(c)
    BY <2>1 DEF Quieted, Hands
  <2> QED BY <2>2 DEF Stays, Asked, PinOf
<1>3. \A t \in Task : item'[t] \in Command \union {None} /\ Waiting(t)' \subseteq Command
  <2>1. \A t \in Task : Waiting(t) \subseteq Command
    BY WaitingSteps DEF Waiting, TypeOK, CommandsOK
  <2> QED BY <2>1 DEF Stays, TypeOK, TasksOK
<1> QED BY <1>1, <1>2, <1>3 DEF Quieted

\* The tasks touch the pins of their commands only.
LEMMA TasksKeepOff ==
    ASSUME TypeOK, Hands, NEW p \in Pin, Quieted(p), TxTask \/ RxTask
    PROVE  /\ armed'[p] = armed[p] /\ enabled'[p] = enabled[p] /\ handler'[p] = handler[p]
           /\ UNCHANGED <<disp, mode, undisputed>>
<1> USE DEF pins, rmt, tasks, capture, history
<1>1. UNCHANGED <<disp, mode, undisputed>>
  BY DEF TxTask, TxTake, Reserve, Drive, Arm, Quiet, Send, ResetCount, Start, Stop, Report,
         RmtSetup, RmtReport, TxAck, RxTask, RxTake, RxEnable, RxHook, RxReport, RxUnhook, RxAck
<1>2. ASSUME NEW t \in Task, at[t] # "idle" PROVE PinOf(item[t]) # p
  BY <1>2 DEF Quieted, Hands
<1>3. "tx" \in Task /\ "rx" \in Task
  BY DEF Task
<1>4. /\ armed \in [Pin -> BOOLEAN] /\ enabled \in [Pin -> BOOLEAN]
      /\ handler \in [Pin -> {"none", "edge"} \union Task]
  BY DEF TypeOK, PinsOK
<1>5. CASE TxTask
  <2>1. CASE Arm \/ Quiet \/ Send \/ Start \/ Stop
    <3>1. PinOf(item["tx"]) # p
      BY <1>2, <1>3, <2>1 DEF Arm, Quiet, Send, Start, Stop
    <3> QED BY <1>1, <1>4, <2>1, <3>1 DEF Arm, Quiet, Send, Start, Stop, Hook, Unhook
  <2>2. CASE TxTake \/ Reserve \/ Drive \/ ResetCount \/ Report \/ RmtSetup \/ RmtReport \/ TxAck
    BY <1>1, <2>2 DEF TxTake, Reserve, Drive, ResetCount, Report, RmtSetup, RmtReport, TxAck
  <2> QED BY <1>5, <2>1, <2>2 DEF TxTask
<1>6. CASE RxTask
  <2>1. CASE RxEnable \/ RxHook \/ RxUnhook
    <3>1. PinOf(item["rx"]) # p
      BY <1>2, <1>3, <2>1 DEF RxEnable, RxHook, RxUnhook
    <3> QED BY <1>1, <1>4, <2>1, <3>1 DEF RxEnable, RxHook, RxUnhook, Hook, Unhook
  <2>2. CASE RxTake \/ RxReport \/ RxAck
    BY <1>1, <2>2 DEF RxTake, RxReport, RxAck
  <2> QED BY <1>6, <2>1, <2>2 DEF RxTask
<1> QED BY <1>5, <1>6

LEMMA InterruptsStep == TypeOK /\ Hands /\ Interrupts /\ [Next]_vars => Interrupts'
<1> SUFFICES ASSUME TypeOK, Hands, Interrupts, [Next]_vars PROVE Interrupts'
  OBVIOUS
<1> USE DEF pins, rmt, tasks, capture, history
<1> DEFINE Off(p) == mode[p] = "interrupt" /\ undisputed[p]
           Left(p) == /\ ~(disp.at = "config" /\ disp.with = p) => armed[p] /\ enabled[p]
                      /\ ~(disp.at \in {"config", "handler"} /\ disp.with = p)
                            => handler[p] = "edge"
<1>1. Stays
  BY StaysStep
<1>2. /\ mode \in [Pin -> {"none", "signal", "interrupt"}] /\ undisputed \in [Pin -> BOOLEAN]
      /\ armed \in [Pin -> BOOLEAN] /\ enabled \in [Pin -> BOOLEAN]
      /\ handler \in [Pin -> {"none", "edge"} \union Task]
      /\ disp \in [at : {"idle", "queue"} \union PinStep, with : Command \union Pin \union {None}]
      /\ disp.at \in PinStep => disp.with \in Pin
  BY DEF TypeOK, PinsOK, Hands
<1>3. \A p \in Pin : Off(p) => Quieted(p) /\ Left(p)
  BY DEF Interrupts
<1>4. ASSUME UNCHANGED <<mode, undisputed, disp>>,
             NEW p \in Pin, Off(p),
             armed'[p] = armed[p], enabled'[p] = enabled[p], handler'[p] = handler[p]
      PROVE  (Quieted(p) /\ Left(p))'
  BY <1>1, <1>3, <1>4, QuietedStep
<1>5. CASE TxTask \/ RxTask
  <2>1. \A p \in Pin : Off(p) =>
          /\ armed'[p] = armed[p] /\ enabled'[p] = enabled[p] /\ handler'[p] = handler[p]
          /\ UNCHANGED <<disp, mode, undisputed>>
    BY <1>3, <1>5, TasksKeepOff
  <2>2. UNCHANGED <<disp, mode, undisputed>>
    BY <1>5
    DEF TxTask, TxTake, Reserve, Drive, Arm, Quiet, Send, ResetCount, Start, Stop, Report,
        RmtSetup, RmtReport, TxAck, RxTask, RxTake, RxEnable, RxHook, RxReport, RxUnhook, RxAck
  <2> QED BY <1>4, <2>1, <2>2 DEF Interrupts
<1>6. CASE Tick \/ (\E p \in Pin : Edge(p)) \/ UNCHANGED vars
  <2>1. UNCHANGED <<disp, mode, undisputed, armed, enabled, handler>>
    BY <1>6 DEF Tick, Edge, vars
  <2> QED BY <1>4, <2>1 DEF Interrupts
<1>7. ASSUME NEW c \in Command, Refuse(c) \/ Accept(c) PROVE Interrupts'
  <2>1. /\ UNCHANGED <<mode, undisputed, armed, enabled, handler>> /\ disp = Idle
        /\ disp'.at \in {"idle", "queue"}
    BY <1>7 DEF Refuse, Accept, Idle
  <2>2. \A p \in Pin : Off(p) => Quieted(p)' /\ Left(p)'
    BY <1>1, <1>3, <2>1, QuietedStep DEF Idle
  <2> QED BY <2>1, <2>2 DEF Interrupts
<1>8. CASE Enqueue
  <2>1. /\ UNCHANGED <<mode, undisputed, armed, enabled, handler>> /\ disp.at = "queue"
        /\ disp' = Idle
    BY <1>8 DEF Enqueue
  <2>2. \A p \in Pin : Off(p) => Quieted(p)' /\ Left(p)'
    BY <1>1, <1>3, <2>1, QuietedStep DEF Idle
  <2> QED BY <2>1, <2>2 DEF Interrupts, Idle
<1>9. ASSUME NEW q \in Pin, NEW m \in {"signal", "interrupt"}, Configure(q, m) PROVE Interrupts'
  <2>1. /\ UNCHANGED <<armed, enabled, handler, item, queue, request>> /\ disp = Idle
        /\ disp' = [at |-> "config", with |-> q] /\ mode' = [mode EXCEPT ![q] = m]
        /\ \A p \in Pin \ {q} : undisputed'[p] = undisputed[p]
        /\ undisputed'[q] => UnderWay(q) = {}
    BY <1>2, <1>9 DEF Configure
  <2>2. ASSUME NEW p \in Pin \ {q}, Off(p)' PROVE Quieted(p)' /\ Left(p)'
    <3>1. Off(p)
      BY <1>2, <2>1, <2>2
    <3> QED BY <1>1, <1>3, <2>1, <3>1, QuietedStep DEF Idle
  <2>3. ASSUME UnderWay(q) = {} PROVE Quieted(q)' /\ Left(q)'
    <3>1. \A t \in Task : /\ item[t] # None => item[t] \in InHand
                          /\ Waiting(t) \subseteq Waiting("tx") \union Waiting("rx")
      BY DEF InHand, Task
    <3>2. \A t \in Task : /\ item[t] # None => PinOf(item[t]) # q
                          /\ \A c \in Waiting(t) : PinOf(c) # q
      BY <2>3, <3>1 DEF UnderWay
    <3>3. Quieted(q)'
      BY <2>1, <3>2 DEF Quieted, Waiting, PinOf
    <3> QED BY <2>1, <3>3
  <2> QED BY <2>1, <2>2, <2>3 DEF Interrupts
<1>10. ASSUME NEW q \in Pin, Unbind(q) PROVE Interrupts'
  <2>1. /\ UNCHANGED <<armed, enabled, handler, undisputed>> /\ disp = Idle
        /\ disp'.with = q /\ disp'.at \in {"remove", "reset"} /\ mode' = [mode EXCEPT ![q] = "none"]
    BY <1>10 DEF Unbind
  <2>2. ASSUME NEW p \in Pin, Off(p)' PROVE Quieted(p)' /\ Left(p)'
    <3>1. Off(p) /\ p # q
      BY <1>2, <2>1, <2>2
    <3> QED BY <1>1, <1>3, <2>1, <3>1, QuietedStep DEF Idle
  <2>3. mode'[q] = "none"
    BY <1>2, <2>1
  <2> QED BY <2>1, <2>2, <2>3 DEF Interrupts
<1>11. CASE ApplyConfig
  <2> DEFINE q == disp.with
  <2>1. /\ q \in Pin /\ UNCHANGED <<mode, undisputed, handler>> /\ disp.at = "config"
        /\ \A p \in Pin \ {q} : armed'[p] = armed[p] /\ enabled'[p] = enabled[p]
        /\ mode[q] = "interrupt" => /\ armed'[q] /\ enabled'[q]
                                    /\ disp'.at = "handler" /\ disp'.with = q
        /\ disp'.at \in {"handler", "idle"} /\ (disp'.at = "handler" => disp'.with = q)
    BY <1>2, <1>11 DEF ApplyConfig, Idle, PinStep
  <2>2. ASSUME NEW p \in Pin, Off(p) PROVE Quieted(p)' /\ Left(p)'
    <3>1. Quieted(p)' /\ Left(p)
      BY <1>1, <1>3, <2>2, QuietedStep
    <3>2. CASE p = q
      BY <2>1, <2>2, <3>1, <3>2
    <3>3. CASE p # q
      BY <2>1, <2>2, <3>1, <3>3
    <3> QED BY <3>2, <3>3
  <2> QED BY <2>1, <2>2 DEF Interrupts
<1>12. CASE AddEdgeHandler
  <2> DEFINE q == disp.with
  <2>1. /\ q \in Pin /\ UNCHANGED <<mode, undisputed, armed>> /\ disp.at = "handler" /\ disp' = Idle
        /\ \A p \in Pin \ {q} : handler'[p] = handler[p] /\ enabled'[p] = enabled[p]
        /\ handler'[q] = "edge" /\ enabled'[q]
    BY <1>2, <1>12 DEF AddEdgeHandler, PinStep
  <2>2. ASSUME NEW p \in Pin, Off(p) PROVE Quieted(p)' /\ Left(p)'
    <3>1. Quieted(p)' /\ Left(p)
      BY <1>1, <1>3, <2>2, QuietedStep
    <3> QED BY <2>1, <3>1 DEF Idle
  <2> QED BY <2>1, <2>2 DEF Interrupts, Idle
<1>13. CASE RemoveEdgeHandler \/ ResetPin
  <2> DEFINE q == disp.with
  <2>1. /\ q \in Pin /\ UNCHANGED <<mode, undisputed>> /\ mode[q] = "none"
        /\ disp.at \in {"remove", "reset"}
        /\ \A p \in Pin \ {q} : /\ handler'[p] = handler[p] /\ enabled'[p] = enabled[p]
                                /\ armed'[p] = armed[p]
        /\ disp' # Idle => disp'.at = "reset" /\ disp'.with = q
    BY <1>2, <1>13 DEF RemoveEdgeHandler, ResetPin, PinStep, Interrupts
  <2>2. ASSUME NEW p \in Pin, Off(p) PROVE Quieted(p)' /\ Left(p)'
    <3>1. Quieted(p)' /\ Left(p) /\ p # q
      BY <1>1, <1>3, <2>1, <2>2, QuietedStep
    <3> QED BY <2>1, <3>1 DEF Idle
  <2> QED BY <2>1, <2>2 DEF Interrupts, Idle
<1> QED BY <1>5, <1>6, <1>7, <1>8, <1>9, <1>10, <1>11, <1>12, <1>13 DEF Next, Dispatcher

-----------------------------------------------------------------------------
(* Theorems.                                                               *)

LEMMA Begins == Init => IInv
<1> SUFFICES ASSUME Init PROVE IInv
  OBVIOUS
<1> USE SignalTasksAssumption DEF Init, Task
<1>1. PinsOK
  <2>1. handler \in [Pin -> {"none", "edge"} \union Task]
    OBVIOUS
  <2>2. undisputed \in [Pin -> BOOLEAN]
    BY Zenon
  <2>3. /\ mode \in [Pin -> {"none", "signal", "interrupt"}]
        /\ now \in Nat /\ configs \in 0..MaxConfigs
        /\ disp \in [at : {"idle", "queue"} \union PinStep, with : Command \union Pin \union {None}]
    BY DEF Idle
  <2> QED BY <2>1, <2>2, <2>3 DEF PinsOK
<1>2. CommandsOK
  <2>1. <<>> \in Seq(Command) /\ <<>> \in Seq({"error", "captured", "ack"})
    OBVIOUS
  <2> QED BY <2>1 DEF CommandsOK
<1>3. TasksOK
  <2>1. NoBuffer \in Buffer
    BY DEF NoBuffer, Buffer
  <2>2. channel \in [tx : {-1, 0, 1}, rx : {-1, 2, 3}]
    BY DEF NoChannel
  <2> QED BY <2>1, <2>2 DEF TasksOK, TxStep, RxStep
<1>4. \A t \in Task : Waiting(t) = {}
  BY DEF Waiting, Range
<1>5. Hands
  BY <1>4 DEF Hands, Idle, PinStep
<1>6. Buffers /\ Channels
  BY DEF Buffers, Holding, Hooking, Channels, NoChannel
<1>7. Listening
  <2>1. Len(<<>>) = 0 /\ \A t \in Task : buffer[t].edges = <<>> /\ begun[t] = 0 /\ at[t] = "idle"
    BY DEF NoBuffer
  <2> QED BY <1>1, <2>1 DEF Listening, Heeds, PinsOK
<1>8. Interrupts
  BY <1>4 DEF Interrupts, Quieted, Idle
<1>9. ListensLongEnough /\ EdgesOfListening
  BY DEF ListensLongEnough, EdgesOfListening
<1>10. Private /\ Clocked
  BY DEF Private, Undisturbed, Clocked, Capturing, NoBuffer
<1> QED BY <1>1, <1>2, <1>3, <1>5, <1>6, <1>7, <1>8, <1>9, <1>10 DEF IInv, TypeOK

\* Every variable stays in its range, and what the tasks, the dispatcher and the
\* interrupt handlers hold of pins, buffers and channels is as IInv says.
THEOREM Invariance == Spec => []IInv
<1>1. IInv /\ [Next]_vars => IInv'
  BY TypeStep, HandsStep, BuffersStep, ChannelsStep, ListeningStep, InterruptsStep, ListensStep,
     PrivateStep, ClockedStep, EdgesStep
  DEF IInv
<1> QED BY <1>1, Begins, PTL DEF Spec

\* Every variable of SignalTasks stays in its range.
THEOREM TypeCorrect == Spec => []TypeOK
<1>1. IInv => TypeOK
  BY DEF IInv
<1> QED BY <1>1, Invariance, PTL

\* Whatever fails, the RMT channels of a command are returned
\* (gpio_signal_task.c:212-230, 445-452, 529-574).
THEOREM ChannelsReturnedHolds == Spec => []ChannelsReturned
<1>1. IInv => ChannelsReturned
  BY DEF IInv, Channels, ChannelsReturned, NoChannel
<1> QED BY <1>1, Invariance, PTL

\* No interrupt handler writes into a buffer that was freed, whoever replaces or
\* removes the handler of a pin meanwhile (gpio_signal_task.c:34-50, 600-615).
THEOREM HandlerHasBufferHolds == Spec => []HandlerHasBuffer
<1>1. IInv => HandlerHasBuffer
  <2> SUFFICES ASSUME IInv, NEW p \in Pin, NEW t \in Task, handler[p] = t
               PROVE  buffer[t].live /\ item[t] # None /\ PinOf(item[t]) = p
    BY DEF HandlerHasBuffer
  <2>1. Hooking(t) /\ PinOf(item[t]) = p
    BY DEF IInv, Buffers
  <2>2. CASE t = "tx"
    BY <2>1, <2>2 DEF IInv, Buffers, Holding, Hooking, Hands
  <2>3. CASE t = "rx"
    BY <2>1, <2>3 DEF IInv, Buffers, Holding, Hooking, Hands
  <2> QED BY <2>2, <2>3 DEF Task
<1> QED BY <1>1, Invariance, PTL

\* A capture listens for the time it was asked to, unless its buffer is full or
\* its end does not fit in 32 bits (gpio_signal_task.c:423-428, 518-529).
THEOREM ListensLongEnoughHolds == Spec => []ListensLongEnough
<1>1. IInv => ListensLongEnough
  BY DEF IInv
<1> QED BY <1>1, Invariance, PTL

\* The durations of the edges that a capture sends add up to no more than the
\* time it listened, when nothing else used its pin meanwhile, wherever edges
\* strike between the adding of its handler and the end of its transmission
\* (gpio_signal_task.c:308-323, 417-421).
THEOREM EdgesOfListeningHolds == Spec => []EdgesOfListening
<1>1. IInv => EdgesOfListening
  BY DEF IInv
<1> QED BY <1>1, Invariance, PTL

\* A pin configured as INTERRUPT while no signal command was under way on it
\* keeps its edge handler (command_dispatcher.c:518, 606, 655).
THEOREM InterruptPinReportsHolds == Spec => []InterruptPinReports
<1>1. IInv => InterruptPinReports
  BY DEF IInv, Interrupts, InterruptPinReports
<1> QED BY <1>1, Invariance, PTL
=============================================================================
