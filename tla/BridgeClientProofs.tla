------------------------- MODULE BridgeClientProofs -------------------------
(* What BridgeClient guarantees for every number of callers, pins, ids and *)
(* calls.                                                                  *)
EXTENDS BridgeClient, SequenceTheorems, TLAPS

-----------------------------------------------------------------------------
(* Operators the model is built from.                                      *)

(* Popping entry k of a table of S leaves a table of S. *)
LEMMA RemoveAtType ==
  ASSUME NEW S, NEW s \in Seq(S), NEW k \in DOMAIN s
  PROVE  RemoveAt(s, k) \in Seq(S)
<1>1. SubSeq(s, 1, k - 1) \in Seq(S) /\ SubSeq(s, k + 1, Len(s)) \in Seq(S)
  OBVIOUS
<1> QED BY <1>1, ConcatProperties DEF RemoveAt

(* The id after an id is an id. *)
LEMMA NextIdInRange == ASSUME NEW n \in CmdId PROVE NextId(n) \in CmdId
  BY BridgeClientAssumption DEF NextId, CmdId

(* What a poll or a deadline leaves of a call: the same command, the       *)
(* result, and a phase that goes on or reports.                            *)
LEMMA ConcludeEffect ==
  ASSUME NEW c \in Caller, NEW r \in Event \cup {NoEvent}, TypeOK, Conclude(c, r)
  PROVE  /\ call' \in [Caller -> Call]
         /\ \A d \in Caller : d # c => call'[d] = call[d]
         /\ \E p \in {"retry", "report"} :
              call'[c] = [call[c] EXCEPT !.pc = p, !.result = r]
         /\ last_error' \in ErrCode \cup {NoError}
<1>1. \E p \in {"retry", "report"} :
        call' = [call EXCEPT ![c] = [call[c] EXCEPT !.pc = p, !.result = r]]
  BY DEF Conclude, TypeOK, Call
<1>2. PICK p \in {"retry", "report"} :
        call' = [call EXCEPT ![c] = [call[c] EXCEPT !.pc = p, !.result = r]]
  BY <1>1
<1>3. [call[c] EXCEPT !.pc = p, !.result = r] \in Call
  BY DEF TypeOK, Call, Pc
<1>4. last_error' \in ErrCode \cup {NoError}
  BY DEF Conclude, TypeOK, Event
<1> QED BY <1>2, <1>3, <1>4 DEF TypeOK

-----------------------------------------------------------------------------
(* Type correctness.                                                       *)

(* Drawing an id makes a call with an id, and leaves an id to draw next. *)
LEMMA DrawType ==
  ASSUME NEW c \in Caller, NEW op \in AllOps, NEW stage \in Stage, NEW g \in Gpio,
         TypeOK, Draw(c, op, stage, g)
  PROVE  call' \in [Caller -> Call] /\ next_cmd_id' \in CmdId /\ issued' \in Nat
  BY NextIdInRange DEF TypeOK, Draw, Call, Pc

(* A call that moves to another phase, or gets its reason, is still the    *)
(* same call.                                                              *)
LEMMA PhaseType ==
  ASSUME TypeOK, NEW c \in Caller, NEW p \in Pc, NEW code \in ErrCode \cup {NoError}, NEW f,
         \/ f = [call EXCEPT ![c].pc = p]
         \/ f = [call EXCEPT ![c].pc = p, ![c].code = code]
  PROVE  /\ f \in [Caller -> Call]
         /\ \A d \in Caller : /\ f[d].op = call[d].op
                              /\ f[d].id = call[d].id
                              /\ f[d].serial = call[d].serial
                              /\ f[d].result = call[d].result
<1>1. call \in [Caller -> Call] /\ call[c] \in Call
  BY DEF TypeOK
<1> DEFINE r1 == [call[c] EXCEPT !.pc = p]
           r2 == [call[c] EXCEPT !.pc = p, !.code = code]
<1>2. ASSUME NEW r \in {r1, r2}
      PROVE  /\ r \in Call /\ r.op = call[c].op /\ r.id = call[c].id
             /\ r.serial = call[c].serial /\ r.result = call[c].result
  BY <1>1 DEF Call
<1>3. f = [call EXCEPT ![c] = r1] \/ f = [call EXCEPT ![c] = r2]
  BY <1>1
<1> HIDE DEF r1, r2
<1>4. PICK r \in {r1, r2} : f = [call EXCEPT ![c] = r]
  BY <1>3
<1> QED BY <1>1, <1>2, <1>4

(* Two events at the end of a channel. *)
LEMMA AppendTwo ==
  ASSUME NEW S, NEW s \in Seq(S), NEW a \in S, NEW b \in S
  PROVE  s \o <<a, b>> \in Seq(S)
<1>1. <<a, b>> \in Seq(S)
  OBVIOUS
<1> QED BY <1>1, ConcatProperties

(* An answer of the device is an event. *)
LEMMA AnswerType ==
  ASSUME NEW cmd \in Command, NEW op \in Opcode, NEW code \in ErrCode \cup {NoError}
  PROVE  Answer(cmd, op, code) \in Event
  BY DEF Answer, Event, Command

(* Every variable keeps its type, through every step of threads, device    *)
(* and link.                                                               *)
THEOREM TypeCorrect == Spec => []TypeOK
<1>1. Init => TypeOK
  BY BridgeClientAssumption
  DEF Init, TypeOK, NoCall, Call, Pc, AllOps, Stage, CmdId, Event
<1>2. TypeOK /\ [Next]_vars => TypeOK'
  <2> SUFFICES ASSUME TypeOK, [Next]_vars PROVE TypeOK'
    OBVIOUS
  <2> USE DEF vars, hostVars, tableVars, deviceVars, linkVars
  <2>1. ASSUME NEW c \in Caller, NEW op \in Ops, NEW g \in Gpio, Begin(c, op, g)
        PROVE  TypeOK'
    <3>1. op \in AllOps
      BY BridgeClientAssumption
    <3>2. /\ call' \in [Caller -> Call] /\ next_cmd_id' \in CmdId /\ issued' \in Nat
      BY <2>1, <3>1, DrawType DEF Begin, Stage
    <3> QED BY <2>1, <3>2, BridgeClientAssumption DEF Begin, TypeOK
  <2>2. ASSUME NEW c \in Caller, Send(c) PROVE TypeOK'
    <3>1. KindOf(call[c]) \in CmdKind
      BY DEF TypeOK, KindOf, Call, CmdKind, AllOps, Stage
    <3>2. toDevice' \in Seq(Command)
      BY <2>2, <3>1 DEF Send, TypeOK, Call, Command
    <3>3. call' \in [Caller -> Call]
      <4>1. last_error \in ErrCode \cup {NoError}
        BY DEF TypeOK
      <4> QED BY <2>2, <4>1, PhaseType DEF Send, Pc
    <3> QED BY <2>2, <3>2, <3>3 DEF Send, TypeOK
  <2>3. ASSUME NEW c \in Caller, SendRefused(c) PROVE TypeOK'
    <3>0. last_error \in ErrCode \cup {NoError}
      BY DEF TypeOK
    <3>1. call' \in [Caller -> Call]
      <4>1. \E p \in Pc : call' = [call EXCEPT ![c].pc = p]
        BY <2>3 DEF SendRefused, Pc
      <4> QED BY <3>0, <4>1, PhaseType
    <3> QED BY <2>3, <3>1 DEF SendRefused, TypeOK
  <2>4. ASSUME NEW c \in Caller, TakeResponse(c) PROVE TypeOK'
    <3> DEFINE i == call[c].id
    <3>1. PICK k \in DOMAIN pending_responses[i] :
            /\ Conclude(c, pending_responses[i][k])
            /\ pending_responses' = [pending_responses EXCEPT ![i] = RemoveAt(@, k)]
      BY <2>4 DEF TakeResponse
    <3>2. i \in CmdId /\ pending_responses[i] \in Seq(Event)
      BY DEF TypeOK, Call
    <3>3. pending_responses[i][k] \in Event
      BY <3>2, ElementOfSeq, LenProperties
    <3>4. pending_responses' \in [CmdId -> Seq(Event)]
      BY <3>1, <3>2, RemoveAtType DEF TypeOK
    <3>5. call' \in [Caller -> Call] /\ last_error' \in ErrCode \cup {NoError}
      BY <3>1, <3>3, ConcludeEffect
    <3> QED BY <2>4, <3>4, <3>5 DEF TakeResponse, TypeOK
  <2>5. ASSUME NEW c \in Caller, TakeEvent(c) PROVE TypeOK'
    <3> DEFINE o == OpcodePolled(call[c].op)
    <3>1. PICK k \in DOMAIN pending_events[o] :
            /\ Conclude(c, pending_events[o][k])
            /\ pending_events' = [pending_events EXCEPT ![o] = RemoveAt(@, k)]
      BY <2>5 DEF TakeEvent
    <3>2. o \in Polled /\ pending_events[o] \in Seq(Event)
      BY DEF TypeOK, OpcodePolled, Polled
    <3>3. pending_events[o][k] \in Event
      BY <3>2, ElementOfSeq, LenProperties
    <3>4. pending_events' \in [Polled -> Seq(Event)]
      BY <3>1, <3>2, RemoveAtType DEF TypeOK
    <3>5. call' \in [Caller -> Call] /\ last_error' \in ErrCode \cup {NoError}
      BY <3>1, <3>3, ConcludeEffect
    <3> QED BY <2>5, <3>4, <3>5 DEF TakeEvent, TypeOK
  <2>6. ASSUME NEW c \in Caller, Timeout(c) PROVE TypeOK'
    <3>1. call' \in [Caller -> Call] /\ last_error' \in ErrCode \cup {NoError}
      BY <2>6, ConcludeEffect DEF Timeout
    <3> QED BY <2>6, <3>1 DEF Timeout, TypeOK
  <2>7. ASSUME NEW c \in Caller, Retry(c) PROVE TypeOK'
    <3>1. call[c].op \in AllOps /\ call[c].gpio \in Gpio
      BY DEF TypeOK, Call
    <3>2. /\ call' \in [Caller -> Call] /\ next_cmd_id' \in CmdId /\ issued' \in Nat
      BY <2>7, <3>1, DrawType DEF Retry, Stage
    <3> QED BY <2>7, <3>2 DEF Retry, TypeOK
  <2>8. ASSUME NEW c \in Caller, Report(c) PROVE TypeOK'
    <3>0. last_error \in ErrCode \cup {NoError}
      BY DEF TypeOK
    <3>1. call' \in [Caller -> Call]
      <4>1. \E code \in ErrCode \cup {NoError} :
              call' = [call EXCEPT ![c].pc = "idle", ![c].code = code]
        BY <2>8, <3>0 DEF Report
      <4> QED BY <4>1, PhaseType DEF Pc
    <3> QED BY <2>8, <3>1 DEF Report, TypeOK
  <2>9. ASSUME FileByOpcode PROVE TypeOK'
    <3>1. Head(toHost) \in Event /\ Tail(toHost) \in Seq(Event)
      BY <2>9, HeadTailProperties DEF FileByOpcode, TypeOK
    <3>2. pending_events' \in [Polled -> Seq(Event)]
      BY <2>9, <3>1 DEF FileByOpcode, TypeOK
    <3> QED BY <2>9, <3>1, <3>2 DEF FileByOpcode, TypeOK
  <2>10. ASSUME FileById PROVE TypeOK'
    <3>1. handling \in Event
      BY <2>10 DEF FileById, TypeOK
    <3>2. handling.id # NoId => handling.id \in CmdId
      BY <3>1 DEF Event
    <3>3. pending_responses' \in [CmdId -> Seq(Event)]
      BY <2>10, <3>1, <3>2 DEF FileById, TypeOK
    <3> QED BY <2>10, <3>3 DEF FileById, TypeOK
  <2>11. ASSUME NEW c \in Caller, ClearPending(c) PROVE TypeOK'
    BY <2>11 DEF ClearPending, TypeOK
  <2>12. ASSUME Dispatch PROVE TypeOK'
    <3> DEFINE cmd == Head(toDevice)
    <3>1. cmd \in Command /\ Tail(toDevice) \in Seq(Command)
      BY <2>12, HeadTailProperties DEF Dispatch, TypeOK
    <3>2. cmd.serial \in Nat /\ cmd.gpio \in Gpio
      BY <3>1 DEF Command
    <3> HIDE DEF cmd
    <3>3. CASE Reject(cmd)
      <4>1. PICK code \in ErrCode : toHost' = Append(toHost, Answer(cmd, "error", code))
        BY <3>3 DEF Reject
      <4>2. Answer(cmd, "error", code) \in Event
        BY <3>1, AnswerType DEF Opcode
      <4> QED BY <2>12, <3>1, <3>3, <4>1, <4>2 DEF Reject, Dispatch, TypeOK
    <3>4. CASE AckCommand(cmd)
      <4>1. Answer(cmd, "ack", NoError) \in Event
        BY <3>1, AnswerType DEF Opcode
      <4> QED BY <2>12, <3>1, <3>2, <3>4, <4>1 DEF AckCommand, Dispatch, TypeOK
    <3>5. CASE ReplyValue(cmd)
      <4>1. /\ Answer(cmd, "value", NoError) \in Event
            /\ Answer(cmd, "heartbeat", NoError) \in Event
            /\ Answer(cmd, "ack", NoError) \in Event
            /\ Answer(cmd, "sync", NoError) \in Event
        BY <3>1, AnswerType DEF Opcode
      <4>2. toHost \in Seq(Event)
        BY DEF TypeOK
      <4>3. toHost \o <<Answer(cmd, "ack", NoError), Answer(cmd, "sync", NoError)>> \in Seq(Event)
        BY <4>1, <4>2, AppendTwo
      <4>4. toHost' \in Seq(Event)
        <5>1. \/ toHost' = Append(toHost, Answer(cmd, "value", NoError))
              \/ toHost' = Append(toHost, Answer(cmd, "heartbeat", NoError))
              \/ toHost' = toHost \o <<Answer(cmd, "ack", NoError), Answer(cmd, "sync", NoError)>>
          BY <3>5 DEF ReplyValue
        <5>2. /\ Append(toHost, Answer(cmd, "value", NoError)) \in Seq(Event)
              /\ Append(toHost, Answer(cmd, "heartbeat", NoError)) \in Seq(Event)
          BY <4>1, <4>2, AppendProperties
        <5> QED BY <4>3, <5>1, <5>2
      <4> QED BY <2>12, <3>1, <3>2, <3>5, <4>4 DEF ReplyValue, Dispatch, TypeOK
    <3>6. CASE StartCapture(cmd)
      BY <2>12, <3>1, <3>6 DEF StartCapture, Dispatch, TypeOK
    <3> QED BY <2>12, <3>3, <3>4, <3>5, <3>6 DEF Dispatch, cmd
  <2>13. ASSUME NEW cmd \in capturing, FinishCapture(cmd) PROVE TypeOK'
    <3>1. cmd \in Command /\ cmd.serial \in Nat
      BY DEF TypeOK, Command
    <3>2. \A op \in Opcode, code \in ErrCode \cup {NoError} : Answer(cmd, op, code) \in Event
      BY <3>1, AnswerType
    <3>3. /\ toHost \in Seq(Event)
          /\ Answer(cmd, "captured", NoError) \in Event
          /\ Answer(cmd, "ack", NoError) \in Event
          /\ \A code \in ErrCode : Append(toHost, Answer(cmd, "error", code)) \in Seq(Event)
      BY <3>2 DEF Opcode, TypeOK
    <3>4. /\ toHost \o <<Answer(cmd, "captured", NoError), Answer(cmd, "ack", NoError)>> \in Seq(Event)
          /\ \A code \in ErrCode :
               toHost \o <<Answer(cmd, "error", code), Answer(cmd, "ack", NoError)>> \in Seq(Event)
      BY <3>2, <3>3, AppendTwo DEF Opcode
    <3>5. toHost' \in Seq(Event)
      <4>1. \/ toHost' = toHost \o <<Answer(cmd, "captured", NoError), Answer(cmd, "ack", NoError)>>
            \/ \E code \in ErrCode : toHost' = Append(toHost, Answer(cmd, "error", code))
            \/ toHost' = Append(toHost, Answer(cmd, "ack", NoError))
            \/ \E code \in ErrCode :
                 toHost' = toHost \o <<Answer(cmd, "error", code), Answer(cmd, "ack", NoError)>>
        BY <2>13 DEF FinishCapture
      <4>2. Append(toHost, Answer(cmd, "ack", NoError)) \in Seq(Event)
        BY <3>3, AppendProperties
      <4> QED BY <3>3, <3>4, <4>1, <4>2
    <3> QED BY <2>13, <3>1, <3>5 DEF FinishCapture, TypeOK
  <2>14. ASSUME LoseCommand PROVE TypeOK'
    BY <2>14, RemoveAtType, BridgeClientAssumption DEF LoseCommand, Fault, TypeOK
  <2>15. ASSUME LoseEvent PROVE TypeOK'
    BY <2>15, RemoveAtType, BridgeClientAssumption DEF LoseEvent, Fault, TypeOK
  <2>16. ASSUME LinkChange PROVE TypeOK'
    BY <2>16, BridgeClientAssumption DEF LinkChange, Fault, TypeOK
  <2>17. ASSUME Unprompted PROVE TypeOK'
    <3>1. faults' \in 0 .. MaxFaults
      BY <2>17, BridgeClientAssumption DEF Unprompted, Fault, TypeOK
    <3>2. toHost' \in Seq(Event)
      <4>1. PICK g \in Gpio :
              toHost' = Append(toHost, [op |-> "heartbeat", id |-> NoId, gpio |-> g,
                                        code |-> NoError, serial |-> 0])
        BY <2>17 DEF Unprompted
      <4>2. [op |-> "heartbeat", id |-> NoId, gpio |-> g, code |-> NoError, serial |-> 0] \in Event
        BY DEF Event, Opcode
      <4>3. toHost \in Seq(Event)
        BY DEF TypeOK
      <4> QED BY <4>1, <4>2, <4>3, AppendProperties
    <3> QED BY <2>17, <3>1, <3>2 DEF Unprompted, TypeOK
  <2>18. ASSUME UNCHANGED vars PROVE TypeOK'
    BY <2>18 DEF TypeOK
  <2> QED
    BY <2>1, <2>2, <2>3, <2>4, <2>5, <2>6, <2>7, <2>8, <2>9, <2>10, <2>11, <2>12, <2>13, <2>14,
       <2>15, <2>16, <2>17, <2>18 DEF Next, CallerStep
<1> QED BY <1>1, <1>2, PTL DEF Spec

-----------------------------------------------------------------------------
(* Answers reach their own callers.                                        *)
(*                                                                         *)
(* The inductive invariant: while the ids have not wrapped, the id of a    *)
(* command, of an event and of a call is its serial; an event that carries *)
(* an id and is no error tells of an executed command; the table of an id  *)
(* holds events of that id only, and so does the result of a call that     *)
(* polled it.                                                              *)

GoodCommand == {cmd \in Command : Unwrapped => cmd.serial = cmd.id}

GoodEvent == {e \in Event : /\ Unwrapped /\ e.id # NoId => e.serial = e.id
                            /\ e.op # "error" /\ e.id # NoId => e.serial \in executed}

Filed(i) == {e \in GoodEvent : e.id = i}

OwnResult(cl) == cl.op \in Correlated => cl.result \in Filed(cl.id) \cup {NoEvent}

Correlation ==
  /\ Unwrapped => next_cmd_id = IF issued = MaxCmdId THEN 1 ELSE issued + 1
  /\ Unwrapped => \A c \in Caller : call[c].serial = call[c].id
  /\ toDevice \in Seq(GoodCommand)
  /\ capturing \subseteq GoodCommand
  /\ toHost \in Seq(GoodEvent)
  /\ handling \in GoodEvent \cup {NoEvent}
  /\ \A i \in CmdId : pending_responses[i] \in Seq(Filed(i))
  /\ \A c \in Caller : OwnResult(call[c])

IInv == TypeOK /\ Correlation

(* A sequence over a set is a sequence over every larger set. *)
LEMMA SeqGrows ==
  ASSUME NEW S, NEW T, S \subseteq T
  PROVE  Seq(S) \subseteq Seq(T)
  OBVIOUS

(* Ids that have not wrapped had not before, and what was executed stays   *)
(* so: what was good remains good.                                         *)
LEMMA GoodGrows ==
  ASSUME Unwrapped' => Unwrapped, executed \subseteq executed'
  PROVE  /\ GoodCommand \subseteq GoodCommand'
         /\ GoodEvent \subseteq GoodEvent'
         /\ \A i : Filed(i) \subseteq Filed(i)'
         /\ \A cl : OwnResult(cl) => OwnResult(cl)'
<1>1. GoodCommand \subseteq GoodCommand' /\ GoodEvent \subseteq GoodEvent'
  BY DEF GoodCommand, GoodEvent
<1>2. \A i : Filed(i) \subseteq Filed(i)'
  BY <1>1 DEF Filed
<1> QED BY <1>1, <1>2 DEF OwnResult

(* What a step does not touch of the channels and tables stays good. *)
LEMMA Kept ==
  ASSUME Correlation, Unwrapped' => Unwrapped, executed \subseteq executed'
  PROVE  /\ toDevice \in Seq(GoodCommand')
         /\ capturing \subseteq GoodCommand'
         /\ toHost \in Seq(GoodEvent')
         /\ handling \in GoodEvent' \cup {NoEvent}
         /\ \A i \in CmdId : pending_responses[i] \in Seq(Filed(i)')
<1>1. /\ GoodCommand \subseteq GoodCommand'
      /\ GoodEvent \subseteq GoodEvent'
      /\ \A i : Filed(i) \subseteq Filed(i)'
  BY GoodGrows
<1>2. /\ Seq(GoodCommand) \subseteq Seq(GoodCommand')
      /\ Seq(GoodEvent) \subseteq Seq(GoodEvent')
      /\ \A i : Seq(Filed(i)) \subseteq Seq(Filed(i)')
  BY <1>1, SeqGrows
<1> QED BY <1>1, <1>2 DEF Correlation

(* An answer to a good command is good, unless it claims too much. *)
LEMMA GoodAnswer ==
  ASSUME NEW cmd \in GoodCommand, NEW op \in Opcode, NEW code \in ErrCode \cup {NoError},
         Unwrapped' => Unwrapped, op # "error" => cmd.serial \in executed'
  PROVE  Answer(cmd, op, code) \in GoodEvent'
<1>1. cmd \in Command /\ (Unwrapped => cmd.serial = cmd.id)
  BY DEF GoodCommand
<1>2. Answer(cmd, op, code) \in Event
  BY <1>1, AnswerType
<1>3. /\ Answer(cmd, op, code).op = op
      /\ Answer(cmd, op, code).serial = cmd.serial
      /\ Answer(cmd, op, code).id \in {NoId, cmd.id}
  BY DEF Answer
<1> QED BY <1>1, <1>2, <1>3 DEF GoodEvent

(* Steps that draw an id. *)
LEMMA DrawOwn ==
  ASSUME NEW c \in Caller, NEW op \in AllOps, NEW stage \in Stage, NEW g \in Gpio,
         IInv, Draw(c, op, stage, g), executed \subseteq executed', Unwrapped' => Unwrapped
  PROVE  /\ Unwrapped' => next_cmd_id' = IF issued' = MaxCmdId THEN 1 ELSE issued' + 1
         /\ Unwrapped' => \A d \in Caller : call'[d].serial = call'[d].id
         /\ (\A d \in Caller : OwnResult(call[d]))'
<1>1. issued \in Nat /\ call \in [Caller -> Call] /\ next_cmd_id \in CmdId
  BY DEF IInv, TypeOK
<1>2. ASSUME Unwrapped'
      PROVE  next_cmd_id = issued + 1 /\ next_cmd_id' = IF issued' = MaxCmdId THEN 1 ELSE issued' + 1
  BY <1>1, <1>2, BridgeClientAssumption DEF IInv, Correlation, Draw, Unwrapped, NextId
<1>3. ASSUME Unwrapped', NEW d \in Caller PROVE call'[d].serial = call'[d].id
  BY <1>1, <1>2, <1>3 DEF IInv, Correlation, Draw
<1>4. ASSUME NEW d \in Caller PROVE OwnResult(call[d])'
  <2>1. CASE d = c
    BY <1>1, <2>1 DEF Draw, OwnResult
  <2>2. CASE d # c
    BY <1>1, <2>2, GoodGrows DEF Draw, IInv, Correlation, OwnResult
  <2> QED BY <2>1, <2>2
<1> QED BY <1>2, <1>3, <1>4

(* Steps that change nothing of a call but its phase and reason. *)
LEMMA PhaseOwn ==
  ASSUME IInv, NEW c \in Caller, executed \subseteq executed', Unwrapped' => Unwrapped,
         UNCHANGED <<next_cmd_id, issued>>, call' \in [Caller -> Call],
         \A d \in Caller : /\ call'[d].op = call[d].op
                           /\ call'[d].id = call[d].id
                           /\ call'[d].serial = call[d].serial
                           /\ call'[d].result = call[d].result
  PROVE  /\ Unwrapped' => next_cmd_id' = IF issued' = MaxCmdId THEN 1 ELSE issued' + 1
         /\ Unwrapped' => \A d \in Caller : call'[d].serial = call'[d].id
         /\ (\A d \in Caller : OwnResult(call[d]))'
<1>1. ASSUME NEW d \in Caller PROVE OwnResult(call[d])'
  <2>1. call[d].op \in Correlated => call[d].result \in Filed(call[d].id) \cup {NoEvent}
    BY DEF IInv, Correlation, OwnResult
  <2>2. \A i : Filed(i) \subseteq Filed(i)'
    BY GoodGrows
  <2> QED BY <2>1, <2>2 DEF OwnResult
<1> QED BY <1>1 DEF IInv, Correlation, Unwrapped

(* Steps that conclude a wait with an answer of the call, or with none. *)
LEMMA ConcludeOwn ==
  ASSUME IInv, NEW c \in Caller, NEW r \in Event \cup {NoEvent}, Conclude(c, r),
         call[c].op \in Correlated => r \in Filed(call[c].id) \cup {NoEvent},
         UNCHANGED <<next_cmd_id, issued, executed>>
  PROVE  /\ Unwrapped' => next_cmd_id' = IF issued' = MaxCmdId THEN 1 ELSE issued' + 1
         /\ Unwrapped' => \A d \in Caller : call'[d].serial = call'[d].id
         /\ (\A d \in Caller : OwnResult(call[d]))'
<1>1. PICK p \in {"retry", "report"} : call'[c] = [call[c] EXCEPT !.pc = p, !.result = r]
  BY ConcludeEffect DEF IInv
<1>2. \A d \in Caller : d # c => call'[d] = call[d]
  BY ConcludeEffect DEF IInv
<1>3. /\ call'[c].op = call[c].op /\ call'[c].id = call[c].id
      /\ call'[c].serial = call[c].serial /\ call'[c].result = r
  BY <1>1 DEF IInv, TypeOK, Call
<1>4. Unwrapped' = Unwrapped /\ \A i : Filed(i)' = Filed(i)
  BY DEF Unwrapped, Filed, GoodEvent
<1>5. ASSUME NEW d \in Caller PROVE OwnResult(call[d])'
  BY <1>2, <1>3, <1>4 DEF IInv, Correlation, OwnResult
<1>6. ASSUME Unwrapped', NEW d \in Caller PROVE call'[d].serial = call'[d].id
  BY <1>2, <1>3, <1>4, <1>6 DEF IInv, Correlation
<1> QED BY <1>4, <1>5, <1>6 DEF IInv, Correlation

(* Every step preserves the correlation of ids, commands and answers. *)
LEMMA CorrelationInductive == IInv /\ [Next]_vars => Correlation'
<1> SUFFICES ASSUME IInv, [Next]_vars PROVE Correlation'
  OBVIOUS
<1> USE DEF vars, hostVars, tableVars, deviceVars, linkVars
<1>a. TypeOK /\ Correlation
  BY DEF IInv
<1>b. \A c \in Caller : call[c].op \in AllOps /\ call[c].gpio \in Gpio /\ call[c].id \in CmdId
  BY <1>a DEF TypeOK, Call
<1>1. ASSUME NEW c \in Caller, NEW op \in Ops, NEW g \in Gpio, Begin(c, op, g)
      PROVE  Correlation'
  <2>1. executed' = executed /\ (Unwrapped' => Unwrapped) /\ op \in AllOps
    BY <1>1, <1>a, BridgeClientAssumption DEF Begin, Draw, Unwrapped, TypeOK
  <2>2. /\ Unwrapped' => next_cmd_id' = IF issued' = MaxCmdId THEN 1 ELSE issued' + 1
        /\ Unwrapped' => \A d \in Caller : call'[d].serial = call'[d].id
        /\ (\A d \in Caller : OwnResult(call[d]))'
    BY <1>1, <2>1, DrawOwn DEF Begin, Stage
  <2>3. UNCHANGED <<toDevice, capturing, toHost, handling, pending_responses>>
    BY <1>1 DEF Begin
  <2> QED BY <1>a, <2>1, <2>2, <2>3, Kept DEF Correlation
<1>2. ASSUME NEW c \in Caller, Send(c) PROVE Correlation'
  <2>0. last_error \in ErrCode \cup {NoError}
    BY <1>a DEF TypeOK
  <2>1. executed' = executed /\ (Unwrapped' = Unwrapped) /\ UNCHANGED <<next_cmd_id, issued>>
    BY <1>2 DEF Send, Unwrapped
  <2>2. /\ call' \in [Caller -> Call]
        /\ \A d \in Caller : /\ call'[d].op = call[d].op /\ call'[d].id = call[d].id
                             /\ call'[d].serial = call[d].serial
                             /\ call'[d].result = call[d].result
    <3>1. \E p \in Pc, code \in ErrCode \cup {NoError} :
            call' = [call EXCEPT ![c].pc = p] \/ call' = [call EXCEPT ![c].pc = p, ![c].code = code]
      BY <1>2, <2>0 DEF Send, Pc
    <3> QED BY <1>a, <3>1, PhaseType
  <2>3. /\ Unwrapped' => next_cmd_id' = IF issued' = MaxCmdId THEN 1 ELSE issued' + 1
        /\ Unwrapped' => \A d \in Caller : call'[d].serial = call'[d].id
        /\ (\A d \in Caller : OwnResult(call[d]))'
    BY <2>1, <2>2, PhaseOwn
  <2> DEFINE cmd == [kind |-> KindOf(call[c]), id |-> call[c].id, gpio |-> call[c].gpio,
                     serial |-> call[c].serial]
  <2>4. KindOf(call[c]) \in CmdKind
    BY <1>a DEF TypeOK, KindOf, Call, CmdKind, AllOps, Stage
  <2>5. cmd \in Command
    BY <1>a, <2>4 DEF TypeOK, Call, Command
  <2>6. cmd \in GoodCommand'
    BY <1>a, <2>1, <2>5 DEF GoodCommand, Correlation
  <2>7. toDevice' = Append(toDevice, cmd)
    BY <1>2 DEF Send
  <2>8. toDevice \in Seq(GoodCommand')
    BY <1>a, <2>1, Kept
  <2>9. toDevice' \in Seq(GoodCommand')
    BY <2>6, <2>7, <2>8, AppendProperties
  <2> QED BY <1>2, <1>a, <2>1, <2>3, <2>9, Kept DEF Correlation, Send
<1>3. ASSUME NEW c \in Caller, SendRefused(c) PROVE Correlation'
  <2>0. last_error \in ErrCode \cup {NoError}
    BY <1>a DEF TypeOK
  <2>1. executed' = executed /\ (Unwrapped' = Unwrapped) /\ UNCHANGED <<next_cmd_id, issued>>
    BY <1>3 DEF SendRefused, Unwrapped
  <2>2. /\ call' \in [Caller -> Call]
        /\ \A d \in Caller : /\ call'[d].op = call[d].op /\ call'[d].id = call[d].id
                             /\ call'[d].serial = call[d].serial
                             /\ call'[d].result = call[d].result
    <3>1. \E p \in Pc, code \in ErrCode \cup {NoError} :
            call' = [call EXCEPT ![c].pc = p] \/ call' = [call EXCEPT ![c].pc = p, ![c].code = code]
      BY <1>3, <2>0 DEF SendRefused, Pc
    <3> QED BY <1>a, <3>1, PhaseType
  <2> QED BY <1>3, <1>a, <2>1, <2>2, PhaseOwn, Kept DEF Correlation, SendRefused
<1>4. ASSUME NEW c \in Caller, TakeResponse(c) PROVE Correlation'
  <2> DEFINE i == call[c].id
  <2>1. PICK k \in DOMAIN pending_responses[i] :
          /\ Conclude(c, pending_responses[i][k])
          /\ pending_responses' = [pending_responses EXCEPT ![i] = RemoveAt(@, k)]
    BY <1>4 DEF TakeResponse
  <2>2. UNCHANGED <<next_cmd_id, issued, executed, toDevice, capturing, toHost, handling>>
    BY <1>4 DEF TakeResponse
  <2>3. pending_responses[i] \in Seq(Filed(i))
    BY <1>a, <1>b DEF Correlation
  <2>4. pending_responses[i][k] \in Filed(i)
    BY <2>3, ElementOfSeq, LenProperties
  <2>5. pending_responses[i][k] \in Event
    BY <2>4 DEF Filed, GoodEvent
  <2>6. /\ Unwrapped' => next_cmd_id' = IF issued' = MaxCmdId THEN 1 ELSE issued' + 1
        /\ Unwrapped' => \A d \in Caller : call'[d].serial = call'[d].id
        /\ (\A d \in Caller : OwnResult(call[d]))'
    BY <2>1, <2>2, <2>4, <2>5, ConcludeOwn
  <2>7. Unwrapped' = Unwrapped /\ \A j : Filed(j)' = Filed(j)
    BY <2>2 DEF Unwrapped, Filed, GoodEvent
  <2>8. RemoveAt(pending_responses[i], k) \in Seq(Filed(i))
    BY <2>3, RemoveAtType
  <2>9. \A j \in CmdId : pending_responses'[j] \in Seq(Filed(j))
    BY <1>a, <2>1, <2>8 DEF Correlation, TypeOK
  <2> QED BY <1>a, <2>2, <2>6, <2>7, <2>9, Kept DEF Correlation
<1>5. ASSUME NEW c \in Caller, TakeEvent(c) PROVE Correlation'
  <2> DEFINE o == OpcodePolled(call[c].op)
  <2>1. PICK k \in DOMAIN pending_events[o] : Conclude(c, pending_events[o][k])
    BY <1>5 DEF TakeEvent
  <2>2. /\ UNCHANGED <<next_cmd_id, issued, executed, toDevice, capturing, toHost, handling,
                       pending_responses>>
        /\ call[c].op \notin Correlated
    BY <1>5 DEF TakeEvent
  <2>3. o \in Polled /\ pending_events[o] \in Seq(Event)
    BY <1>a DEF TypeOK, OpcodePolled, Polled
  <2>4. pending_events[o][k] \in Event
    BY <2>3, ElementOfSeq, LenProperties
  <2>5. /\ Unwrapped' => next_cmd_id' = IF issued' = MaxCmdId THEN 1 ELSE issued' + 1
        /\ Unwrapped' => \A d \in Caller : call'[d].serial = call'[d].id
        /\ (\A d \in Caller : OwnResult(call[d]))'
    BY <2>1, <2>2, <2>4, ConcludeOwn
  <2>6. Unwrapped' = Unwrapped
    BY <2>2 DEF Unwrapped
  <2> QED BY <1>a, <2>2, <2>5, <2>6, Kept DEF Correlation
<1>6. ASSUME NEW c \in Caller, Timeout(c) PROVE Correlation'
  <2>1. UNCHANGED <<next_cmd_id, issued, executed, toDevice, capturing, toHost, handling,
                    pending_responses>>
    BY <1>6 DEF Timeout
  <2>2. /\ Unwrapped' => next_cmd_id' = IF issued' = MaxCmdId THEN 1 ELSE issued' + 1
        /\ Unwrapped' => \A d \in Caller : call'[d].serial = call'[d].id
        /\ (\A d \in Caller : OwnResult(call[d]))'
    BY <1>6, <2>1, ConcludeOwn DEF Timeout
  <2>3. Unwrapped' = Unwrapped
    BY <2>1 DEF Unwrapped
  <2> QED BY <1>a, <2>1, <2>2, <2>3, Kept DEF Correlation
<1>7. ASSUME NEW c \in Caller, Retry(c) PROVE Correlation'
  <2>1. executed' = executed /\ (Unwrapped' => Unwrapped)
    BY <1>7, <1>a, BridgeClientAssumption DEF Retry, Draw, Unwrapped, TypeOK
  <2>2. /\ Unwrapped' => next_cmd_id' = IF issued' = MaxCmdId THEN 1 ELSE issued' + 1
        /\ Unwrapped' => \A d \in Caller : call'[d].serial = call'[d].id
        /\ (\A d \in Caller : OwnResult(call[d]))'
    BY <1>7, <1>b, <2>1, DrawOwn DEF Retry, Stage
  <2>3. UNCHANGED <<toDevice, capturing, toHost, handling, pending_responses>>
    BY <1>7 DEF Retry
  <2> QED BY <1>a, <2>1, <2>2, <2>3, Kept DEF Correlation
<1>8. ASSUME NEW c \in Caller, Report(c) PROVE Correlation'
  <2>0. last_error \in ErrCode \cup {NoError}
    BY <1>a DEF TypeOK
  <2>1. executed' = executed /\ (Unwrapped' = Unwrapped) /\ UNCHANGED <<next_cmd_id, issued>>
    BY <1>8 DEF Report, Unwrapped
  <2>2. /\ call' \in [Caller -> Call]
        /\ \A d \in Caller : /\ call'[d].op = call[d].op /\ call'[d].id = call[d].id
                             /\ call'[d].serial = call[d].serial
                             /\ call'[d].result = call[d].result
    <3>1. \E p \in Pc, code \in ErrCode \cup {NoError} :
            call' = [call EXCEPT ![c].pc = p] \/ call' = [call EXCEPT ![c].pc = p, ![c].code = code]
      BY <1>8, <2>0 DEF Report, Pc
    <3> QED BY <1>a, <3>1, PhaseType
  <2> QED BY <1>8, <1>a, <2>1, <2>2, PhaseOwn, Kept DEF Correlation, Report
<1>9. ASSUME FileByOpcode PROVE Correlation'
  <2>1. UNCHANGED <<next_cmd_id, issued, executed, call, toDevice, capturing, pending_responses>>
    BY <1>9 DEF FileByOpcode
  <2>2. Unwrapped' = Unwrapped /\ GoodEvent' = GoodEvent /\ \A cl : OwnResult(cl)' = OwnResult(cl)
    BY <2>1 DEF Unwrapped, GoodEvent, OwnResult, Filed
  <2>3. handling' \in GoodEvent /\ toHost' \in Seq(GoodEvent)
    BY <1>9, <1>a, HeadTailProperties DEF FileByOpcode, Correlation
  <2>4. (\A c \in Caller : OwnResult(call[c]))'
    BY <1>a, <2>1, <2>2 DEF Correlation
  <2> QED BY <1>a, <2>1, <2>2, <2>3, <2>4, Kept DEF Correlation
<1>10. ASSUME FileById PROVE Correlation'
  <2>1. /\ UNCHANGED <<next_cmd_id, issued, executed, call, toDevice, capturing, toHost>>
        /\ handling' = NoEvent
    BY <1>10 DEF FileById
  <2>2. Unwrapped' = Unwrapped /\ \A i : Filed(i)' = Filed(i)
    BY <2>1 DEF Unwrapped, GoodEvent, Filed
  <2>3. (\A c \in Caller : OwnResult(call[c]))'
    BY <1>a, <2>1, <2>2 DEF Correlation, OwnResult
  <2>4. ASSUME NEW i \in CmdId PROVE pending_responses'[i] \in Seq(Filed(i))
    <3>1. handling \in GoodEvent /\ handling.id \in CmdId \cup {NoId}
      BY <1>10, <1>a DEF FileById, Correlation, GoodEvent, Event
    <3>2. pending_responses[i] \in Seq(Filed(i)) /\ pending_responses \in [CmdId -> Seq(Event)]
      BY <1>a DEF Correlation, TypeOK
    <3>3. CASE handling.id = i
      <4>1. handling \in Filed(i)
        BY <3>1, <3>3 DEF Filed
      <4>2. Append(pending_responses[i], handling) \in Seq(Filed(i))
        BY <3>2, <4>1, AppendProperties
      <4>3. handling.id # NoId
        BY <3>3 DEF CmdId, NoId
      <4> QED BY <1>10, <3>2, <3>3, <4>2, <4>3 DEF FileById
    <3>4. CASE handling.id # i
      BY <1>10, <3>1, <3>2, <3>4 DEF FileById
    <3> QED BY <3>3, <3>4
  <2> QED BY <1>a, <2>1, <2>2, <2>3, <2>4, Kept DEF Correlation
<1>11. ASSUME NEW c \in Caller, ClearPending(c) PROVE Correlation'
  <2>1. /\ UNCHANGED <<next_cmd_id, issued, executed, call, toDevice, capturing, toHost, handling>>
        /\ pending_responses' = [i \in CmdId |-> <<>>]
    BY <1>11 DEF ClearPending
  <2>2. Unwrapped' = Unwrapped /\ \A i : Filed(i)' = Filed(i)
    BY <2>1 DEF Unwrapped, GoodEvent, Filed
  <2>3. (\A d \in Caller : OwnResult(call[d]))'
    BY <1>a, <2>1, <2>2 DEF Correlation, OwnResult
  <2>4. ASSUME NEW i \in CmdId PROVE pending_responses'[i] \in Seq(Filed(i))
    BY <2>1, EmptySeq
  <2> QED BY <1>a, <2>1, <2>2, <2>3, <2>4, Kept DEF Correlation
<1>12. ASSUME Dispatch PROVE Correlation'
  <2> DEFINE cmd == Head(toDevice)
  <2>1. cmd \in GoodCommand /\ Tail(toDevice) \in Seq(GoodCommand)
    BY <1>12, <1>a, HeadTailProperties DEF Dispatch, Correlation
  <2> HIDE DEF cmd
  <2>2. Reject(cmd) \/ AckCommand(cmd) \/ ReplyValue(cmd) \/ StartCapture(cmd)
    BY <1>12 DEF Dispatch, cmd
  <2>3. /\ UNCHANGED <<next_cmd_id, issued, call, pending_responses, handling>>
        /\ Unwrapped' = Unwrapped
        /\ toDevice' = Tail(toDevice)
    BY <1>12 DEF Dispatch, Unwrapped
  <2>4. executed \subseteq executed'
    BY <2>2 DEF Reject, AckCommand, ReplyValue, StartCapture
  <2>5. /\ GoodCommand \subseteq GoodCommand' /\ toHost \in Seq(GoodEvent')
        /\ capturing \subseteq GoodCommand'
    BY <1>a, <2>3, <2>4, Kept, GoodGrows
  <2>6. toDevice' \in Seq(GoodCommand') /\ cmd \in GoodCommand'
    BY <2>1, <2>3, <2>5, SeqGrows
  <2>7. capturing' \subseteq GoodCommand'
    BY <2>2, <2>5, <2>6 DEF Reject, AckCommand, ReplyValue, StartCapture
  <2>8. toHost' \in Seq(GoodEvent')
    <3>1. CASE Reject(cmd)
      <4>1. PICK code \in ErrCode : toHost' = Append(toHost, Answer(cmd, "error", code))
        BY <3>1 DEF Reject
      <4>2. Answer(cmd, "error", code) \in GoodEvent'
        BY <2>1, <2>3, GoodAnswer DEF Opcode
      <4> QED BY <2>5, <4>1, <4>2, AppendProperties
    <3>2. CASE AckCommand(cmd)
      <4>1. cmd.serial \in executed' /\ toHost' = Append(toHost, Answer(cmd, "ack", NoError))
        BY <3>2 DEF AckCommand
      <4>2. Answer(cmd, "ack", NoError) \in GoodEvent'
        BY <2>1, <2>3, <4>1, GoodAnswer DEF Opcode
      <4> QED BY <2>5, <4>1, <4>2, AppendProperties
    <3>3. CASE ReplyValue(cmd)
      <4>1. cmd.serial \in executed'
        BY <3>3 DEF ReplyValue
      <4>2. /\ Answer(cmd, "value", NoError) \in GoodEvent'
            /\ Answer(cmd, "heartbeat", NoError) \in GoodEvent'
            /\ Answer(cmd, "ack", NoError) \in GoodEvent'
            /\ Answer(cmd, "sync", NoError) \in GoodEvent'
        BY <2>1, <2>3, <4>1, GoodAnswer DEF Opcode
      <4>3. \/ toHost' = Append(toHost, Answer(cmd, "value", NoError))
            \/ toHost' = Append(toHost, Answer(cmd, "heartbeat", NoError))
            \/ toHost' = toHost \o <<Answer(cmd, "ack", NoError), Answer(cmd, "sync", NoError)>>
        BY <3>3 DEF ReplyValue
      <4>4. /\ Append(toHost, Answer(cmd, "value", NoError)) \in Seq(GoodEvent')
            /\ Append(toHost, Answer(cmd, "heartbeat", NoError)) \in Seq(GoodEvent')
        BY <2>5, <4>2, AppendProperties
      <4>5. toHost \o <<Answer(cmd, "ack", NoError), Answer(cmd, "sync", NoError)>>
              \in Seq(GoodEvent')
        BY <2>5, <4>2, AppendTwo
      <4> QED BY <4>3, <4>4, <4>5
    <3>4. CASE StartCapture(cmd)
      BY <2>5, <3>4 DEF StartCapture
    <3> QED BY <2>2, <3>1, <3>2, <3>3, <3>4
  <2>9. (\A c \in Caller : OwnResult(call[c]))'
    BY <1>a, <2>3, <2>4, GoodGrows DEF Correlation, OwnResult
  <2> QED BY <1>a, <2>3, <2>4, <2>6, <2>7, <2>8, <2>9, Kept DEF Correlation
<1>13. ASSUME NEW cmd \in capturing, FinishCapture(cmd) PROVE Correlation'
  <2>1. cmd \in GoodCommand /\ capturing' \subseteq capturing
    BY <1>13, <1>a DEF FinishCapture, Correlation
  <2>2. /\ UNCHANGED <<next_cmd_id, issued, call, pending_responses, handling, toDevice>>
        /\ Unwrapped' = Unwrapped /\ executed \subseteq executed'
    BY <1>13 DEF FinishCapture, Unwrapped
  <2>3. toHost \in Seq(GoodEvent')
    BY <1>a, <2>2, Kept
  <2>4. toHost' \in Seq(GoodEvent')
    <3>1. CASE \E code \in ErrCode : toHost' = Append(toHost, Answer(cmd, "error", code))
      <4>1. PICK code \in ErrCode : toHost' = Append(toHost, Answer(cmd, "error", code))
        BY <3>1
      <4>2. Answer(cmd, "error", code) \in GoodEvent'
        BY <2>1, <2>2, GoodAnswer DEF Opcode
      <4> QED BY <2>3, <4>1, <4>2, AppendProperties
    <3>2. CASE cmd.serial \in executed'
      <4>1. /\ Answer(cmd, "ack", NoError) \in GoodEvent'
            /\ Answer(cmd, "captured", NoError) \in GoodEvent'
        BY <2>1, <2>2, <3>2, GoodAnswer DEF Opcode
      <4>2. /\ Append(toHost, Answer(cmd, "ack", NoError)) \in Seq(GoodEvent')
            /\ toHost \o <<Answer(cmd, "captured", NoError), Answer(cmd, "ack", NoError)>>
                 \in Seq(GoodEvent')
            /\ \A code \in ErrCode :
                 toHost \o <<Answer(cmd, "error", code), Answer(cmd, "ack", NoError)>>
                   \in Seq(GoodEvent')
        <5>1. \A code \in ErrCode : Answer(cmd, "error", code) \in GoodEvent'
          BY <2>1, <2>2, GoodAnswer DEF Opcode
        <5> QED BY <2>3, <4>1, <5>1, AppendProperties, AppendTwo
      <4>3. \/ \E code \in ErrCode : toHost' = Append(toHost, Answer(cmd, "error", code))
            \/ toHost' = Append(toHost, Answer(cmd, "ack", NoError))
            \/ toHost' = toHost \o <<Answer(cmd, "captured", NoError), Answer(cmd, "ack", NoError)>>
            \/ \E code \in ErrCode :
                 toHost' = toHost \o <<Answer(cmd, "error", code), Answer(cmd, "ack", NoError)>>
        BY <1>13 DEF FinishCapture
      <4> QED BY <3>1, <4>2, <4>3
    <3>3. \/ \E code \in ErrCode : toHost' = Append(toHost, Answer(cmd, "error", code))
          \/ cmd.serial \in executed'
      BY <1>13 DEF FinishCapture
    <3> QED BY <3>1, <3>2, <3>3
  <2>5. (\A c \in Caller : OwnResult(call[c]))'
    BY <1>a, <2>2, GoodGrows DEF Correlation, OwnResult
  <2> QED BY <1>a, <2>1, <2>2, <2>4, <2>5, Kept DEF Correlation
<1>14. ASSUME LoseCommand \/ LoseEvent \/ LinkChange \/ UNCHANGED vars PROVE Correlation'
  <2>1. UNCHANGED <<next_cmd_id, issued, call, executed, handling, pending_responses, capturing>>
    BY <1>14 DEF LoseCommand, LoseEvent, LinkChange
  <2>2. /\ Unwrapped' = Unwrapped /\ GoodEvent' = GoodEvent
        /\ GoodCommand' = GoodCommand /\ \A i : Filed(i)' = Filed(i)
    BY <2>1 DEF Unwrapped, GoodEvent, GoodCommand, Filed
  <2>3. (\A c \in Caller : OwnResult(call[c]))'
    BY <1>a, <2>1, <2>2 DEF Correlation, OwnResult
  <2>4. toDevice' \in Seq(GoodCommand)
    BY <1>14, <1>a, RemoveAtType DEF LoseCommand, LoseEvent, LinkChange, Correlation
  <2>5. toHost' \in Seq(GoodEvent)
    BY <1>14, <1>a, RemoveAtType DEF LoseCommand, LoseEvent, LinkChange, Correlation
  <2> QED BY <1>a, <2>1, <2>2, <2>3, <2>4, <2>5 DEF Correlation
<1>15. ASSUME Unprompted PROVE Correlation'
  <2>1. /\ UNCHANGED <<next_cmd_id, issued, call, executed, handling, pending_responses, capturing>>
        /\ UNCHANGED toDevice
    BY <1>15 DEF Unprompted
  <2>2. /\ Unwrapped' = Unwrapped /\ GoodEvent' = GoodEvent
        /\ GoodCommand' = GoodCommand /\ \A i : Filed(i)' = Filed(i)
    BY <2>1 DEF Unwrapped, GoodEvent, GoodCommand, Filed
  <2>3. (\A c \in Caller : OwnResult(call[c]))'
    BY <1>a, <2>1, <2>2 DEF Correlation, OwnResult
  <2>4. toHost' \in Seq(GoodEvent)
    <3>1. PICK g \in Gpio :
            toHost' = Append(toHost, [op |-> "heartbeat", id |-> NoId, gpio |-> g,
                                      code |-> NoError, serial |-> 0])
      BY <1>15 DEF Unprompted
    <3>2. [op |-> "heartbeat", id |-> NoId, gpio |-> g, code |-> NoError, serial |-> 0] \in GoodEvent
      BY DEF GoodEvent, Event, Opcode
    <3> QED BY <1>a, <3>1, <3>2, AppendProperties DEF Correlation
  <2> QED BY <1>a, <2>1, <2>2, <2>3, <2>4 DEF Correlation
<1> QED
  BY <1>1, <1>2, <1>3, <1>4, <1>5, <1>6, <1>7, <1>8, <1>9, <1>10, <1>11, <1>12, <1>13, <1>14, <1>15
  DEF Next, CallerStep

(* The invariant holds in every reachable state. *)
THEOREM Invariance == Spec => []IInv
<1>1. Init => Correlation
  <2> SUFFICES ASSUME Init PROVE Correlation
    OBVIOUS
  <2>1. \A c \in Caller : call[c] = NoCall
    BY DEF Init
  <2>2. \A c \in Caller : OwnResult(call[c]) /\ call[c].serial = call[c].id
    <3>1. NoCall.result = NoEvent /\ NoCall.serial = NoCall.id
      BY DEF NoCall
    <3> QED BY <2>1, <3>1 DEF OwnResult
  <2>3. next_cmd_id = IF issued = MaxCmdId THEN 1 ELSE issued + 1
    BY BridgeClientAssumption DEF Init
  <2>4. /\ toDevice = <<>> /\ toHost = <<>> /\ capturing = {} /\ handling = NoEvent
        /\ \A i \in CmdId : pending_responses[i] = <<>>
    BY DEF Init
  <2> QED BY <2>2, <2>3, <2>4, EmptySeq DEF Correlation
<1>2. TypeOK /\ Correlation /\ [Next]_vars => Correlation'
  BY CorrelationInductive DEF IInv
<1> QED BY <1>1, <1>2, TypeCorrect, PTL DEF Spec, IInv

(* The answer a caller gets by command id is the answer to its command.    *)
THEOREM OwnAnswerHolds == Spec => []OwnAnswer
<1>1. IInv => OwnAnswer
  <2> SUFFICES ASSUME IInv, Unwrapped, NEW c \in Caller,
                      call[c].op \in Correlated, call[c].result # NoEvent
               PROVE  call[c].result.serial = call[c].serial
    BY DEF OwnAnswer
  <2>1. call[c].result \in Filed(call[c].id) /\ call[c].id \in CmdId
    BY DEF IInv, Correlation, OwnResult, TypeOK, Call
  <2> QED BY <2>1 DEF IInv, Correlation, Filed, GoodEvent, CmdId, NoId
<1> QED BY <1>1, Invariance, PTL

(* A success reported by command id is the success of the command.         *)
THEOREM SuccessMeansExecutedHolds == Spec => []SuccessMeansExecuted
<1>1. ASSUME IInv, Unwrapped, NEW c \in Caller, call[c].op \in Correlated, Succeeded(call[c])
      PROVE  call[c].serial \in executed
  <2>1. call[c].result \in Filed(call[c].id) /\ call[c].id \in CmdId
    BY <1>1 DEF IInv, Correlation, OwnResult, Succeeded, TypeOK, Call
  <2>2. call[c].result.serial = call[c].id /\ call[c].serial = call[c].id
    BY <1>1, <2>1 DEF IInv, Correlation, Filed, GoodEvent, CmdId, NoId
  <2>3. call[c].result.op # "error"
    BY <1>1 DEF Succeeded, Correlated, AllOps
  <2>4. call[c].result.id # NoId
    BY <2>1 DEF Filed, CmdId, NoId
  <2> QED BY <2>1, <2>2, <2>3, <2>4 DEF Filed, GoodEvent
<1>2. IInv => SuccessMeansExecuted
  BY <1>1 DEF SuccessMeansExecuted
<1> QED BY <1>2, Invariance, PTL

-----------------------------------------------------------------------------
(* No event answers twice.                                                 *)
(*                                                                         *)
(* Events travel along two lanes: to the table of their id and the calls   *)
(* that poll it, and to the table of their opcode and the calls that poll  *)
(* that one.  The inductive invariant: along each lane an answer is in one *)
(* place only, no answer of a command is anywhere before the device has    *)
(* seen the command, and every serial is carried by one command.           *)

(* Two copies of one answer. *)
Same(e, f) == e.serial # 0 /\ e.serial = f.serial /\ e.op = f.op

Distinct(s) == \A j, k \in DOMAIN s : j # k => ~Same(s[j], s[k])

Disjoint(s, t) == \A j \in DOMAIN s, k \in DOMAIN t : ~Same(s[j], t[k])

Without(s, F) == \A k \in DOMAIN s : s[k].serial \notin F

(* t is s with entries left out. *)
Within(t, s) ==
  \E f \in [DOMAIN t -> DOMAIN s] :
    /\ \A k \in DOMAIN t : t[k] = s[f[k]]
    /\ \A j, k \in DOMAIN t : j # k => f[j] # f[k]

(* A lane: the queue that leads to its tables, the tables, the result that *)
(* each caller took, and the serials of which no answer exists.            *)
Once(queue, table, result, F) ==
  /\ Distinct(queue)
  /\ Without(queue, F)
  /\ \A i \in DOMAIN table : /\ Distinct(table[i])
                             /\ Disjoint(queue, table[i])
                             /\ Without(table[i], F)
  /\ \A i, j \in DOMAIN table : i # j => Disjoint(table[i], table[j])
  /\ \A c \in DOMAIN result : result[c] # NoEvent =>
       /\ result[c].serial \notin F
       /\ \A k \in DOMAIN queue : ~Same(result[c], queue[k])
       /\ \A i \in DOMAIN table : \A k \in DOMAIN table[i] : ~Same(result[c], table[i][k])
       /\ \A d \in DOMAIN result : d # c /\ result[d] # NoEvent => ~Same(result[c], result[d])

(* What a sequence promises of its entries, it promises of fewer. *)
LEMMA WithinKeeps ==
  ASSUME NEW t, NEW s, Within(t, s)
  PROVE  /\ Distinct(s) => Distinct(t)
         /\ \A F : Without(s, F) => Without(t, F)
         /\ \A k \in DOMAIN t : \E j \in DOMAIN s : t[k] = s[j]
  BY DEF Within, Distinct, Without

(* A sequence is within itself, the empty sequence within every one. *)
LEMMA WithinItself ==
  ASSUME NEW S, NEW s \in Seq(S)
  PROVE  Within(s, s) /\ Within(<<>>, s)
<1>1. Within(s, s)
  <2> DEFINE f == [k \in DOMAIN s |-> k]
  <2>1. f \in [DOMAIN s -> DOMAIN s]
    OBVIOUS
  <2> QED BY <2>1 DEF Within
<1>2. Within(<<>>, s)
  <2> DEFINE f == [k \in {} |-> k]
  <2>1. DOMAIN <<>> = {}
    OBVIOUS
  <2>2. f \in [{} -> DOMAIN s]
    OBVIOUS
  <2> QED BY <2>1, <2>2 DEF Within
<1> QED BY <1>1, <1>2

(* So is the tail of a sequence. *)
LEMMA WithinTail ==
  ASSUME NEW S, NEW s \in Seq(S), s # <<>>
  PROVE  Within(Tail(s), s)
<1> DEFINE f == [k \in 1 .. Len(s) - 1 |-> k + 1]
<1>1. DOMAIN Tail(s) = 1 .. Len(s) - 1 /\ DOMAIN s = 1 .. Len(s) /\ Len(s) \in Nat
  BY HeadTailProperties, LenProperties
<1>2. \A k \in 1 .. Len(s) - 1 : Tail(s)[k] = s[k + 1]
  BY <1>1, HeadTailProperties
<1>3. f \in [DOMAIN Tail(s) -> DOMAIN s]
  BY <1>1
<1>4. /\ \A k \in DOMAIN Tail(s) : Tail(s)[k] = s[f[k]]
      /\ \A j, k \in DOMAIN Tail(s) : j # k => f[j] # f[k]
  BY <1>1, <1>2
<1> HIDE DEF f
<1> QED BY <1>3, <1>4 DEF Within

(* Popping an entry takes that entry out, and no other. *)
LEMMA RemoveAtEntries ==
  ASSUME NEW S, NEW s \in Seq(S), NEW k \in DOMAIN s
  PROVE  /\ DOMAIN RemoveAt(s, k) = 1 .. Len(s) - 1
         /\ \A j \in 1 .. Len(s) - 1 : RemoveAt(s, k)[j] = s[IF j < k THEN j ELSE j + 1]
<1> DEFINE a == SubSeq(s, 1, k - 1)
           b == SubSeq(s, k + 1, Len(s))
<1>1. Len(s) \in Nat /\ k \in 1 .. Len(s) /\ DOMAIN s = 1 .. Len(s)
  BY LenProperties
<1>2. a \in Seq(S) /\ Len(a) = k - 1 /\ \A j \in 1 .. k - 1 : a[j] = s[j]
  <2>1. \A j \in 1 .. k - 1 : s[j] \in S
    BY <1>1, ElementOfSeq
  <2> QED BY <1>1, <2>1, SubSeqProperties
<1>3. /\ b \in Seq(S) /\ Len(b) = Len(s) - k
      /\ \A j \in 1 .. Len(s) - k : b[j] = s[k + j]
  <2>1. \A j \in k + 1 .. Len(s) : s[j] \in S
    BY <1>1, ElementOfSeq
  <2>2. /\ b \in Seq(S) /\ Len(b) = IF k + 1 <= Len(s) THEN Len(s) - (k + 1) + 1 ELSE 0
        /\ \A j \in 1 .. Len(s) - (k + 1) + 1 : b[j] = s[(k + 1) + j - 1]
    BY <1>1, <2>1, SubSeqProperties
  <2> QED BY <1>1, <2>2
<1> HIDE DEF a, b
<1>4. /\ Len(a \o b) = Len(s) - 1 /\ a \o b \in Seq(S)
      /\ \A j \in 1 .. Len(s) - 1 : (a \o b)[j] = IF j <= k - 1 THEN a[j] ELSE b[j - (k - 1)]
  <2>1. Len(a) + Len(b) = Len(s) - 1
    BY <1>1, <1>2, <1>3
  <2>2. /\ a \o b \in Seq(S) /\ Len(a \o b) = Len(a) + Len(b)
        /\ \A j \in 1 .. Len(a) + Len(b) :
             (a \o b)[j] = IF j <= Len(a) THEN a[j] ELSE b[j - Len(a)]
    BY <1>2, <1>3, ConcatProperties
  <2> QED BY <1>2, <2>1, <2>2
<1>5. ASSUME NEW j \in 1 .. Len(s) - 1 PROVE (a \o b)[j] = s[IF j < k THEN j ELSE j + 1]
  <2>1. CASE j < k
    <3>1. j \in 1 .. k - 1
      BY <1>1, <2>1
    <3> QED BY <1>1, <1>2, <1>4, <2>1, <3>1
  <2>2. CASE ~(j < k)
    <3>1. j - (k - 1) \in 1 .. Len(s) - k /\ k + (j - (k - 1)) = j + 1 /\ ~(j <= k - 1)
      BY <1>1, <2>2
    <3> QED BY <1>3, <1>4, <2>2, <3>1
  <2> QED BY <2>1, <2>2
<1>6. DOMAIN (a \o b) = 1 .. Len(s) - 1
  BY <1>4, LenProperties
<1> QED BY <1>5, <1>6 DEF RemoveAt, a, b

LEMMA WithinRemoveAt ==
  ASSUME NEW S, NEW s \in Seq(S), NEW k \in DOMAIN s
  PROVE  Within(RemoveAt(s, k), s)
<1> DEFINE f == [j \in 1 .. Len(s) - 1 |-> IF j < k THEN j ELSE j + 1]
<1>1. Len(s) \in Nat /\ k \in 1 .. Len(s) /\ DOMAIN s = 1 .. Len(s)
  BY LenProperties
<1>2. /\ DOMAIN RemoveAt(s, k) = 1 .. Len(s) - 1
      /\ \A j \in 1 .. Len(s) - 1 : RemoveAt(s, k)[j] = s[f[j]]
  BY RemoveAtEntries
<1>3. f \in [1 .. Len(s) - 1 -> DOMAIN s] /\ \A i, j \in 1 .. Len(s) - 1 : i # j => f[i] # f[j]
  BY <1>1
<1> HIDE DEF f
<1> QED BY <1>2, <1>3 DEF Within

(* An event at the end of a queue or table: what is there afterwards. *)
LEMMA AppendEntries ==
  ASSUME NEW S, NEW s \in Seq(S), NEW e \in S
  PROVE  /\ DOMAIN Append(s, e) = 1 .. Len(s) + 1 /\ DOMAIN s = 1 .. Len(s) /\ Len(s) \in Nat
         /\ \A k \in 1 .. Len(s) : Append(s, e)[k] = s[k]
         /\ Append(s, e)[Len(s) + 1] = e
  BY AppendProperties, LenProperties

(* A lane on which events are only lost or forgotten remains clean. *)
LEMMA LaneThins ==
  ASSUME NEW q, NEW q2, NEW t, NEW t2, NEW r, NEW r2, NEW F, NEW F2,
         Once(q, t, r, F), F2 \subseteq F, Within(q2, q),
         DOMAIN t2 = DOMAIN t, \A i \in DOMAIN t : Within(t2[i], t[i]),
         DOMAIN r2 = DOMAIN r, \A c \in DOMAIN r : r2[c] \in {r[c], NoEvent}
  PROVE  Once(q2, t2, r2, F2)
<1>1. /\ Distinct(q2) /\ Without(q2, F)
      /\ \A k \in DOMAIN q2 : \E j \in DOMAIN q : q2[k] = q[j]
  BY WithinKeeps DEF Once
<1>2. ASSUME NEW i \in DOMAIN t
      PROVE  /\ Distinct(t2[i]) /\ Without(t2[i], F)
             /\ \A k \in DOMAIN t2[i] : \E j \in DOMAIN t[i] : t2[i][k] = t[i][j]
  BY WithinKeeps DEF Once
<1>3. Without(q2, F2) /\ \A i \in DOMAIN t : Without(t2[i], F2)
  BY <1>1, <1>2 DEF Without
<1>4. ASSUME NEW i \in DOMAIN t PROVE Disjoint(q2, t2[i])
  <2>1. Disjoint(q, t[i])
    BY DEF Once
  <2> QED BY <1>1, <1>2, <2>1 DEF Disjoint
<1>5. ASSUME NEW i \in DOMAIN t, NEW j \in DOMAIN t, i # j PROVE Disjoint(t2[i], t2[j])
  <2>1. Disjoint(t[i], t[j])
    BY <1>5 DEF Once
  <2> QED BY <1>2, <2>1 DEF Disjoint
<1>6. ASSUME NEW c \in DOMAIN r, r2[c] # NoEvent
      PROVE  /\ r2[c].serial \notin F2
             /\ \A k \in DOMAIN q2 : ~Same(r2[c], q2[k])
             /\ \A i \in DOMAIN t : \A k \in DOMAIN t2[i] : ~Same(r2[c], t2[i][k])
             /\ \A d \in DOMAIN r : d # c /\ r2[d] # NoEvent => ~Same(r2[c], r2[d])
  <2>1. r2[c] = r[c] /\ \A d \in DOMAIN r : r2[d] # NoEvent => r2[d] = r[d]
    BY <1>6
  <2> QED BY <1>1, <1>2, <1>6, <2>1 DEF Once
<1> QED BY <1>1, <1>2, <1>3, <1>4, <1>5, <1>6 DEF Once

(* Events enter a lane: answers of a command that had none, each of its    *)
(* own kind, or an event of no command.                                    *)
LEMMA LaneGains ==
  ASSUME NEW q \in Seq(Event), NEW n \in Seq(Event), NEW t, NEW r, NEW F, NEW F2,
         Once(q, t, r, F), F2 \subseteq F, Distinct(n), Without(n, F2),
         \A k \in DOMAIN n : n[k].serial \in F \/ n[k].serial = 0
  PROVE  Once(q \o n, t, r, F2)
<1>1. /\ DOMAIN q = 1 .. Len(q) /\ DOMAIN n = 1 .. Len(n) /\ Len(q) \in Nat /\ Len(n) \in Nat
      /\ DOMAIN (q \o n) = 1 .. Len(q) + Len(n)
      /\ \A k \in 1 .. Len(q) + Len(n) : (q \o n)[k] = IF k <= Len(q) THEN q[k] ELSE n[k - Len(q)]
  BY ConcatProperties, LenProperties
<1>2. \A k \in DOMAIN (q \o n) : \/ k \in DOMAIN q /\ (q \o n)[k] = q[k]
                                 \/ /\ k \notin DOMAIN q
                                    /\ k - Len(q) \in DOMAIN n
                                    /\ (q \o n)[k] = n[k - Len(q)]
  BY <1>1
<1>3. \A e, f : e.serial \notin F /\ (f.serial \in F \/ f.serial = 0) => ~Same(e, f) /\ ~Same(f, e)
  BY DEF Same
<1>4. Distinct(q \o n)
  <2> SUFFICES ASSUME NEW j \in DOMAIN (q \o n), NEW k \in DOMAIN (q \o n), j # k
               PROVE  ~Same((q \o n)[j], (q \o n)[k])
    BY DEF Distinct
  <2>1. CASE j \in DOMAIN q /\ k \in DOMAIN q
    BY <1>2, <2>1 DEF Once, Distinct
  <2>2. CASE j \in DOMAIN q /\ k \notin DOMAIN q
    BY <1>2, <1>3, <2>2 DEF Once, Without
  <2>3. CASE j \notin DOMAIN q /\ k \in DOMAIN q
    BY <1>2, <1>3, <2>3 DEF Once, Without
  <2>4. CASE j \notin DOMAIN q /\ k \notin DOMAIN q
    <3>1. j - Len(q) # k - Len(q)
      BY <1>1
    <3> QED BY <1>2, <2>4, <3>1 DEF Distinct
  <2> QED BY <2>1, <2>2, <2>3, <2>4
<1>5. Without(q \o n, F2)
  BY <1>2 DEF Once, Without
<1>6. ASSUME NEW i \in DOMAIN t PROVE Disjoint(q \o n, t[i])
  <2>1. Disjoint(q, t[i]) /\ Without(t[i], F)
    BY DEF Once
  <2> QED BY <1>2, <1>3, <2>1 DEF Disjoint, Without
<1>7. ASSUME NEW c \in DOMAIN r, r[c] # NoEvent
      PROVE  /\ r[c].serial \notin F2
             /\ \A k \in DOMAIN (q \o n) : ~Same(r[c], (q \o n)[k])
  <2>1. r[c].serial \notin F /\ \A k \in DOMAIN q : ~Same(r[c], q[k])
    BY <1>7 DEF Once
  <2> QED BY <1>2, <1>3, <2>1
<1>8. \A i \in DOMAIN t : Without(t[i], F2)
  BY DEF Once, Without
<1> QED BY <1>4, <1>5, <1>6, <1>7, <1>8 DEF Once

(* The event at the head of a lane is filed. *)
LEMMA LaneFiles ==
  ASSUME NEW q \in Seq(Event), q # <<>>, NEW I, NEW t \in [I -> Seq(Event)], NEW r, NEW F,
         NEW i \in I, Once(q, t, r, F)
  PROVE  Once(Tail(q), [t EXCEPT ![i] = Append(@, Head(q))], r, F)
<1> DEFINE t2 == [t EXCEPT ![i] = Append(@, Head(q))]
           n  == Len(t[i]) + 1
<1>1. /\ Head(q) \in Event /\ Head(q) = q[1] /\ DOMAIN q = 1 .. Len(q) /\ Len(q) \in Nat \ {0}
      /\ DOMAIN Tail(q) = 1 .. Len(q) - 1
      /\ \A k \in 1 .. Len(q) - 1 : Tail(q)[k] = q[k + 1]
  BY HeadTailProperties, LenProperties, EmptySeq
<1>2. /\ DOMAIN t2[i] = 1 .. n /\ DOMAIN t[i] = 1 .. n - 1 /\ n \in Nat \ {0}
      /\ \A k \in 1 .. n - 1 : t2[i][k] = t[i][k]
      /\ t2[i][n] = q[1]
      /\ \A j \in I : j # i => t2[j] = t[j]
      /\ DOMAIN t2 = I /\ DOMAIN t = I
  BY <1>1, AppendEntries
<1> HIDE DEF t2, n
<1>3. \A k \in DOMAIN Tail(q) : k + 1 \in DOMAIN q /\ k + 1 # 1 /\ Tail(q)[k] = q[k + 1]
  BY <1>1
<1>4. \A k \in DOMAIN t2[i] : \/ k \in DOMAIN t[i] /\ t2[i][k] = t[i][k]
                              \/ k = n /\ k \notin DOMAIN t[i] /\ t2[i][k] = q[1]
  BY <1>2
<1>5. 1 \in DOMAIN q
  BY <1>1
<1>6. Within(Tail(q), q)
  BY WithinTail
<1>7. Distinct(Tail(q)) /\ Without(Tail(q), F)
  BY <1>6, WithinKeeps DEF Once
<1>8. Distinct(t2[i])
  <2>1. \A j \in DOMAIN t[i] : ~Same(t[i][j], q[1]) /\ ~Same(q[1], t[i][j])
    BY <1>2, <1>5 DEF Once, Disjoint, Same
  <2> QED BY <1>2, <1>4, <2>1 DEF Once, Distinct
<1>9. Without(t2[i], F)
  BY <1>2, <1>4, <1>5 DEF Once, Without
<1>10. \A j \in I : Distinct(t2[j]) /\ Without(t2[j], F)
  BY <1>2, <1>8, <1>9 DEF Once
<1>11. \A j \in I : Disjoint(Tail(q), t2[j])
  <2>1. Disjoint(Tail(q), t2[i])
    <3>1. \A k \in DOMAIN Tail(q) : ~Same(Tail(q)[k], q[1])
      BY <1>3, <1>5 DEF Once, Distinct
    <3>2. \A k \in DOMAIN Tail(q), m \in DOMAIN t[i] : ~Same(Tail(q)[k], t[i][m])
      BY <1>2, <1>3 DEF Once, Disjoint
    <3> QED BY <1>4, <3>1, <3>2 DEF Disjoint
  <2>2. ASSUME NEW j \in I, j # i PROVE Disjoint(Tail(q), t2[j])
    BY <1>2, <1>3, <2>2 DEF Once, Disjoint
  <2> QED BY <2>1, <2>2
<1>12. ASSUME NEW j \in I, j # i PROVE Disjoint(t2[i], t2[j]) /\ Disjoint(t2[j], t2[i])
  <2>1. Disjoint(t[i], t[j]) /\ Disjoint(t[j], t[i]) /\ Disjoint(q, t[j])
    BY <1>2, <1>12 DEF Once
  <2>2. \A k \in DOMAIN t[j] : ~Same(q[1], t[j][k]) /\ ~Same(t[j][k], q[1])
    BY <1>5, <2>1 DEF Disjoint, Same
  <2> QED BY <1>2, <1>4, <1>12, <2>1, <2>2 DEF Disjoint
<1>13. \A j, k \in I : j # k => Disjoint(t2[j], t2[k])
  BY <1>2, <1>12 DEF Once
<1>14. ASSUME NEW c \in DOMAIN r, r[c] # NoEvent
       PROVE  /\ \A k \in DOMAIN Tail(q) : ~Same(r[c], Tail(q)[k])
              /\ \A j \in I : \A k \in DOMAIN t2[j] : ~Same(r[c], t2[j][k])
  <2>1. /\ \A k \in DOMAIN q : ~Same(r[c], q[k])
        /\ \A j \in I : \A k \in DOMAIN t[j] : ~Same(r[c], t[j][k])
    BY <1>2, <1>14 DEF Once
  <2>2. \A k \in DOMAIN t2[i] : ~Same(r[c], t2[i][k])
    BY <1>4, <1>5, <2>1
  <2> QED BY <1>2, <1>3, <2>1, <2>2
<1>15. Once(Tail(q), t2, r, F)
  <2>1. ASSUME NEW c \in DOMAIN r, r[c] # NoEvent
        PROVE  /\ r[c].serial \notin F
               /\ \A d \in DOMAIN r : d # c /\ r[d] # NoEvent => ~Same(r[c], r[d])
    BY <2>1 DEF Once
  <2> QED BY <1>2, <1>7, <1>10, <1>11, <1>13, <1>14, <2>1 DEF Once
<1> QED BY <1>15 DEF t2

(* A poll pops an entry, the result of its caller. *)
LEMMA LaneAnswers ==
  ASSUME NEW q, NEW I, NEW t \in [I -> Seq(Event)], NEW r, NEW r2, NEW F,
         NEW i \in I, NEW k \in DOMAIN t[i], NEW c \in DOMAIN r, Once(q, t, r, F),
         DOMAIN r2 = DOMAIN r, r2[c] = t[i][k], \A d \in DOMAIN r : d # c => r2[d] = r[d]
  PROVE  Once(q, [t EXCEPT ![i] = RemoveAt(@, k)], r2, F)
<1> DEFINE t2 == [t EXCEPT ![i] = RemoveAt(@, k)]
<1>1. /\ DOMAIN t2 = I /\ DOMAIN t = I /\ t2[i] = RemoveAt(t[i], k)
      /\ \A j \in I : j # i => t2[j] = t[j]
  OBVIOUS
<1>2. /\ DOMAIN t[i] = 1 .. Len(t[i]) /\ Len(t[i]) \in Nat
      /\ DOMAIN t2[i] = 1 .. Len(t[i]) - 1
      /\ \A j \in 1 .. Len(t[i]) - 1 : t2[i][j] = t[i][IF j < k THEN j ELSE j + 1]
  BY <1>1, RemoveAtEntries, LenProperties
<1>3. \A j \in I : Within(t2[j], t[j])
  BY <1>1, WithinItself, WithinRemoveAt
<1> HIDE DEF t2
<1>4. ASSUME NEW j \in DOMAIN t2[i] PROVE ~Same(t[i][k], t2[i][j])
  <2>1. (IF j < k THEN j ELSE j + 1) # k /\ (IF j < k THEN j ELSE j + 1) \in DOMAIN t[i]
    BY <1>2
  <2>2. PICK h \in DOMAIN t[i] : h # k /\ t2[i][j] = t[i][h]
    BY <1>2, <2>1
  <2>3. Distinct(t[i])
    BY <1>1 DEF Once
  <2> QED BY <2>2, <2>3 DEF Distinct
<1>5. ASSUME NEW j \in I PROVE \A h \in DOMAIN t2[j] : \E g \in DOMAIN t[j] : t2[j][h] = t[j][g]
  BY <1>3, WithinKeeps
<1>6. /\ Distinct(q) /\ Without(q, F)
      /\ \A j \in I : Distinct(t2[j]) /\ Without(t2[j], F) /\ Disjoint(q, t2[j])
      /\ \A j, h \in I : j # h => Disjoint(t2[j], t2[h])
  <2>1. /\ Distinct(q) /\ Without(q, F)
        /\ \A j \in I : Distinct(t[j]) /\ Without(t[j], F) /\ Disjoint(q, t[j])
        /\ \A j, h \in I : j # h => Disjoint(t[j], t[h])
    BY <1>1 DEF Once
  <2>2. \A j \in I : Distinct(t2[j]) /\ Without(t2[j], F)
    BY <1>3, <2>1, WithinKeeps
  <2>3. \A j \in I : Disjoint(q, t2[j])
    BY <1>5, <2>1 DEF Disjoint
  <2>4. ASSUME NEW j \in I, NEW h \in I, j # h PROVE Disjoint(t2[j], t2[h])
    <3>1. Disjoint(t[j], t[h])
      BY <2>1, <2>4
    <3> QED BY <1>5, <3>1 DEF Disjoint
  <2> QED BY <2>1, <2>2, <2>3, <2>4
<1>7. /\ t[i][k].serial \notin F
      /\ \A h \in DOMAIN q : ~Same(t[i][k], q[h])
      /\ \A j \in I : \A h \in DOMAIN t2[j] : ~Same(t[i][k], t2[j][h])
      /\ \A d \in DOMAIN r : r[d] # NoEvent => ~Same(t[i][k], r[d]) /\ ~Same(r[d], t[i][k])
  <2>1. t[i][k].serial \notin F
    BY <1>1 DEF Once, Without
  <2>2. \A h \in DOMAIN q : ~Same(t[i][k], q[h])
    BY <1>1 DEF Once, Disjoint, Same
  <2>3. ASSUME NEW j \in I, j # i PROVE \A h \in DOMAIN t2[j] : ~Same(t[i][k], t2[j][h])
    <3>1. Disjoint(t[i], t[j])
      BY <1>1, <2>3 DEF Once
    <3> QED BY <1>1, <2>3, <3>1 DEF Disjoint
  <2>4. \A d \in DOMAIN r : r[d] # NoEvent => ~Same(t[i][k], r[d]) /\ ~Same(r[d], t[i][k])
    BY <1>1 DEF Once, Same
  <2> QED BY <1>4, <2>1, <2>2, <2>3, <2>4
<1>8. ASSUME NEW d \in DOMAIN r, d # c, r[d] # NoEvent
      PROVE  /\ r[d].serial \notin F
             /\ \A h \in DOMAIN q : ~Same(r[d], q[h])
             /\ \A j \in I : \A h \in DOMAIN t2[j] : ~Same(r[d], t2[j][h])
             /\ \A f \in DOMAIN r : f # d /\ r[f] # NoEvent => ~Same(r[d], r[f])
  <2>1. /\ r[d].serial \notin F
        /\ \A h \in DOMAIN q : ~Same(r[d], q[h])
        /\ \A j \in I : \A h \in DOMAIN t[j] : ~Same(r[d], t[j][h])
        /\ \A f \in DOMAIN r : f # d /\ r[f] # NoEvent => ~Same(r[d], r[f])
    BY <1>1, <1>8 DEF Once
  <2> QED BY <1>5, <2>1
<1>9. Once(q, t2, r2, F)
  <2>1. ASSUME NEW d \in DOMAIN r2, r2[d] # NoEvent
        PROVE  /\ r2[d].serial \notin F
               /\ \A h \in DOMAIN q : ~Same(r2[d], q[h])
               /\ \A j \in I : \A h \in DOMAIN t2[j] : ~Same(r2[d], t2[j][h])
               /\ \A f \in DOMAIN r2 : f # d /\ r2[f] # NoEvent => ~Same(r2[d], r2[f])
    <3>1. CASE d = c
      BY <1>7, <3>1
    <3>2. CASE d # c
      <4>1. r2[d] = r[d] /\ d \in DOMAIN r
        BY <2>1, <3>2
      <4> QED BY <1>7, <1>8, <2>1, <3>2, <4>1
    <3> QED BY <3>1, <3>2
  <2> QED BY <1>1, <1>6, <2>1 DEF Once
<1> QED BY <1>9 DEF t2

-----------------------------------------------------------------------------
(* Serials of commands that the device has not answered. *)
Unanswered ==
  {n \in Nat : \/ n > issued
               \/ \E k \in DOMAIN toDevice : n = toDevice[k].serial
               \/ \E cmd \in capturing : n = cmd.serial
               \/ \E c \in Caller : call[c].pc = "drawn" /\ n = call[c].serial}

QueueById == IF handling = NoEvent THEN toHost ELSE <<handling>> \o toHost

ResultById == [c \in Caller |-> IF call[c].op \in Correlated THEN call[c].result ELSE NoEvent]

ResultByOpcode == [c \in Caller |-> IF call[c].op \in Correlated THEN NoEvent ELSE call[c].result]

LaneById == Once(QueueById, pending_responses, ResultById, Unanswered)

LaneByOpcode == Once(toHost, pending_events, ResultByOpcode, Unanswered)

(* Serials are drawn once and go with one command. *)
Serials ==
  /\ \A k \in DOMAIN toDevice : toDevice[k].serial \in 1 .. issued
  /\ \A j, k \in DOMAIN toDevice : j # k => toDevice[j].serial # toDevice[k].serial
  /\ \A cmd \in capturing : cmd.serial \in 1 .. issued
  /\ \A a, b \in capturing : a.serial = b.serial => a = b
  /\ \A k \in DOMAIN toDevice, cmd \in capturing : toDevice[k].serial # cmd.serial
  /\ \A c \in Caller : call[c].pc # "idle" => call[c].serial \in 1 .. issued
  /\ \A c, d \in Caller : c # d /\ call[c].pc # "idle" /\ call[d].pc # "idle"
                            => call[c].serial # call[d].serial
  /\ \A c \in Caller : call[c].pc = "drawn" =>
       /\ \A k \in DOMAIN toDevice : toDevice[k].serial # call[c].serial
       /\ \A cmd \in capturing : cmd.serial # call[c].serial

OnceInv == Serials /\ LaneById /\ LaneByOpcode

(* The queue of the lane by id is one of events. *)
LEMMA QueueByIdType == TypeOK => QueueById \in Seq(Event)
<1> SUFFICES ASSUME TypeOK PROVE QueueById \in Seq(Event)
  OBVIOUS
<1>1. toHost \in Seq(Event) /\ handling \in Event \cup {NoEvent}
  BY DEF TypeOK
<1>2. CASE handling # NoEvent
  <2>1. <<handling>> \in Seq(Event)
    BY <1>1, <1>2
  <2> QED BY <1>1, <1>2, <2>1, ConcatProperties DEF QueueById
<1> QED BY <1>1, <1>2 DEF QueueById

(* A step that leaves a lane alone, loses something of it, or makes a call *)
(* forget its result.                                                      *)
LEMMA ByIdThins ==
  ASSUME TypeOK, LaneById, Within(QueueById', QueueById), Unanswered' \subseteq Unanswered,
         DOMAIN pending_responses' = CmdId,
         \A i \in CmdId : Within(pending_responses'[i], pending_responses[i]),
         \A c \in Caller : ResultById'[c] \in {ResultById[c], NoEvent}
  PROVE  LaneById'
<1>1. /\ DOMAIN pending_responses = CmdId
      /\ DOMAIN ResultById = Caller /\ DOMAIN ResultById' = Caller
  BY DEF TypeOK, ResultById
<1> QED BY <1>1, LaneThins DEF LaneById

LEMMA ByOpcodeThins ==
  ASSUME TypeOK, LaneByOpcode, Within(toHost', toHost), Unanswered' \subseteq Unanswered,
         DOMAIN pending_events' = Polled,
         \A o \in Polled : Within(pending_events'[o], pending_events[o]),
         \A c \in Caller : ResultByOpcode'[c] \in {ResultByOpcode[c], NoEvent}
  PROVE  LaneByOpcode'
<1>1. /\ DOMAIN pending_events = Polled
      /\ DOMAIN ResultByOpcode = Caller /\ DOMAIN ResultByOpcode' = Caller
  BY DEF TypeOK, ResultByOpcode
<1> QED BY <1>1, LaneThins DEF LaneByOpcode

(* Drawing an id: the serial is new, and no answer of it exists. *)
LEMMA DrawSerials ==
  ASSUME TypeOK, Serials, NEW c \in Caller, NEW op, NEW stage, NEW g, Draw(c, op, stage, g),
         UNCHANGED <<toDevice, capturing>>
  PROVE  Serials' /\ Unanswered' \subseteq Unanswered
<1>1. /\ issued \in Nat /\ issued' = issued + 1
      /\ \A d \in Caller : d # c => call'[d] = call[d]
      /\ call'[c].pc = "drawn" /\ call'[c].serial = issued + 1
  BY DEF TypeOK, Draw
<1>2. /\ \A k \in DOMAIN toDevice : toDevice[k].serial \in 1 .. issued
      /\ \A cmd \in capturing : cmd.serial \in 1 .. issued
      /\ \A d \in Caller : call[d].pc # "idle" => call[d].serial \in 1 .. issued
  BY DEF Serials
<1>3. \A n \in 1 .. issued : n \in 1 .. issued' /\ n # issued + 1
  BY <1>1
<1>4. ASSUME NEW d \in Caller
      PROVE  /\ call'[d].pc # "idle" => call'[d].serial \in 1 .. issued'
             /\ call'[d].pc = "drawn" =>
                  /\ \A k \in DOMAIN toDevice : toDevice[k].serial # call'[d].serial
                  /\ \A cmd \in capturing : cmd.serial # call'[d].serial
             /\ \A f \in Caller : /\ d # f
                                  /\ call'[d].pc # "idle"
                                  /\ call'[f].pc # "idle"
                                  => call'[d].serial # call'[f].serial
  <2>1. CASE d = c
    BY <1>1, <1>2, <1>3, <2>1
  <2>2. CASE d # c
    BY <1>1, <1>2, <1>3, <2>2 DEF Serials
  <2> QED BY <2>1, <2>2
<1>5. Serials'
  BY <1>2, <1>3, <1>4 DEF Serials
<1>6. ASSUME NEW n \in Unanswered' PROVE n \in Unanswered
  <2>1. CASE \E d \in Caller : call'[d].pc = "drawn" /\ n = call'[d].serial
    BY <1>1, <1>6, <2>1 DEF Unanswered
  <2>2. CASE n > issued'
    BY <1>1, <1>6, <2>2 DEF Unanswered
  <2> QED BY <1>6, <2>1, <2>2 DEF Unanswered
<1> QED BY <1>5, <1>6

(* A command sent takes over the serial of its caller. *)
LEMMA SendSerials ==
  ASSUME TypeOK, Serials, NEW c \in Caller, Send(c)
  PROVE  Serials' /\ Unanswered' \subseteq Unanswered
<1>1. /\ issued' = issued /\ capturing' = capturing
      /\ call[c].pc = "drawn"
      /\ \A d \in Caller : call'[d].serial = call[d].serial
      /\ \A d \in Caller : d # c => call'[d] = call[d]
      /\ call'[c].pc = "waiting"
  BY DEF Send, TypeOK, Call
<1>2. PICK cmd \in Command : toDevice' = Append(toDevice, cmd) /\ cmd.serial = call[c].serial
  <2> DEFINE new == [kind |-> KindOf(call[c]), id |-> call[c].id, gpio |-> call[c].gpio,
                     serial |-> call[c].serial]
  <2>1. KindOf(call[c]) \in CmdKind
    BY DEF TypeOK, KindOf, Call, CmdKind, AllOps, Stage
  <2>2. new \in Command /\ new.serial = call[c].serial
    BY <2>1 DEF TypeOK, Call, Command
  <2>3. toDevice' = Append(toDevice, new)
    BY DEF Send
  <2> HIDE DEF new
  <2> QED BY <2>2, <2>3
<1>3. toDevice \in Seq(Command)
  BY DEF TypeOK
<1>4. \A k \in DOMAIN toDevice' : \/ k \in DOMAIN toDevice /\ toDevice'[k] = toDevice[k]
                                  \/ /\ k = Len(toDevice) + 1
                                     /\ k \notin DOMAIN toDevice
                                     /\ toDevice'[k] = cmd
  BY <1>2, <1>3, AppendEntries
<1>5. \A k \in DOMAIN toDevice' : toDevice'[k].serial \in 1 .. issued'
  BY <1>1, <1>2, <1>4 DEF Serials
<1>6. \A k \in DOMAIN toDevice : toDevice[k].serial # cmd.serial
  BY <1>1, <1>2 DEF Serials
<1>7. \A j, k \in DOMAIN toDevice' : j # k => toDevice'[j].serial # toDevice'[k].serial
  BY <1>4, <1>6 DEF Serials
<1>8. \A k \in DOMAIN toDevice', a \in capturing : toDevice'[k].serial # a.serial
  BY <1>1, <1>2, <1>4 DEF Serials
<1>9. ASSUME NEW d \in Caller, call'[d].pc = "drawn"
      PROVE  \A k \in DOMAIN toDevice' : toDevice'[k].serial # call'[d].serial
  <2>1. d # c /\ call[d].pc = "drawn"
    BY <1>1, <1>9
  <2>2. call[d].serial # cmd.serial
    BY <1>1, <1>2, <2>1 DEF Serials
  <2> QED BY <1>1, <1>4, <2>1, <2>2 DEF Serials
<1>10. \A d \in Caller : /\ call'[d].pc # "idle" => call[d].pc # "idle"
                         /\ call'[d].pc = "drawn" => call[d].pc = "drawn"
  BY <1>1
<1>11. Serials'
  BY <1>1, <1>5, <1>7, <1>8, <1>9, <1>10 DEF Serials
<1>12. \A n \in Unanswered' : n \in Unanswered
  BY <1>1, <1>2, <1>4, <1>10 DEF Unanswered
<1> QED BY <1>11, <1>12

(* Steps of the other parts: commands are lost at most, and callers end    *)
(* their waits and calls.                                                  *)
LEMMA OtherSerials ==
  ASSUME TypeOK, Serials, UNCHANGED <<issued, capturing>>, Within(toDevice', toDevice),
         \A c \in Caller : /\ call'[c].serial = call[c].serial
                           /\ call'[c].pc # "idle" => call[c].pc # "idle"
                           /\ call'[c].pc = "drawn" => call[c].pc = "drawn"
  PROVE  Serials' /\ Unanswered' \subseteq Unanswered
<1>1. PICK f \in [DOMAIN toDevice' -> DOMAIN toDevice] :
        /\ \A k \in DOMAIN toDevice' : toDevice'[k] = toDevice[f[k]]
        /\ \A j, k \in DOMAIN toDevice' : j # k => f[j] # f[k]
  BY DEF Within
<1>2. Serials'
  BY <1>1 DEF Serials
<1>3. \A n \in Unanswered' : n \in Unanswered
  BY <1>1 DEF Unanswered
<1> QED BY <1>2, <1>3

(* The device takes a command, or puts it to the signal tasks. *)
LEMMA DispatchSerials ==
  ASSUME TypeOK, Serials, toDevice # <<>>, toDevice' = Tail(toDevice), UNCHANGED <<issued, call>>,
         capturing' \in {capturing, capturing \cup {Head(toDevice)}}
  PROVE  /\ Serials'
         /\ Unanswered' \subseteq Unanswered
         /\ Head(toDevice).serial \in Unanswered
         /\ capturing' = capturing => Head(toDevice).serial \notin Unanswered'
<1> DEFINE cmd == Head(toDevice)
<1>0. toDevice \in Seq(Command)
  BY DEF TypeOK
<1>1. /\ DOMAIN toDevice = 1 .. Len(toDevice) /\ Len(toDevice) \in Nat \ {0}
      /\ cmd = toDevice[1] /\ cmd \in Command
      /\ \A k \in DOMAIN toDevice' : /\ k + 1 \in DOMAIN toDevice /\ k + 1 # 1
                                     /\ toDevice'[k] = toDevice[k + 1]
      /\ \A j, k \in DOMAIN toDevice' : j # k => j + 1 # k + 1
  <2>1. /\ DOMAIN toDevice = 1 .. Len(toDevice) /\ Len(toDevice) \in Nat \ {0}
        /\ Tail(toDevice) \in Seq(Command) /\ Len(Tail(toDevice)) = Len(toDevice) - 1
        /\ \A k \in 1 .. Len(toDevice) - 1 : Tail(toDevice)[k] = toDevice[k + 1]
        /\ cmd \in Command
    BY <1>0, HeadTailProperties, LenProperties, EmptySeq
  <2>2. DOMAIN toDevice' = 1 .. Len(toDevice) - 1
    BY <2>1, LenProperties
  <2> QED BY <1>0, <2>1, <2>2
<1> HIDE DEF cmd
<1>2. 1 \in DOMAIN toDevice /\ cmd.serial \in Nat
  BY <1>1 DEF Command
<1>3. /\ \A k \in DOMAIN toDevice' : toDevice'[k].serial # cmd.serial
      /\ \A k \in DOMAIN toDevice' : toDevice'[k].serial \in 1 .. issued
      /\ \A j, k \in DOMAIN toDevice' : j # k => toDevice'[j].serial # toDevice'[k].serial
  BY <1>1, <1>2 DEF Serials
<1>4. /\ \A a \in capturing : a.serial # cmd.serial
      /\ \A c \in Caller : call[c].pc = "drawn" => call[c].serial # cmd.serial
      /\ cmd.serial \in 1 .. issued
  BY <1>1, <1>2 DEF Serials
<1>5. /\ \A a \in capturing' : a.serial \in 1 .. issued
      /\ \A a, b \in capturing' : a.serial = b.serial => a = b
      /\ \A k \in DOMAIN toDevice', a \in capturing' : toDevice'[k].serial # a.serial
  <2>1. \A a \in capturing' : a \in capturing \/ a = cmd
    BY DEF cmd
  <2> QED BY <1>1, <1>3, <1>4, <2>1 DEF Serials
<1>6. \A c \in Caller : call[c].pc = "drawn" =>
        /\ \A k \in DOMAIN toDevice' : toDevice'[k].serial # call[c].serial
        /\ \A a \in capturing' : a.serial # call[c].serial
  <2>1. \A a \in capturing' : a \in capturing \/ a = cmd
    BY DEF cmd
  <2> QED BY <1>1, <1>4, <2>1 DEF Serials
<1>7. Serials'
  BY <1>3, <1>5, <1>6 DEF Serials
<1>8. \A n \in Unanswered' : n \in Unanswered
  <2>1. \A a \in capturing' : a \in capturing \/ a = toDevice[1]
    BY <1>1 DEF cmd
  <2> QED BY <1>1, <1>2, <2>1 DEF Unanswered
<1>9. cmd.serial \in Unanswered
  BY <1>1, <1>2 DEF Unanswered
<1>10. capturing' = capturing => cmd.serial \notin Unanswered'
  <2>1. issued \in Nat /\ ~(cmd.serial > issued)
    BY <1>4 DEF TypeOK
  <2> QED BY <1>3, <1>4, <2>1 DEF Unanswered
<1> QED BY <1>7, <1>8, <1>9, <1>10 DEF cmd

(* A signal task is done with its command. *)
LEMMA FinishSerials ==
  ASSUME TypeOK, Serials, NEW cmd \in capturing, capturing' = capturing \ {cmd},
         UNCHANGED <<issued, call, toDevice>>
  PROVE  /\ Serials'
         /\ Unanswered' \subseteq Unanswered
         /\ cmd.serial \in Unanswered
         /\ cmd.serial \notin Unanswered'
<1>1. cmd.serial \in Nat /\ issued \in Nat
  BY DEF TypeOK, Command
<1>2. Serials'
  BY DEF Serials
<1>3. cmd.serial \in Unanswered /\ Unanswered' \subseteq Unanswered
  BY <1>1 DEF Unanswered
<1>4. /\ ~(cmd.serial > issued)
      /\ \A k \in DOMAIN toDevice : cmd.serial # toDevice[k].serial
      /\ \A a \in capturing' : cmd.serial # a.serial
      /\ \A c \in Caller : call[c].pc = "drawn" => cmd.serial # call[c].serial
  <2>1. cmd.serial \in 1 .. issued
    BY DEF Serials
  <2> QED BY <1>1, <2>1 DEF Serials
<1> QED BY <1>2, <1>3, <1>4 DEF Unanswered

(* Events set out for the host: each lane gains them. *)
LEMMA LanesGain ==
  ASSUME TypeOK, LaneById, LaneByOpcode, Unanswered' \subseteq Unanswered,
         NEW n \in Seq(Event), toHost' = toHost \o n, Distinct(n), Without(n, Unanswered'),
         \A k \in DOMAIN n : n[k].serial \in Unanswered \/ n[k].serial = 0,
         UNCHANGED <<handling, pending_responses, pending_events, call>>
  PROVE  LaneById' /\ LaneByOpcode'
<1>1. /\ toHost \in Seq(Event) /\ QueueById \in Seq(Event)
      /\ ResultById' = ResultById /\ ResultByOpcode' = ResultByOpcode
  BY QueueByIdType DEF TypeOK, ResultById, ResultByOpcode
<1>2. QueueById' = QueueById \o n
  <2>1. CASE handling = NoEvent
    BY <2>1 DEF QueueById
  <2>2. CASE handling # NoEvent
    <3>1. <<handling>> \in Seq(Event)
      BY <2>2 DEF TypeOK
    <3>2. (<<handling>> \o toHost) \o n = <<handling>> \o (toHost \o n)
      BY <1>1, <3>1, ConcatAssociative
    <3> QED BY <2>2, <3>2 DEF QueueById
  <2> QED BY <2>1, <2>2
<1>3. Once(QueueById', pending_responses, ResultById, Unanswered')
  BY <1>1, <1>2, LaneGains DEF LaneById
<1>4. Once(toHost', pending_events, ResultByOpcode, Unanswered')
  BY <1>1, LaneGains DEF LaneByOpcode
<1> QED BY <1>1, <1>3, <1>4 DEF LaneById, LaneByOpcode

(* The answers to a command that had none: one, or two of different kinds. *)
LEMMA AnswersGain ==
  ASSUME TypeOK, LaneById, LaneByOpcode, Unanswered' \subseteq Unanswered,
         NEW cmd \in Command, cmd.serial \in Unanswered, cmd.serial \notin Unanswered',
         NEW op \in Opcode, NEW code \in ErrCode \cup {NoError}, op # "ack",
         \/ toHost' = Append(toHost, Answer(cmd, op, code))
         \/ toHost' = Append(toHost, Answer(cmd, "ack", NoError))
         \/ toHost' = toHost \o <<Answer(cmd, op, code), Answer(cmd, "ack", NoError)>>
         \/ toHost' = toHost \o <<Answer(cmd, "ack", NoError), Answer(cmd, op, code)>>,
         UNCHANGED <<handling, pending_responses, pending_events, call>>
  PROVE  LaneById' /\ LaneByOpcode'
<1> DEFINE a == Answer(cmd, op, code)
           b == Answer(cmd, "ack", NoError)
<1>1. a \in Event /\ b \in Event /\ toHost \in Seq(Event)
  BY AnswerType DEF TypeOK, Opcode
<1>2. a.serial = cmd.serial /\ b.serial = cmd.serial /\ a.op = op /\ b.op = "ack"
  BY DEF Answer
<1> HIDE DEF a, b
<1>3. Append(toHost, a) = toHost \o <<a>> /\ Append(toHost, b) = toHost \o <<b>>
  BY <1>1, AppendIsConcat
<1>4. PICK n \in {<<a>>, <<b>>, <<a, b>>, <<b, a>>} : toHost' = toHost \o n
  BY <1>3 DEF a, b
<1>5. n \in Seq(Event)
  <2>1. <<a>> \in Seq(Event) /\ <<b>> \in Seq(Event)
    BY <1>1
  <2>2. <<a, b>> \in Seq(Event) /\ <<b, a>> \in Seq(Event)
    BY <1>1
  <2> QED BY <1>4, <2>1, <2>2
<1>6. Distinct(n)
  BY <1>2, <1>4 DEF Distinct, Same
<1>7. \A k \in DOMAIN n : n[k].serial = cmd.serial
  BY <1>2, <1>4
<1> QED BY <1>4, <1>5, <1>6, <1>7, LanesGain DEF Without

(* What a poll or a deadline leaves of the lanes. *)
LEMMA ConcludeCalls ==
  ASSUME TypeOK, NEW c \in Caller, NEW r \in Event \cup {NoEvent}, Conclude(c, r),
         call[c].pc = "waiting"
  PROVE  /\ \A d \in Caller : /\ call'[d].serial = call[d].serial
                              /\ call'[d].pc # "idle" => call[d].pc # "idle"
                              /\ call'[d].pc = "drawn" => call[d].pc = "drawn"
                              /\ call'[d].op = call[d].op
                              /\ d # c => call'[d].result = call[d].result
         /\ call'[c].result = r
<1>1. \A d \in Caller : d # c => call'[d] = call[d]
  BY ConcludeEffect
<1>2. PICK p \in {"retry", "report"} : call'[c] = [call[c] EXCEPT !.pc = p, !.result = r]
  BY ConcludeEffect
<1>3. /\ call'[c].pc = p /\ call'[c].result = r
      /\ call'[c].serial = call[c].serial /\ call'[c].op = call[c].op
  <2>1. call[c] \in Call
    BY DEF TypeOK
  <2> QED BY <1>2, <2>1 DEF Call
<1> QED BY <1>1, <1>3

(* A lane with fewer serials to keep clear of. *)
LEMMA OnceFewer ==
  ASSUME NEW q, NEW t, NEW r, NEW F, NEW F2, F2 \subseteq F, Once(q, t, r, F)
  PROVE  Once(q, t, r, F2)
  BY DEF Once, Without

(* One more entry in front. *)
LEMMA InFront ==
  ASSUME NEW S, NEW s \in Seq(S), NEW e \in S
  PROVE  /\ <<e>> \o s \in Seq(S) /\ <<e>> \o s # <<>>
         /\ Head(<<e>> \o s) = e /\ Tail(<<e>> \o s) = s
         /\ DOMAIN (<<e>> \o s) = 1 .. Len(s) + 1 /\ DOMAIN s = 1 .. Len(s) /\ Len(s) \in Nat
         /\ (<<e>> \o s)[1] = e /\ \A k \in 1 .. Len(s) : (<<e>> \o s)[k + 1] = s[k]
<1> DEFINE w == <<e>> \o s
<1>1. /\ <<e>> \in Seq(S) /\ Len(<<e>>) = 1 /\ <<e>>[1] = e
      /\ DOMAIN s = 1 .. Len(s) /\ Len(s) \in Nat
  BY LenProperties
<1>2. /\ w \in Seq(S) /\ Len(w) = Len(s) + 1
      /\ \A k \in 1 .. Len(s) + 1 : w[k] = IF k <= 1 THEN <<e>>[k] ELSE s[k - 1]
  BY <1>1, ConcatProperties
<1> HIDE DEF w
<1>3. w[1] = e /\ \A k \in 1 .. Len(s) : w[k + 1] = s[k]
  BY <1>1, <1>2
<1>4. DOMAIN w = 1 .. Len(s) + 1 /\ w # <<>>
  BY <1>1, <1>2, LenProperties, EmptySeq
<1>5. Head(w) = e
  BY <1>2, <1>3, <1>4
<1>6. Tail(w) = s
  <2>1. Tail(w) \in Seq(S) /\ Len(Tail(w)) = Len(s) /\ \A k \in 1 .. Len(s) : Tail(w)[k] = w[k + 1]
    BY <1>1, <1>2, <1>4, HeadTailProperties
  <2> QED BY <1>1, <1>3, <2>1, SeqEqual
<1> QED BY <1>1, <1>2, <1>3, <1>4, <1>5, <1>6 DEF w

LEMMA WithinInFront ==
  ASSUME NEW S, NEW s \in Seq(S), NEW t \in Seq(S), NEW e \in S, Within(t, s)
  PROVE  Within(<<e>> \o t, <<e>> \o s)
<1> DEFINE v == <<e>> \o t
           w == <<e>> \o s
<1>1. PICK f \in [DOMAIN t -> DOMAIN s] :
        /\ \A k \in DOMAIN t : t[k] = s[f[k]]
        /\ \A j, k \in DOMAIN t : j # k => f[j] # f[k]
  BY DEF Within
<1>2. /\ DOMAIN v = 1 .. Len(t) + 1 /\ DOMAIN t = 1 .. Len(t) /\ Len(t) \in Nat
      /\ v[1] = e /\ \A k \in 1 .. Len(t) : v[k + 1] = t[k]
  BY InFront
<1>3. /\ DOMAIN w = 1 .. Len(s) + 1 /\ DOMAIN s = 1 .. Len(s) /\ Len(s) \in Nat
      /\ w[1] = e /\ \A k \in 1 .. Len(s) : w[k + 1] = s[k]
  BY InFront
<1> HIDE DEF v, w
<1> DEFINE g == [k \in DOMAIN v |-> IF k = 1 THEN 1 ELSE f[k - 1] + 1]
<1>4. \A k \in DOMAIN v : k # 1 => k - 1 \in DOMAIN t /\ v[k] = t[k - 1] /\ f[k - 1] \in 1 .. Len(s)
  <2> TAKE k \in DOMAIN v
  <2> HAVE k # 1
  <2>1. k - 1 \in 1 .. Len(t) /\ (k - 1) + 1 = k
    BY <1>2
  <2> QED BY <1>1, <1>2, <1>3, <2>1
<1>5. g \in [DOMAIN v -> DOMAIN w]
  BY <1>3, <1>4
<1>6. \A k \in DOMAIN v : v[k] = w[g[k]]
  BY <1>1, <1>2, <1>3, <1>4
<1>7. ASSUME NEW j \in DOMAIN v, NEW k \in DOMAIN v, j # k PROVE g[j] # g[k]
  <2>1. CASE j = 1 \/ k = 1
    BY <1>4, <1>7, <2>1
  <2>2. CASE j # 1 /\ k # 1
    <3>1. j - 1 # k - 1
      BY <1>2, <1>7
    <3>2. f[j - 1] # f[k - 1] /\ f[j - 1] \in 1 .. Len(s) /\ f[k - 1] \in 1 .. Len(s)
      BY <1>1, <1>4, <2>2, <3>1
    <3> QED BY <2>2, <3>2
  <2> QED BY <2>1, <2>2
<1> HIDE DEF g
<1>8. Within(v, w)
  BY <1>5, <1>6, <1>7 DEF Within
<1> QED BY <1>8 DEF v, w

(* Every step keeps the lanes clean. *)
LEMMA OnceStep == TypeOK /\ OnceInv /\ [Next]_vars => OnceInv'
<1> SUFFICES ASSUME TypeOK, OnceInv, [Next]_vars PROVE OnceInv'
  OBVIOUS
<1> USE DEF vars, hostVars, tableVars, deviceVars, linkVars
<1>a. /\ Serials /\ LaneById /\ LaneByOpcode
      /\ toHost \in Seq(Event) /\ toDevice \in Seq(Command) /\ QueueById \in Seq(Event)
      /\ pending_responses \in [CmdId -> Seq(Event)] /\ pending_events \in [Polled -> Seq(Event)]
      /\ handling \in Event \cup {NoEvent}
  BY QueueByIdType DEF OnceInv, TypeOK
<1>b. /\ Within(toHost, toHost) /\ Within(QueueById, QueueById) /\ Within(toDevice, toDevice)
      /\ \A i \in CmdId : /\ Within(pending_responses[i], pending_responses[i])
                          /\ Within(<<>>, pending_responses[i])
      /\ \A o \in Polled : /\ Within(pending_events[o], pending_events[o])
                           /\ Within(<<>>, pending_events[o])
  BY <1>a, WithinItself
<1>c. /\ DOMAIN pending_responses = CmdId /\ DOMAIN pending_events = Polled
      /\ DOMAIN ResultById = Caller /\ DOMAIN ResultByOpcode = Caller
  BY <1>a DEF ResultById, ResultByOpcode
<1>1. ASSUME NEW c \in Caller, NEW op, NEW stage, NEW g, Draw(c, op, stage, g),
             UNCHANGED <<tableVars, deviceVars>>
      PROVE  OnceInv'
  <2>1. Serials' /\ Unanswered' \subseteq Unanswered
    BY <1>1, <1>a, DrawSerials
  <2>2. call'[c].result = NoEvent /\ \A d \in Caller : d # c => call'[d] = call[d]
    BY <1>1 DEF Draw, TypeOK
  <2>3. \A d \in Caller : /\ ResultById'[d] \in {ResultById[d], NoEvent}
                          /\ ResultByOpcode'[d] \in {ResultByOpcode[d], NoEvent}
    BY <2>2 DEF ResultById, ResultByOpcode
  <2>4. QueueById' = QueueById
    BY <1>1 DEF QueueById
  <2> QED BY <1>1, <1>a, <1>b, <1>c, <2>1, <2>3, <2>4, ByIdThins, ByOpcodeThins DEF OnceInv
<1>2. ASSUME Serials', Unanswered' \subseteq Unanswered,
             \A d \in Caller : call'[d].op = call[d].op /\ call'[d].result = call[d].result
      PROVE  /\ \A d \in Caller : /\ ResultById'[d] \in {ResultById[d], NoEvent}
                                  /\ ResultByOpcode'[d] \in {ResultByOpcode[d], NoEvent}
             /\ UNCHANGED <<tableVars, toHost>> => OnceInv'
  <2>1. \A d \in Caller : /\ ResultById'[d] \in {ResultById[d], NoEvent}
                          /\ ResultByOpcode'[d] \in {ResultByOpcode[d], NoEvent}
    BY <1>2 DEF ResultById, ResultByOpcode
  <2>2. UNCHANGED <<tableVars, toHost>> => QueueById' = QueueById
    BY DEF QueueById
  <2> QED BY <1>2, <1>a, <1>b, <1>c, <2>1, <2>2, ByIdThins, ByOpcodeThins DEF OnceInv
<1>3. ASSUME UNCHANGED <<issued, capturing, toDevice, call>>
      PROVE  /\ Serials' /\ Unanswered' \subseteq Unanswered
             /\ ResultById' = ResultById /\ ResultByOpcode' = ResultByOpcode
  BY <1>3, <1>a, <1>b, OtherSerials DEF ResultById, ResultByOpcode
<1>4. ASSUME NEW c \in Caller, Send(c) PROVE OnceInv'
  <2>1. Serials' /\ Unanswered' \subseteq Unanswered
    BY <1>4, <1>a, SendSerials
  <2>2. \A d \in Caller : call'[d].op = call[d].op /\ call'[d].result = call[d].result
    BY <1>4 DEF Send, TypeOK, Call
  <2> QED BY <1>2, <1>4, <2>1, <2>2 DEF Send
<1>5. ASSUME NEW c \in Caller, SendRefused(c) \/ Report(c) PROVE OnceInv'
  <2>1. \A d \in Caller : /\ call'[d].serial = call[d].serial
                          /\ call'[d].op = call[d].op /\ call'[d].result = call[d].result
                          /\ call'[d].pc # "idle" => call[d].pc # "idle"
                          /\ call'[d].pc = "drawn" => call[d].pc = "drawn"
    <3>1. CASE SendRefused(c)
      BY <3>1 DEF SendRefused, TypeOK, Call
    <3>2. CASE Report(c)
      BY <3>2 DEF Report, TypeOK, Call
    <3> QED BY <1>5, <3>1, <3>2
  <2>2. UNCHANGED <<issued, toDevice, capturing, tableVars, toHost>>
    BY <1>5 DEF SendRefused, Report
  <2>3. Serials' /\ Unanswered' \subseteq Unanswered
    BY <1>a, <1>b, <2>1, <2>2, OtherSerials
  <2> QED BY <1>2, <2>1, <2>2, <2>3
<1>6. ASSUME NEW c \in Caller, TakeResponse(c) PROVE OnceInv'
  <2> DEFINE i == call[c].id
  <2>1. PICK k \in DOMAIN pending_responses[i] :
          /\ Conclude(c, pending_responses[i][k])
          /\ pending_responses' = [pending_responses EXCEPT ![i] = RemoveAt(@, k)]
    BY <1>6 DEF TakeResponse
  <2>2. i \in CmdId /\ pending_responses[i][k] \in Event
    <3>1. i \in CmdId /\ pending_responses[i] \in Seq(Event)
      BY <1>a DEF TypeOK, Call
    <3> QED BY <3>1, ElementOfSeq, LenProperties
  <2> HIDE DEF i
  <2>3. /\ UNCHANGED <<issued, toDevice, capturing, toHost, pending_events, handling>>
        /\ call[c].pc = "waiting" /\ call[c].op \in Correlated
    BY <1>6 DEF TakeResponse
  <2>4. /\ \A d \in Caller : /\ call'[d].serial = call[d].serial
                             /\ call'[d].pc # "idle" => call[d].pc # "idle"
                             /\ call'[d].pc = "drawn" => call[d].pc = "drawn"
                             /\ call'[d].op = call[d].op
                             /\ d # c => call'[d].result = call[d].result
        /\ call'[c].result = pending_responses[i][k]
    BY <2>1, <2>2, <2>3, ConcludeCalls
  <2>5. Serials' /\ Unanswered' \subseteq Unanswered
    BY <1>a, <1>b, <2>3, <2>4, OtherSerials
  <2>6. /\ DOMAIN ResultById' = Caller
        /\ ResultById'[c] = pending_responses[i][k]
        /\ \A d \in Caller : d # c => ResultById'[d] = ResultById[d]
        /\ \A d \in Caller : ResultByOpcode'[d] \in {ResultByOpcode[d], NoEvent}
        /\ QueueById' = QueueById
    BY <2>3, <2>4 DEF ResultById, ResultByOpcode, QueueById
  <2>7. Once(QueueById, pending_responses', ResultById', Unanswered)
    BY <1>a, <1>c, <2>1, <2>2, <2>6, LaneAnswers DEF LaneById
  <2>8. LaneById'
    BY <2>5, <2>6, <2>7, OnceFewer DEF LaneById
  <2> QED BY <1>a, <1>b, <1>c, <2>3, <2>5, <2>6, <2>8, ByOpcodeThins DEF OnceInv
<1>7. ASSUME NEW c \in Caller, TakeEvent(c) PROVE OnceInv'
  <2> DEFINE o == OpcodePolled(call[c].op)
  <2>1. PICK k \in DOMAIN pending_events[o] :
          /\ Conclude(c, pending_events[o][k])
          /\ pending_events' = [pending_events EXCEPT ![o] = RemoveAt(@, k)]
    BY <1>7 DEF TakeEvent
  <2>2. o \in Polled /\ pending_events[o][k] \in Event
    <3>1. o \in Polled /\ pending_events[o] \in Seq(Event)
      BY <1>a DEF OpcodePolled, Polled
    <3> QED BY <3>1, ElementOfSeq, LenProperties
  <2> HIDE DEF o
  <2>3. /\ UNCHANGED <<issued, toDevice, capturing, toHost, pending_responses, handling>>
        /\ call[c].pc = "waiting" /\ call[c].op \notin Correlated
    BY <1>7 DEF TakeEvent
  <2>4. /\ \A d \in Caller : /\ call'[d].serial = call[d].serial
                             /\ call'[d].pc # "idle" => call[d].pc # "idle"
                             /\ call'[d].pc = "drawn" => call[d].pc = "drawn"
                             /\ call'[d].op = call[d].op
                             /\ d # c => call'[d].result = call[d].result
        /\ call'[c].result = pending_events[o][k]
    BY <2>1, <2>2, <2>3, ConcludeCalls
  <2>5. Serials' /\ Unanswered' \subseteq Unanswered
    BY <1>a, <1>b, <2>3, <2>4, OtherSerials
  <2>6. /\ DOMAIN ResultByOpcode' = Caller
        /\ ResultByOpcode'[c] = pending_events[o][k]
        /\ \A d \in Caller : d # c => ResultByOpcode'[d] = ResultByOpcode[d]
        /\ \A d \in Caller : ResultById'[d] \in {ResultById[d], NoEvent}
        /\ QueueById' = QueueById
    BY <2>3, <2>4 DEF ResultById, ResultByOpcode, QueueById
  <2>7. Once(toHost, pending_events', ResultByOpcode', Unanswered)
    BY <1>a, <1>c, <2>1, <2>2, <2>6, LaneAnswers DEF LaneByOpcode
  <2>8. LaneByOpcode'
    BY <2>3, <2>5, <2>7, OnceFewer DEF LaneByOpcode
  <2> QED BY <1>a, <1>b, <1>c, <2>3, <2>5, <2>6, <2>8, ByIdThins DEF OnceInv
<1>8. ASSUME NEW c \in Caller, Timeout(c) PROVE OnceInv'
  <2>1. /\ call[c].pc = "waiting" /\ Conclude(c, NoEvent)
        /\ UNCHANGED <<issued, toDevice, capturing, toHost, tableVars>>
    BY <1>8 DEF Timeout
  <2>2. /\ \A d \in Caller : /\ call'[d].serial = call[d].serial
                             /\ call'[d].pc # "idle" => call[d].pc # "idle"
                             /\ call'[d].pc = "drawn" => call[d].pc = "drawn"
                             /\ call'[d].op = call[d].op
                             /\ d # c => call'[d].result = call[d].result
        /\ call'[c].result = NoEvent
    BY <2>1, ConcludeCalls
  <2>3. Serials' /\ Unanswered' \subseteq Unanswered
    BY <1>a, <1>b, <2>1, <2>2, OtherSerials
  <2>4. /\ \A d \in Caller : /\ ResultById'[d] \in {ResultById[d], NoEvent}
                             /\ ResultByOpcode'[d] \in {ResultByOpcode[d], NoEvent}
        /\ QueueById' = QueueById
    BY <2>1, <2>2 DEF ResultById, ResultByOpcode, QueueById
  <2> QED BY <1>a, <1>b, <1>c, <2>1, <2>3, <2>4, ByIdThins, ByOpcodeThins DEF OnceInv
<1>9. ASSUME FileByOpcode PROVE OnceInv'
  <2>1. /\ handling = NoEvent /\ toHost # <<>>
        /\ handling' = Head(toHost) /\ toHost' = Tail(toHost)
        /\ UNCHANGED <<issued, capturing, toDevice, call, pending_responses>>
    BY <1>9 DEF FileByOpcode
  <2>2. /\ Serials' /\ Unanswered' \subseteq Unanswered
        /\ ResultById' = ResultById /\ ResultByOpcode' = ResultByOpcode
    BY <1>3, <2>1
  <2>3. /\ Head(toHost) \in Event /\ Tail(toHost) \in Seq(Event)
        /\ Within(Tail(toHost), toHost)
    BY <1>a, <2>1, HeadTailProperties, WithinTail
  <2>4. Within(QueueById', QueueById)
    <3>1. QueueById = toHost
      BY <2>1 DEF QueueById
    <3>2. <<Head(toHost)>> \o Tail(toHost) = toHost
      BY <1>a, <2>1, <2>3
    <3>3. QueueById' \in {toHost, Tail(toHost)}
      BY <2>1, <3>2 DEF QueueById
    <3> QED BY <1>b, <2>3, <3>1, <3>3
  <2>5. LaneById'
    BY <1>a, <1>b, <1>c, <2>1, <2>2, <2>4, ByIdThins
  <2>6. CASE Head(toHost).op \notin Polled
    <3>1. pending_events' = pending_events
      BY <1>9, <2>6 DEF FileByOpcode
    <3>2. LaneByOpcode'
      BY <1>a, <1>b, <1>c, <2>1, <2>2, <2>3, <3>1, ByOpcodeThins
    <3> QED BY <2>2, <2>5, <3>2 DEF OnceInv
  <2>7. CASE Head(toHost).op \in Polled
    <3>1. pending_events' = [pending_events EXCEPT ![Head(toHost).op] = Append(@, Head(toHost))]
      BY <1>9, <2>7 DEF FileByOpcode
    <3>2. Once(toHost', pending_events', ResultByOpcode, Unanswered)
      BY <1>a, <2>1, <2>7, <3>1, LaneFiles DEF LaneByOpcode
    <3>3. LaneByOpcode'
      BY <2>2, <3>2, OnceFewer DEF LaneByOpcode
    <3> QED BY <2>2, <2>5, <3>3 DEF OnceInv
  <2> QED BY <2>6, <2>7
<1>10. ASSUME FileById PROVE OnceInv'
  <2>1. /\ handling # NoEvent /\ handling' = NoEvent /\ handling \in Event
        /\ UNCHANGED <<issued, capturing, toDevice, call, pending_events, toHost>>
    BY <1>10, <1>a DEF FileById
  <2>2. /\ Serials' /\ Unanswered' \subseteq Unanswered
        /\ ResultById' = ResultById /\ ResultByOpcode' = ResultByOpcode
    BY <1>3, <2>1
  <2>3. /\ QueueById # <<>> /\ Head(QueueById) = handling /\ Tail(QueueById) = toHost
        /\ QueueById' = toHost
    BY <1>a, <2>1, InFront DEF QueueById
  <2>4. LaneByOpcode'
    BY <1>a, <1>b, <1>c, <2>1, <2>2, ByOpcodeThins
  <2>5. CASE handling.id = NoId
    <3>1. pending_responses' = pending_responses
      BY <1>10, <2>5 DEF FileById
    <3>2. Within(QueueById', QueueById)
      BY <1>a, <2>3, WithinTail
    <3>3. LaneById'
      BY <1>a, <1>b, <1>c, <2>2, <3>1, <3>2, ByIdThins
    <3> QED BY <2>2, <2>4, <3>3 DEF OnceInv
  <2>6. CASE handling.id # NoId
    <3>1. /\ handling.id \in CmdId
          /\ pending_responses' = [pending_responses EXCEPT ![handling.id] = Append(@, handling)]
      BY <1>10, <2>1, <2>6 DEF FileById, Event
    <3>2. Once(QueueById', pending_responses', ResultById, Unanswered)
      BY <1>a, <2>3, <3>1, LaneFiles DEF LaneById
    <3>3. LaneById'
      BY <2>2, <3>2, OnceFewer DEF LaneById
    <3> QED BY <2>2, <2>4, <3>3 DEF OnceInv
  <2> QED BY <2>5, <2>6
<1>11. ASSUME NEW c \in Caller, ClearPending(c) PROVE OnceInv'
  <2>1. /\ UNCHANGED <<issued, capturing, toDevice, call, toHost, handling>>
        /\ pending_responses' = [i \in CmdId |-> <<>>]
        /\ pending_events' = [o \in Polled |-> <<>>]
    BY <1>11 DEF ClearPending
  <2>2. /\ Serials' /\ Unanswered' \subseteq Unanswered
        /\ ResultById' = ResultById /\ ResultByOpcode' = ResultByOpcode
    BY <1>3, <2>1
  <2>3. QueueById' = QueueById
    BY <2>1 DEF QueueById
  <2>4. LaneById'
    BY <1>a, <1>b, <1>c, <2>1, <2>2, <2>3, ByIdThins
  <2>5. LaneByOpcode'
    BY <1>a, <1>b, <1>c, <2>1, <2>2, ByOpcodeThins
  <2> QED BY <2>2, <2>4, <2>5 DEF OnceInv
<1>12. ASSUME Dispatch PROVE OnceInv'
  <2> DEFINE cmd == Head(toDevice)
  <2>1. /\ toDevice # <<>> /\ toDevice' = Tail(toDevice)
        /\ UNCHANGED <<issued, call, tableVars>>
        /\ cmd \in Command
    BY <1>12, <1>a, HeadTailProperties DEF Dispatch
  <2>2. Reject(cmd) \/ AckCommand(cmd) \/ ReplyValue(cmd) \/ StartCapture(cmd)
    BY <1>12 DEF Dispatch
  <2>3. capturing' \in {capturing, capturing \cup {cmd}}
    BY <2>2 DEF Reject, AckCommand, ReplyValue, StartCapture
  <2>4. /\ Serials' /\ Unanswered' \subseteq Unanswered
        /\ cmd.serial \in Unanswered
        /\ capturing' = capturing => cmd.serial \notin Unanswered'
    BY <1>a, <2>1, <2>3, DispatchSerials
  <2> HIDE DEF cmd
  <2>5. CASE StartCapture(cmd)
    <3>1. UNCHANGED <<tableVars, toHost>> /\ call' = call
      BY <2>1, <2>5 DEF StartCapture
    <3> QED BY <1>2, <2>4, <3>1
  <2>6. CASE Reject(cmd) \/ AckCommand(cmd) \/ ReplyValue(cmd)
    <3>1. capturing' = capturing
      BY <2>6 DEF Reject, AckCommand, ReplyValue
    <3>2. \E op \in Opcode, code \in ErrCode \cup {NoError} :
            /\ op # "ack"
            /\ \/ toHost' = Append(toHost, Answer(cmd, op, code))
               \/ toHost' = Append(toHost, Answer(cmd, "ack", NoError))
               \/ toHost' = toHost \o <<Answer(cmd, "ack", NoError), Answer(cmd, op, code)>>
      <4>1. CASE Reject(cmd)
        BY <4>1 DEF Reject, Opcode
      <4>2. CASE AckCommand(cmd)
        BY <4>2 DEF AckCommand, Opcode
      <4>3. CASE ReplyValue(cmd)
        BY <4>3 DEF ReplyValue, Opcode
      <4> QED BY <2>6, <4>1, <4>2, <4>3
    <3>3. LaneById' /\ LaneByOpcode'
      BY <1>a, <2>1, <2>4, <3>1, <3>2, AnswersGain
    <3> QED BY <2>4, <3>3 DEF OnceInv
  <2> QED BY <2>2, <2>5, <2>6
<1>13. ASSUME NEW cmd \in capturing, FinishCapture(cmd) PROVE OnceInv'
  <2>1. /\ capturing' = capturing \ {cmd} /\ cmd \in Command
        /\ UNCHANGED <<issued, call, tableVars, toDevice>>
    BY <1>13 DEF FinishCapture, TypeOK
  <2>2. /\ Serials' /\ Unanswered' \subseteq Unanswered
        /\ cmd.serial \in Unanswered /\ cmd.serial \notin Unanswered'
    BY <1>a, <2>1, FinishSerials
  <2>3. \E op \in Opcode, code \in ErrCode \cup {NoError} :
          /\ op # "ack"
          /\ \/ toHost' = Append(toHost, Answer(cmd, op, code))
             \/ toHost' = Append(toHost, Answer(cmd, "ack", NoError))
             \/ toHost' = toHost \o <<Answer(cmd, op, code), Answer(cmd, "ack", NoError)>>
    BY <1>13 DEF FinishCapture, Opcode
  <2>4. LaneById' /\ LaneByOpcode'
    BY <1>a, <2>1, <2>2, <2>3, AnswersGain
  <2> QED BY <2>2, <2>4 DEF OnceInv
<1>14. ASSUME Unprompted PROVE OnceInv'
  <2>1. UNCHANGED <<issued, capturing, toDevice, call, tableVars>>
    BY <1>14 DEF Unprompted
  <2>2. Serials' /\ Unanswered' \subseteq Unanswered
    BY <1>3, <2>1
  <2>3. PICK g \in Gpio :
          toHost' = Append(toHost, [op |-> "heartbeat", id |-> NoId, gpio |-> g,
                                    code |-> NoError, serial |-> 0])
    BY <1>14 DEF Unprompted
  <2> DEFINE e == [op |-> "heartbeat", id |-> NoId, gpio |-> g, code |-> NoError, serial |-> 0]
  <2>4. e \in Event /\ e.serial = 0
    BY DEF Event, Opcode
  <2>5. toHost' = Append(toHost, e)
    BY <2>3
  <2> HIDE DEF e
  <2>6. toHost' = toHost \o <<e>> /\ <<e>> \in Seq(Event)
    BY <1>a, <2>4, <2>5, AppendIsConcat
  <2>7. 0 \notin Unanswered
    BY <1>a DEF TypeOK, Serials, Unanswered
  <2>8. LaneById' /\ LaneByOpcode'
    <3>1. /\ \A k \in DOMAIN <<e>> : <<e>>[k].serial = 0
          /\ Distinct(<<e>>)
      BY <2>4 DEF Distinct
    <3> QED BY <1>a, <2>1, <2>2, <2>6, <2>7, <3>1, LanesGain DEF Without
  <2> QED BY <2>2, <2>8 DEF OnceInv
<1>15. ASSUME LoseEvent PROVE OnceInv'
  <2>1. PICK k \in DOMAIN toHost : toHost' = RemoveAt(toHost, k)
    BY <1>15 DEF LoseEvent
  <2>2. UNCHANGED <<issued, capturing, toDevice, call, tableVars>>
    BY <1>15 DEF LoseEvent
  <2>3. /\ Serials' /\ Unanswered' \subseteq Unanswered
        /\ ResultById' = ResultById /\ ResultByOpcode' = ResultByOpcode
    BY <1>3, <2>2
  <2>4. Within(toHost', toHost) /\ toHost' \in Seq(Event)
    BY <1>a, <2>1, WithinRemoveAt, RemoveAtType
  <2>5. Within(QueueById', QueueById)
    <3>1. handling # NoEvent => Within(<<handling>> \o toHost', <<handling>> \o toHost)
      BY <1>a, <2>4, WithinInFront
    <3> QED BY <2>2, <2>4, <3>1 DEF QueueById
  <2>6. LaneById'
    BY <1>a, <1>b, <1>c, <2>2, <2>3, <2>5, ByIdThins
  <2>7. LaneByOpcode'
    BY <1>a, <1>b, <1>c, <2>2, <2>3, <2>4, ByOpcodeThins
  <2> QED BY <2>3, <2>6, <2>7 DEF OnceInv
<1>16. ASSUME LoseCommand \/ LinkChange \/ UNCHANGED vars PROVE OnceInv'
  <2>1. UNCHANGED <<issued, capturing, call, tableVars, toHost>>
    BY <1>16 DEF LoseCommand, LinkChange
  <2>2. Within(toDevice', toDevice)
    BY <1>16, <1>a, <1>b, WithinRemoveAt DEF LoseCommand, LinkChange
  <2>3. Serials' /\ Unanswered' \subseteq Unanswered
    BY <1>a, <2>1, <2>2, OtherSerials
  <2> QED BY <1>2, <2>1, <2>3
<1>17. ASSUME NEW c \in Caller, NEW op \in Ops, NEW g \in Gpio, Begin(c, op, g) PROVE OnceInv'
  BY <1>1, <1>17 DEF Begin
<1>18. ASSUME NEW c \in Caller, Retry(c) PROVE OnceInv'
  BY <1>1, <1>18 DEF Retry
<1> QED
  BY <1>4, <1>5, <1>6, <1>7, <1>8, <1>9, <1>10, <1>11, <1>12, <1>13, <1>14, <1>15, <1>16, <1>17,
     <1>18 DEF Next, CallerStep

(* The lanes are clean in every reachable state. *)
THEOREM OnceInvariance == Spec => []OnceInv
<1>1. Init => OnceInv
  <2> SUFFICES ASSUME Init PROVE OnceInv
    OBVIOUS
  <2>1. /\ toDevice = <<>> /\ toHost = <<>> /\ capturing = {} /\ handling = NoEvent
        /\ pending_responses = [i \in CmdId |-> <<>>] /\ pending_events = [o \in Polled |-> <<>>]
        /\ \A c \in Caller : call[c] = NoCall
    BY DEF Init
  <2>2. NoCall.pc = "idle" /\ NoCall.result = NoEvent
    BY DEF NoCall
  <2>3. \A c \in Caller : call[c].pc = "idle" /\ call[c].result = NoEvent
    BY <2>1, <2>2
  <2>4. /\ QueueById = <<>>
        /\ \A c \in Caller : ResultById[c] = NoEvent /\ ResultByOpcode[c] = NoEvent
        /\ DOMAIN ResultById = Caller /\ DOMAIN ResultByOpcode = Caller
    BY <2>1, <2>3 DEF QueueById, ResultById, ResultByOpcode
  <2>5. DOMAIN <<>> = {}
    OBVIOUS
  <2>6. Serials
    BY <2>1, <2>3, <2>5 DEF Serials
  <2>7. LaneById
    BY <2>1, <2>4, <2>5 DEF LaneById, Once, Distinct, Disjoint, Without
  <2>8. LaneByOpcode
    BY <2>1, <2>4, <2>5 DEF LaneByOpcode, Once, Distinct, Disjoint, Without
  <2> QED BY <2>6, <2>7, <2>8 DEF OnceInv
<1> QED BY <1>1, OnceStep, TypeCorrect, PTL DEF Spec

(* One event never answers two calls, however the handler thread, the      *)
(* polls, late answers and lost ones interleave, ids wrapped or not.       *)
THEOREM NoDoubleDeliveryHolds == Spec => []NoDoubleDelivery
<1>1. OnceInv => NoDoubleDelivery
  <2> SUFFICES ASSUME OnceInv, NEW c \in Caller, NEW d \in Caller, c # d,
                      call[c].result # NoEvent, call[d].result # NoEvent,
                      (call[c].op \in Correlated) = (call[d].op \in Correlated),
                      call[c].result.serial # 0
               PROVE  ~Same(call[c].result, call[d].result)
    BY DEF NoDoubleDelivery, Same
  <2>1. CASE call[c].op \in Correlated
    <3>1. ResultById[c] = call[c].result /\ ResultById[d] = call[d].result
      BY <2>1 DEF ResultById
    <3>2. DOMAIN ResultById = Caller
      BY DEF ResultById
    <3> QED BY <3>1, <3>2 DEF OnceInv, LaneById, Once
  <2>2. CASE call[c].op \notin Correlated
    <3>1. ResultByOpcode[c] = call[c].result /\ ResultByOpcode[d] = call[d].result
      BY <2>2 DEF ResultByOpcode
    <3>2. DOMAIN ResultByOpcode = Caller
      BY DEF ResultByOpcode
    <3> QED BY <3>1, <3>2 DEF OnceInv, LaneByOpcode, Once
  <2> QED BY <2>1, <2>2
<1> QED BY <1>1, OnceInvariance, PTL

-----------------------------------------------------------------------------
(* A filed answer waits for its caller.                                    *)

(* Steps of a caller leave the calls of the others alone, and a caller     *)
(* that waits goes on only by ending its wait.                             *)
LEMMA OthersStay ==
  ASSUME TypeOK, NEW c \in Caller, NEW d \in Caller, call[c].pc = "waiting",
         \/ CallerStep(d)
         \/ \E op \in Ops, g \in Gpio : Begin(d, op, g)
  PROVE  /\ d # c => call'[c] = call[c]
         /\ d = c => call'[c].pc # "waiting"
<1>0. call \in [Caller -> Call] /\ call[c] \in Call
  BY DEF TypeOK
<1>1. ASSUME NEW op, NEW stage, NEW g, Draw(d, op, stage, g), d # c
      PROVE  call'[c] = call[c]
  BY <1>0, <1>1 DEF Draw
<1>2. CASE \E op \in Ops, g \in Gpio : Begin(d, op, g)
  BY <1>1, <1>2 DEF Begin
<1>3. CASE Retry(d)
  BY <1>1, <1>3 DEF Retry
<1>4. CASE Send(d) \/ SendRefused(d) \/ Report(d)
  BY <1>0, <1>4 DEF Send, SendRefused, Report
<1>5. CASE TakeResponse(d) \/ TakeEvent(d) \/ Timeout(d)
  <2>1. PICK r \in Event \cup {NoEvent} : Conclude(d, r)
    <3>1. CASE TakeResponse(d)
      <4>1. call[d].id \in CmdId
        BY DEF TypeOK, Call
      <4>2. pending_responses[call[d].id] \in Seq(Event)
        BY <4>1 DEF TypeOK
      <4>3. PICK k \in DOMAIN pending_responses[call[d].id] :
              Conclude(d, pending_responses[call[d].id][k])
        BY <3>1 DEF TakeResponse
      <4>4. pending_responses[call[d].id][k] \in Event
        BY <4>2, ElementOfSeq, LenProperties
      <4> QED BY <4>3, <4>4
    <3>2. CASE TakeEvent(d)
      <4> DEFINE o == OpcodePolled(call[d].op)
      <4>1. pending_events[o] \in Seq(Event)
        BY DEF TypeOK, OpcodePolled, Polled
      <4>2. PICK k \in DOMAIN pending_events[o] : Conclude(d, pending_events[o][k])
        BY <3>2 DEF TakeEvent
      <4>3. pending_events[o][k] \in Event
        BY <4>1, ElementOfSeq, LenProperties
      <4> QED BY <4>2, <4>3
    <3>3. CASE Timeout(d)
      BY <3>3 DEF Timeout
    <3> QED BY <1>5, <3>1, <3>2, <3>3
  <2>2. /\ \A f \in Caller : f # d => call'[f] = call[f]
        /\ \E p \in {"retry", "report"} : call'[d] = [call[d] EXCEPT !.pc = p, !.result = r]
    BY <2>1, ConcludeEffect
  <2>3. call'[d].pc \in {"retry", "report"}
    <3>1. call[d] \in Call
      BY DEF TypeOK
    <3> QED BY <2>2, <3>1 DEF Call
  <2> QED BY <2>2, <2>3
<1> QED BY <1>2, <1>3, <1>4, <1>5 DEF CallerStep

(* An answer filed for a waiting call stays until the call ends its wait:  *)
(* no poll, deadline or late event of another thread takes it away.        *)
THEOREM AnswerStaysHolds == Spec => AnswerStays
<1>1. TypeOK /\ Correlation /\ Serials /\ [Next]_vars
        => [\A c \in Caller :
              Unwrapped /\ Answered(c) /\ ~(\E d \in Caller : ClearPending(d))
                => Answered(c)' \/ call'[c].pc # "waiting"]_vars
  <2> SUFFICES ASSUME TypeOK, Correlation, Serials, Next, NEW c \in Caller,
                      Unwrapped, Answered(c), ~(\E d \in Caller : ClearPending(d)),
                      call'[c].pc = "waiting"
               PROVE  Answered(c)'
    OBVIOUS
  <2> USE DEF hostVars, tableVars, deviceVars, linkVars
  <2> DEFINE i == call[c].id
  <2>1. PICK k \in DOMAIN pending_responses[i] : Accepts(call[c], pending_responses[i][k])
    BY DEF Answered
  <2>2. /\ call[c].pc = "waiting" /\ call[c].op \in Correlated /\ i \in CmdId
        /\ pending_responses \in [CmdId -> Seq(Event)]
    BY DEF Answered, TypeOK, Call
  <2>3. call'[c] = call[c] /\ pending_responses'[i] = pending_responses[i] => Answered(c)'
    BY <2>1, <2>2 DEF Answered, Accepts
  <2> HIDE DEF i
  <2>4. ASSUME NEW d \in Caller,
               CallerStep(d) \/ \E op \in Ops, g \in Gpio : Begin(d, op, g)
        PROVE  Answered(c)'
    <3>1. d # c /\ call'[c] = call[c]
      BY <2>2, <2>4, OthersStay
    <3>2. CASE TakeResponse(d)
      <4>1. call[d].pc = "waiting" /\ call[d].id \in CmdId
        BY <3>2 DEF TakeResponse, TypeOK, Call
      <4>2. call[d].id # i
        <5>1. call[d].serial # call[c].serial
          BY <2>2, <3>1, <4>1 DEF Serials
        <5>2. call[d].serial = call[d].id /\ call[c].serial = i
          BY DEF Correlation, i
        <5> QED BY <5>1, <5>2
      <4>3. pending_responses'[i] = pending_responses[i]
        BY <2>2, <3>2, <4>1, <4>2 DEF TakeResponse
      <4> QED BY <2>3, <3>1, <4>3
    <3>3. CASE ~TakeResponse(d)
      <4>1. pending_responses' = pending_responses
        BY <2>4, <3>3 DEF CallerStep, Begin, Send, SendRefused, TakeEvent, Timeout, Retry, Report
      <4> QED BY <2>3, <3>1, <4>1
    <3> QED BY <3>2, <3>3
  <2>5. CASE FileById
    <3>1. call' = call
      BY <2>5 DEF FileById
    <3>2. CASE handling.id # i \/ handling.id = NoId
      <4>1. pending_responses'[i] = pending_responses[i]
        BY <2>2, <2>5, <3>2 DEF FileById
      <4> QED BY <2>3, <3>1, <4>1
    <3>3. CASE handling.id = i /\ handling.id # NoId
      <4>1. pending_responses'[i] = Append(pending_responses[i], handling)
        BY <2>2, <2>5, <3>3 DEF FileById
      <4>2. handling \in Event /\ pending_responses[i] \in Seq(Event)
        BY <2>2, <2>5 DEF FileById, TypeOK
      <4>3. /\ k \in DOMAIN pending_responses'[i]
            /\ pending_responses'[i][k] = pending_responses[i][k]
        BY <2>1, <4>1, <4>2, AppendEntries
      <4> QED BY <2>1, <2>2, <3>1, <4>3 DEF Answered, Accepts, i
    <3> QED BY <3>2, <3>3
  <2>6. CASE \/ FileByOpcode \/ Dispatch \/ (\E cmd \in capturing : FinishCapture(cmd))
             \/ Unprompted \/ LoseCommand \/ LoseEvent \/ LinkChange
    <3>1. UNCHANGED <<call, pending_responses>>
      BY <2>6 DEF FileByOpcode, Dispatch, FinishCapture, Unprompted, LoseCommand, LoseEvent,
                  LinkChange
    <3> QED BY <2>3, <3>1
  <2> QED BY <2>4, <2>5, <2>6 DEF Next
<1>2. IInv /\ OnceInv => TypeOK /\ Correlation /\ Serials
  BY DEF IInv, OnceInv
<1> QED BY <1>1, <1>2, Invariance, OnceInvariance, PTL DEF Spec, AnswerStays

-----------------------------------------------------------------------------
(* The retries of configure_gpio.                                          *)

(* No two callers configure the same pin: each has its latest call on a    *)
(* pin of its own.  The code leaves this to the users of the HTTP API.     *)
OwnPins ==
  \A c, d \in Caller : c # d /\ call[c].op = "configure" /\ call[d].op = "configure"
                       => call[c].gpio # call[d].gpio

(* The inductive invariant: what the device holds of an attempt to         *)
(* configure is as it was sent; no command that configures or unbinds the  *)
(* pin is under way behind the attempt; and once the attempt was executed, *)
(* the pin is bound and no such command is under way at all.               *)

Attempt(c) ==
  /\ call[c].op = "configure" <=> call[c].stage # "only"
  /\ call[c].pc = "retry" => call[c].op = "configure"
  /\ call[c].pc \in {"report", "idle"} => call[c].stage # "unbind"
  /\ call[c].op = "configure" =>
       /\ call[c].serial \in 1 .. issued
       /\ \A d \in Caller : d # c /\ call[d].pc # "idle" => call[d].serial # call[c].serial

Sent(cl, cmd) == cmd.serial = cl.serial => cmd.kind = KindOf(cl) /\ cmd.gpio = cl.gpio

Touches(cmd, g) == cmd.kind \in {"config", "unbind"} /\ cmd.gpio = g

Underway(c) ==
  call[c].op = "configure" =>
    /\ \A k \in DOMAIN toDevice : Sent(call[c], toDevice[k])
    /\ \A cmd \in capturing : cmd.serial # call[c].serial
    /\ \A j, k \in DOMAIN toDevice : j < k /\ toDevice[j].serial = call[c].serial
                                     => ~Touches(toDevice[k], call[c].gpio)

Configured(c) ==
  call[c].op = "configure" /\ call[c].stage # "unbind" /\ call[c].serial \in executed
    => /\ call[c].gpio \in bound
       /\ \A k \in DOMAIN toDevice : ~Touches(toDevice[k], call[c].gpio)

PinInv == /\ \A n \in executed : n \notin Unanswered
          /\ \A c \in Caller : Attempt(c) /\ Underway(c) /\ Configured(c)

(* A caller begins a call or its next attempt: its serial is new to the    *)
(* device and to the other callers.                                        *)
LEMMA PinDraws ==
  ASSUME NEW c \in Caller, TypeOK, Serials, PinInv, NEW op \in AllOps, NEW stage \in Stage,
         NEW g \in Gpio, Draw(c, op, stage, g), op = "configure" <=> stage # "only",
         UNCHANGED deviceVars
  PROVE  PinInv'
<1> USE DEF deviceVars
<1>1. /\ issued \in Nat /\ issued' = issued + 1
      /\ call'[c].pc = "drawn" /\ call'[c].serial = issued + 1
      /\ call'[c].op = op /\ call'[c].stage = stage /\ call'[c].gpio = g
      /\ \A d \in Caller : d # c => call'[d] = call[d]
  BY DEF TypeOK, Draw
<1>2. \A n \in 1 .. issued : n \in 1 .. issued' /\ n # issued + 1
  BY <1>1
<1>3. /\ \A k \in DOMAIN toDevice : toDevice[k].serial # issued + 1
      /\ \A cmd \in capturing : cmd.serial # issued + 1
      /\ \A d \in Caller : call[d].pc # "idle" => call[d].serial # issued + 1
  BY <1>2 DEF Serials
<1>4. issued + 1 \notin executed /\ \A n \in executed : n \notin Unanswered'
  <2>1. issued + 1 \in Unanswered
    BY <1>1 DEF Unanswered
  <2> QED BY <2>1, DrawSerials DEF PinInv
<1>5. Attempt(c)' /\ Underway(c)' /\ Configured(c)'
  <2>1. Attempt(c)'
    <3>1. issued + 1 \in 1 .. issued'
      BY <1>1
    <3>2. \A d \in Caller : d # c /\ call'[d].pc # "idle" => call'[d].serial # issued + 1
      BY <1>1, <1>3
    <3> QED BY <1>1, <3>1, <3>2 DEF Attempt
  <2>2. Underway(c)'
    BY <1>1, <1>3 DEF Underway, Sent
  <2>3. Configured(c)'
    BY <1>1, <1>4 DEF Configured
  <2> QED BY <2>1, <2>2, <2>3
<1>6. ASSUME NEW d \in Caller, d # c PROVE Attempt(d)' /\ Underway(d)' /\ Configured(d)'
  <2>1. call'[d] = call[d] /\ Attempt(d) /\ Underway(d) /\ Configured(d)
    BY <1>1, <1>6 DEF PinInv
  <2>2. Attempt(d)'
    <3>1. ASSUME call[d].op = "configure"
          PROVE  /\ call[d].serial \in 1 .. issued'
                 /\ \A f \in Caller : f # d /\ call'[f].pc # "idle"
                                      => call'[f].serial # call[d].serial
      <4>1. call[d].serial \in 1 .. issued
        BY <2>1, <3>1 DEF Attempt
      <4>2. call[d].serial \in 1 .. issued' /\ call[d].serial # issued + 1
        BY <1>2, <4>1
      <4> QED BY <1>1, <2>1, <3>1, <4>2 DEF Attempt
    <3> QED BY <2>1, <3>1 DEF Attempt
  <2>3. Underway(d)' /\ Configured(d)'
    BY <2>1 DEF Underway, Configured, Sent, KindOf
  <2> QED BY <2>2, <2>3
<1> QED BY <1>4, <1>5, <1>6 DEF PinInv

(* Callers enter their next phases, and commands are lost at most: what is *)
(* left of them keeps its order.                                           *)
LEMMA PinPhases ==
  ASSUME TypeOK, PinInv, UNCHANGED <<issued, capturing, bound, executed>>,
         Unanswered' \subseteq Unanswered,
         NEW m,
         \A k \in DOMAIN toDevice' : m[k] \in DOMAIN toDevice /\ toDevice'[k] = toDevice[m[k]],
         \A j, k \in DOMAIN toDevice' : j < k => m[j] < m[k],
         \A c \in Caller :
           /\ call'[c].op = call[c].op /\ call'[c].stage = call[c].stage
           /\ call'[c].gpio = call[c].gpio /\ call'[c].serial = call[c].serial
           /\ \/ call'[c].pc = call[c].pc
              \/ call'[c].pc = "retry" /\ call[c].pc # "idle" /\ call[c].stage # "only"
              \/ /\ call'[c].pc \in {"report", "idle"}
                 /\ call[c].pc # "idle"
                 /\ call[c].stage # "unbind"
  PROVE  PinInv'
<1> SUFFICES ASSUME NEW c \in Caller
             PROVE  Attempt(c)' /\ Underway(c)' /\ Configured(c)'
  BY DEF PinInv
<1>1. Attempt(c) /\ Underway(c) /\ Configured(c)
  BY DEF PinInv
<1>2. Attempt(c)'
  BY <1>1 DEF Attempt
<1>3. KindOf(call[c])' = KindOf(call[c])
  BY DEF KindOf
<1>4. ASSUME call[c].op = "configure"
      PROVE  /\ \A k \in DOMAIN toDevice' : Sent(call[c]', toDevice'[k])
             /\ \A j, k \in DOMAIN toDevice' : j < k /\ toDevice'[j].serial = call[c].serial
                                               => ~Touches(toDevice'[k], call[c].gpio)
  BY <1>1, <1>3, <1>4 DEF Underway, Sent
<1>5. Underway(c)'
  BY <1>1, <1>4 DEF Underway
<1>6. Configured(c)'
  BY <1>1 DEF Configured
<1> QED BY <1>2, <1>5, <1>6

(* A poll or a deadline ends the attempt: the caller goes on to the next   *)
(* one, or reports.                                                        *)
LEMMA ConcludePhases ==
  ASSUME TypeOK, NEW c \in Caller, NEW r \in Event \cup {NoEvent}, Conclude(c, r),
         call[c].pc = "waiting"
  PROVE  /\ call'[c].op = call[c].op /\ call'[c].stage = call[c].stage
         /\ call'[c].gpio = call[c].gpio /\ call'[c].serial = call[c].serial
         /\ \/ call'[c].pc = "retry" /\ call[c].stage # "only"
            \/ call'[c].pc = "report" /\ call[c].stage # "unbind"
         /\ \A d \in Caller : d # c => call'[d] = call[d]
<1>1. call \in [Caller -> Call] /\ call[c] \in Call
  BY DEF TypeOK
<1>2. PICK p \in {"retry", "report"} :
        /\ call' = [call EXCEPT ![c] = [call[c] EXCEPT !.pc = p, !.result = r]]
        /\ p = "retry" => call[c].stage \in {"unbind", "first"}
        /\ p = "report" => call[c].stage # "unbind"
  <2> DEFINE cl    == [call[c] EXCEPT !.result = r]
             again == cl.stage = "unbind" \/ (cl.stage = "first" /\ ~Succeeded(cl))
             p     == IF again THEN "retry" ELSE "report"
  <2>1. call' = [call EXCEPT ![c] = [cl EXCEPT !.pc = p]]
    BY DEF Conclude
  <2>2. cl.stage = call[c].stage /\ [cl EXCEPT !.pc = p] = [call[c] EXCEPT !.pc = p, !.result = r]
    BY <1>1 DEF Call
  <2>3. /\ p \in {"retry", "report"}
        /\ p = "retry" => call[c].stage \in {"unbind", "first"}
        /\ p = "report" => call[c].stage # "unbind"
    BY <2>2
  <2> HIDE DEF p, cl
  <2> QED BY <2>1, <2>2, <2>3
<1>3. call'[c] = [call[c] EXCEPT !.pc = p, !.result = r]
  BY <1>1, <1>2
<1> QED BY <1>1, <1>2, <1>3 DEF Call

(* A command is sent: on the pin of an attempt that is another caller's,   *)
(* it neither configures nor unbinds.                                      *)
LEMMA PinSend ==
  ASSUME NEW d \in Caller, TypeOK, Serials, PinInv, OwnPins, Send(d)
  PROVE  PinInv'
<1> DEFINE cmd == [kind |-> KindOf(call[d]), id |-> call[d].id, gpio |-> call[d].gpio,
                   serial |-> call[d].serial]
<1>1. /\ call \in [Caller -> Call] /\ call[d] \in Call /\ toDevice \in Seq(Command)
  BY DEF TypeOK
<1>2. /\ call[d].pc = "drawn" /\ toDevice' = Append(toDevice, cmd)
      /\ UNCHANGED <<issued, capturing, bound, executed>>
      /\ call'[d].pc = "waiting"
      /\ \A c \in Caller : /\ call'[c].op = call[c].op /\ call'[c].stage = call[c].stage
                           /\ call'[c].gpio = call[c].gpio /\ call'[c].serial = call[c].serial
                           /\ c # d => call'[c].pc = call[c].pc
  BY <1>1 DEF Send, Call
<1>3. cmd \in Command
  <2>1. KindOf(call[d]) \in CmdKind
    BY <1>1 DEF KindOf, Call, CmdKind, AllOps, Stage
  <2> QED BY <1>1, <2>1 DEF Call, Command
<1>4. cmd.kind = KindOf(call[d]) /\ cmd.gpio = call[d].gpio /\ cmd.serial = call[d].serial
  OBVIOUS
<1> HIDE DEF cmd
<1>5. /\ DOMAIN toDevice = 1 .. Len(toDevice) /\ Len(toDevice) \in Nat
      /\ DOMAIN toDevice' = 1 .. Len(toDevice) + 1
      /\ \A k \in 1 .. Len(toDevice) : toDevice'[k] = toDevice[k]
      /\ toDevice'[Len(toDevice) + 1] = cmd
  BY <1>1, <1>2, <1>3, AppendEntries
<1>6. Unanswered' \subseteq Unanswered /\ call[d].serial \in Unanswered
  <2>1. call[d].serial \in Unanswered
    BY <1>1, <1>2 DEF Unanswered, Call
  <2> QED BY <2>1, SendSerials
<1> SUFFICES ASSUME NEW c \in Caller
             PROVE  Attempt(c)' /\ Underway(c)' /\ Configured(c)'
  BY <1>2, <1>6 DEF PinInv
<1>7. Attempt(c) /\ Underway(c) /\ Configured(c) /\ Attempt(d)
  BY DEF PinInv
<1>8. Attempt(c)'
  BY <1>2, <1>7 DEF Attempt
<1> SUFFICES ASSUME call[c].op = "configure"
             PROVE  Underway(c)' /\ Configured(c)'
  BY <1>2, <1>8 DEF Underway, Configured
<1>9. KindOf(call[c])' = KindOf(call[c])
  BY <1>2 DEF KindOf
<1>10. CASE c = d
  <2>1. /\ \A k \in DOMAIN toDevice : toDevice[k].serial # call[c].serial
        /\ call[c].serial \notin executed
    BY <1>2, <1>6, <1>10 DEF Serials, PinInv
  <2>2. Underway(c)'
    <3>1. \A k \in DOMAIN toDevice' : Sent(call'[c], toDevice'[k])
      BY <1>2, <1>4, <1>5, <1>7, <1>9, <1>10, <2>1 DEF Sent
    <3>2. \A j, k \in DOMAIN toDevice' : ~(j < k /\ toDevice'[j].serial = call[c].serial)
      BY <1>5, <2>1
    <3> QED BY <1>2, <1>7, <3>1, <3>2 DEF Underway
  <2>3. Configured(c)'
    BY <1>2, <2>1 DEF Configured
  <2> QED BY <2>2, <2>3
<1>11. CASE c # d
  <2>1. ~Touches(cmd, call[c].gpio)
    <3>1. CASE call[d].op = "configure"
      BY <1>4, <1>11, <3>1 DEF OwnPins, Touches
    <3>2. CASE call[d].op # "configure"
      <4>1. call[d].stage = "only"
        BY <1>7, <3>2 DEF Attempt
      <4>2. KindOf(call[d]) \in AllOps
        BY <1>1, <4>1 DEF KindOf, Call
      <4> QED BY <1>4, <4>2 DEF Touches, AllOps
    <3> QED BY <3>1, <3>2
  <2>2. cmd.serial # call[c].serial
    BY <1>2, <1>4, <1>7, <1>11 DEF Attempt
  <2>3. Underway(c)'
    <3>1. \A k \in DOMAIN toDevice' : Sent(call'[c], toDevice'[k])
      BY <1>2, <1>5, <1>7, <1>9, <2>2 DEF Underway, Sent
    <3>2. ASSUME NEW j \in DOMAIN toDevice', NEW k \in DOMAIN toDevice',
                 j < k, toDevice'[j].serial = call[c].serial
          PROVE  ~Touches(toDevice'[k], call[c].gpio)
      BY <1>5, <1>7, <2>1, <3>2 DEF Underway
    <3> QED BY <1>2, <1>7, <3>1, <3>2 DEF Underway
  <2>4. Configured(c)'
    BY <1>2, <1>5, <1>7, <2>1 DEF Configured
  <2> QED BY <2>3, <2>4
<1> QED BY <1>10, <1>11

(* The device takes a command: if that is the latest attempt of a caller,  *)
(* nothing that touches its pin is behind it; if it is another command, it *)
(* leaves the pin of an attempt that was executed alone.                   *)
LEMMA PinDispatch ==
  ASSUME TypeOK, Serials, PinInv, Dispatch
  PROVE  PinInv'
<1> USE DEF hostVars, tableVars, linkVars
<1> DEFINE cmd == Head(toDevice)
<1>0. /\ toDevice \in Seq(Command) /\ toDevice # <<>> /\ toDevice' = Tail(toDevice)
      /\ UNCHANGED <<issued, call>>
  BY DEF TypeOK, Dispatch
<1>1. /\ 1 \in DOMAIN toDevice /\ cmd = toDevice[1]
      /\ \A k \in DOMAIN toDevice' : /\ k \in Nat /\ 1 < k + 1 /\ k + 1 \in DOMAIN toDevice
                                     /\ toDevice'[k] = toDevice[k + 1]
  <2>1. /\ DOMAIN toDevice = 1 .. Len(toDevice) /\ Len(toDevice) \in Nat \ {0}
        /\ Tail(toDevice) \in Seq(Command) /\ Len(Tail(toDevice)) = Len(toDevice) - 1
        /\ \A k \in 1 .. Len(toDevice) - 1 : Tail(toDevice)[k] = toDevice[k + 1]
    BY <1>0, HeadTailProperties, LenProperties, EmptySeq
  <2>2. DOMAIN toDevice' = 1 .. Len(toDevice) - 1
    BY <1>0, <2>1, LenProperties
  <2> QED BY <1>0, <2>1, <2>2
<1>2. Reject(cmd) \/ AckCommand(cmd) \/ ReplyValue(cmd) \/ StartCapture(cmd)
  BY DEF Dispatch
<1> HIDE DEF cmd
<1>3. \/ capturing' = capturing /\ executed' \subseteq executed \cup {cmd.serial}
      \/ /\ capturing' = capturing \cup {cmd} /\ executed' = executed
         /\ cmd.kind \in {"receive", "exchange"}
  BY <1>2 DEF Reject, AckCommand, ReplyValue, StartCapture
<1>4. /\ Unanswered' \subseteq Unanswered
      /\ capturing' = capturing => cmd.serial \notin Unanswered'
  BY <1>0, <1>3, DispatchSerials DEF cmd
<1>5. \A n \in executed' : n \notin Unanswered'
  BY <1>3, <1>4 DEF PinInv
<1> SUFFICES ASSUME NEW c \in Caller
             PROVE  Attempt(c)' /\ Underway(c)' /\ Configured(c)'
  BY <1>5 DEF PinInv
<1>6. /\ Attempt(c) /\ Underway(c) /\ Configured(c)
      /\ call[c].stage \in Stage
  BY DEF PinInv, TypeOK, Call
<1>7. Attempt(c)'
  BY <1>0, <1>6 DEF Attempt
<1> SUFFICES ASSUME call[c].op = "configure" PROVE Underway(c)' /\ Configured(c)'
  BY <1>0, <1>7 DEF Underway, Configured
<1>8. Sent(call[c], cmd) /\ call[c].stage \in {"first", "unbind", "again"}
  BY <1>1, <1>6 DEF Underway, Attempt, Stage
<1>9. Underway(c)'
  <2>1. \A k \in DOMAIN toDevice' : Sent(call'[c], toDevice'[k])
    BY <1>0, <1>1, <1>6 DEF Underway, Sent, KindOf
  <2>2. \A a \in capturing' : a.serial # call[c].serial
    <3>1. cmd.kind \in {"receive", "exchange"} => cmd.serial # call[c].serial
      BY <1>8 DEF Sent, KindOf
    <3> QED BY <1>3, <1>6, <3>1 DEF Underway
  <2>3. ASSUME NEW j \in DOMAIN toDevice', NEW k \in DOMAIN toDevice',
               j < k, toDevice'[j].serial = call[c].serial
        PROVE  ~Touches(toDevice'[k], call[c].gpio)
    <3>1. j + 1 < k + 1
      BY <1>1, <2>3
    <3> QED BY <1>1, <1>6, <2>3, <3>1 DEF Underway
  <2> QED BY <1>0, <2>1, <2>2, <2>3 DEF Underway
<1>10. Configured(c)'
  <2> SUFFICES ASSUME call[c].stage # "unbind", call[c].serial \in executed'
               PROVE  /\ call[c].gpio \in bound'
                      /\ \A k \in DOMAIN toDevice' : ~Touches(toDevice'[k], call[c].gpio)
    BY <1>0 DEF Configured
  <2>1. CASE call[c].serial \in executed
    <3>1. /\ call[c].gpio \in bound
          /\ \A k \in DOMAIN toDevice : ~Touches(toDevice[k], call[c].gpio)
      BY <1>6, <2>1 DEF Configured
    <3>2. ~Touches(cmd, call[c].gpio)
      BY <1>1, <3>1
    <3>3. call[c].gpio \in bound'
      BY <1>2, <3>1, <3>2 DEF Reject, AckCommand, ReplyValue, StartCapture, Touches
    <3> QED BY <1>1, <3>1, <3>3
  <2>2. CASE call[c].serial \notin executed
    <3>1. call[c].serial = cmd.serial /\ executed' # executed
      BY <1>3, <2>2
    <3>2. cmd.kind = "config" /\ cmd.gpio = call[c].gpio
      BY <1>8, <3>1 DEF Sent, KindOf
    <3>3. AckCommand(cmd)
      BY <1>2, <3>1, <3>2 DEF Reject, ReplyValue, StartCapture
    <3>4. call[c].gpio \in bound'
      BY <3>2, <3>3 DEF AckCommand
    <3>5. \A k \in DOMAIN toDevice' : ~Touches(toDevice'[k], call[c].gpio)
      BY <1>1, <1>6, <3>1 DEF Underway
    <3> QED BY <3>4, <3>5
  <2> QED BY <2>1, <2>2
<1> QED BY <1>9, <1>10

(* Every step keeps the invariant as long as no two callers configure the  *)
(* same pin.                                                               *)
LEMMA PinStep == TypeOK /\ OnceInv /\ OwnPins /\ PinInv /\ [Next]_vars => PinInv'
<1> SUFFICES ASSUME TypeOK, OnceInv, OwnPins, PinInv, [Next]_vars PROVE PinInv'
  OBVIOUS
<1> USE DEF vars, hostVars, tableVars, deviceVars, linkVars
<1>a. /\ Serials /\ call \in [Caller -> Call] /\ \A d \in Caller : call[d] \in Call /\ Attempt(d)
  BY DEF OnceInv, PinInv, TypeOK
<1>b. ASSUME UNCHANGED <<issued, toDevice, capturing, bound, executed>>,
             Unanswered' \subseteq Unanswered,
             \A c \in Caller :
               /\ call'[c].op = call[c].op /\ call'[c].stage = call[c].stage
               /\ call'[c].gpio = call[c].gpio /\ call'[c].serial = call[c].serial
               /\ \/ call'[c].pc = call[c].pc
                  \/ call'[c].pc = "retry" /\ call[c].pc # "idle" /\ call[c].stage # "only"
                  \/ /\ call'[c].pc \in {"report", "idle"}
                     /\ call[c].pc # "idle"
                     /\ call[c].stage # "unbind"
      PROVE  PinInv'
  <2> DEFINE m == [k \in DOMAIN toDevice |-> k]
  <2>1. /\ \A k \in DOMAIN toDevice' : m[k] \in DOMAIN toDevice /\ toDevice'[k] = toDevice[m[k]]
        /\ \A j, k \in DOMAIN toDevice' : j < k => m[j] < m[k]
    BY <1>b
  <2> HIDE DEF m
  <2> QED BY <1>b, <2>1, PinPhases
<1>1. ASSUME NEW d \in Caller, NEW op \in Ops, NEW g \in Gpio, Begin(d, op, g) PROVE PinInv'
  <2>1. op \in AllOps
    BY BridgeClientAssumption
  <2>2. PICK stage \in Stage : Draw(d, op, stage, g) /\ (op = "configure" <=> stage # "only")
    BY <1>1 DEF Begin, Stage
  <2> QED BY <1>1, <1>a, <2>1, <2>2, PinDraws DEF Begin
<1>2. ASSUME NEW d \in Caller, Retry(d) PROVE PinInv'
  <2>1. call[d].op = "configure" /\ call[d].gpio \in Gpio
    BY <1>2, <1>a DEF Retry, Attempt, Call
  <2>2. PICK stage \in Stage \ {"only"} : Draw(d, call[d].op, stage, call[d].gpio)
    BY <1>2 DEF Retry, Stage
  <2> QED BY <1>2, <1>a, <2>1, <2>2, PinDraws DEF Retry, AllOps
<1>3. ASSUME NEW d \in Caller, Send(d) PROVE PinInv'
  BY <1>3, <1>a, PinSend
<1>4. ASSUME NEW d \in Caller, SendRefused(d) PROVE PinInv'
  <2>1. /\ UNCHANGED <<issued, toDevice, capturing, bound, executed>>
        /\ call[d].pc = "drawn"
        /\ \/ call'[d].pc = "retry" /\ call[d].stage = "unbind"
           \/ call'[d].pc = "report" /\ call[d].stage # "unbind"
        /\ \A c \in Caller : /\ call'[c].op = call[c].op /\ call'[c].stage = call[c].stage
                             /\ call'[c].gpio = call[c].gpio
                             /\ call'[c].serial = call[c].serial
                             /\ c # d => call'[c].pc = call[c].pc
    BY <1>4, <1>a DEF SendRefused, Call
  <2>2. Unanswered' \subseteq Unanswered
    BY <2>1 DEF Unanswered
  <2> QED BY <1>b, <2>1, <2>2
<1>5. ASSUME NEW d \in Caller, Report(d) PROVE PinInv'
  <2>1. /\ UNCHANGED <<issued, toDevice, capturing, bound, executed>>
        /\ call[d].pc = "report" /\ call'[d].pc = "idle" /\ call[d].stage # "unbind"
        /\ \A c \in Caller : /\ call'[c].op = call[c].op /\ call'[c].stage = call[c].stage
                             /\ call'[c].gpio = call[c].gpio
                             /\ call'[c].serial = call[c].serial
                             /\ c # d => call'[c].pc = call[c].pc
    BY <1>5, <1>a DEF Report, Call, Attempt
  <2>2. Unanswered' \subseteq Unanswered
    BY <2>1 DEF Unanswered
  <2> QED BY <1>b, <2>1, <2>2
<1>6. ASSUME NEW d \in Caller, NEW r \in Event \cup {NoEvent}, Conclude(d, r),
             call[d].pc = "waiting", UNCHANGED <<issued, deviceVars>>
      PROVE  PinInv'
  <2>1. /\ call'[d].op = call[d].op /\ call'[d].stage = call[d].stage
        /\ call'[d].gpio = call[d].gpio /\ call'[d].serial = call[d].serial
        /\ \/ call'[d].pc = "retry" /\ call[d].stage # "only"
           \/ call'[d].pc = "report" /\ call[d].stage # "unbind"
        /\ \A c \in Caller : c # d => call'[c] = call[c]
    BY <1>6, ConcludePhases
  <2>2. Unanswered' \subseteq Unanswered
    BY <1>6, <2>1 DEF Unanswered
  <2> QED BY <1>b, <1>6, <2>1, <2>2
<1>7. ASSUME NEW d \in Caller, TakeResponse(d) PROVE PinInv'
  <2>1. PICK k \in DOMAIN pending_responses[call[d].id] :
          Conclude(d, pending_responses[call[d].id][k])
    BY <1>7 DEF TakeResponse
  <2>2. pending_responses[call[d].id] \in Seq(Event)
    BY <1>a DEF TypeOK, Call
  <2>3. pending_responses[call[d].id][k] \in Event
    BY <2>2, ElementOfSeq, LenProperties
  <2> QED BY <1>6, <1>7, <2>1, <2>3 DEF TakeResponse
<1>8. ASSUME NEW d \in Caller, TakeEvent(d) PROVE PinInv'
  <2> DEFINE o == OpcodePolled(call[d].op)
  <2>1. PICK k \in DOMAIN pending_events[o] : Conclude(d, pending_events[o][k])
    BY <1>8 DEF TakeEvent
  <2>2. pending_events[o] \in Seq(Event)
    BY DEF TypeOK, OpcodePolled, Polled
  <2>3. pending_events[o][k] \in Event
    BY <2>2, ElementOfSeq, LenProperties
  <2> QED BY <1>6, <1>8, <2>1, <2>3 DEF TakeEvent
<1>9. ASSUME NEW d \in Caller, Timeout(d) PROVE PinInv'
  BY <1>6, <1>9 DEF Timeout
<1>10. ASSUME \/ FileByOpcode \/ FileById \/ (\E d \in Caller : ClearPending(d)) \/ Unprompted
              \/ LoseEvent \/ LinkChange \/ UNCHANGED vars
       PROVE  PinInv'
  <2>1. UNCHANGED <<issued, call, toDevice, capturing, bound, executed>>
    BY <1>10 DEF FileByOpcode, FileById, ClearPending, Unprompted, LoseEvent, LinkChange
  <2>2. Unanswered' \subseteq Unanswered
    BY <2>1 DEF Unanswered
  <2> QED BY <1>b, <2>1, <2>2
<1>11. ASSUME LoseCommand PROVE PinInv'
  <2>1. /\ UNCHANGED <<issued, call, capturing, bound, executed>> /\ toDevice \in Seq(Command)
        /\ \E k \in DOMAIN toDevice : toDevice' = RemoveAt(toDevice, k)
    BY <1>11 DEF LoseCommand, TypeOK
  <2>2. PICK k \in DOMAIN toDevice : toDevice' = RemoveAt(toDevice, k)
    BY <2>1
  <2> DEFINE m == [j \in DOMAIN toDevice' |-> IF j < k THEN j ELSE j + 1]
  <2>3. /\ DOMAIN toDevice = 1 .. Len(toDevice) /\ Len(toDevice) \in Nat
        /\ DOMAIN toDevice' = 1 .. Len(toDevice) - 1
        /\ \A j \in 1 .. Len(toDevice) - 1 : toDevice'[j] = toDevice[IF j < k THEN j ELSE j + 1]
    BY <2>1, <2>2, RemoveAtEntries, LenProperties
  <2>4. /\ \A j \in DOMAIN toDevice' : m[j] \in DOMAIN toDevice /\ toDevice'[j] = toDevice[m[j]]
        /\ \A i, j \in DOMAIN toDevice' : i < j => m[i] < m[j]
    BY <2>3
  <2> HIDE DEF m
  <2>5. Unanswered' \subseteq Unanswered
    BY <2>1, <2>4 DEF Unanswered
  <2> QED BY <2>1, <2>4, <2>5, PinPhases
<1>12. ASSUME NEW cmd \in capturing, FinishCapture(cmd) PROVE PinInv'
  <2>1. /\ capturing' = capturing \ {cmd} /\ UNCHANGED <<issued, call, toDevice, bound>>
        /\ executed' \subseteq executed \cup {cmd.serial}
    BY <1>12 DEF FinishCapture
  <2>2. Unanswered' \subseteq Unanswered /\ cmd.serial \notin Unanswered'
    BY <1>a, <2>1, FinishSerials
  <2>3. \A c \in Caller : call[c].op = "configure" => cmd.serial # call[c].serial
    BY DEF PinInv, Underway
  <2>4. ASSUME NEW c \in Caller PROVE Attempt(c)' /\ Underway(c)' /\ Configured(c)'
    <3>1. Attempt(c) /\ Underway(c) /\ Configured(c)
      BY DEF PinInv
    <3>2. Attempt(c)' /\ Underway(c)'
      BY <2>1, <3>1 DEF Attempt, Underway, Sent, KindOf
    <3> QED BY <2>1, <2>3, <3>1, <3>2 DEF Configured
  <2> QED BY <2>1, <2>2, <2>4 DEF PinInv
<1>13. ASSUME Dispatch PROVE PinInv'
  BY <1>13, <1>a, PinDispatch
<1> QED
  BY <1>1, <1>2, <1>3, <1>4, <1>5, <1>7, <1>8, <1>9, <1>10, <1>11, <1>12, <1>13
  DEF Next, CallerStep

(* As long as no two callers configure the same pin and the ids have not   *)
(* wrapped, a caller to which configure_gpio reports success finds the pin *)
(* configured: no unbind of a retry, its own, an earlier call's or an      *)
(* earlier user's of the pin, comes after the configuration that counts.   *)
THEOREM ConfiguredMeansBoundHolds ==
  Spec /\ []OwnPins => [](Unwrapped => ConfiguredMeansBound)
<1>1. Init => PinInv
  <2> SUFFICES ASSUME Init PROVE PinInv
    OBVIOUS
  <2>1. executed = {} /\ \A c \in Caller : call[c] = NoCall
    BY DEF Init
  <2>2. NoCall.pc = "idle" /\ NoCall.op = "set" /\ NoCall.stage = "only"
    BY DEF NoCall
  <2> QED BY <2>1, <2>2 DEF PinInv, Attempt, Underway, Configured
<1>2. Spec /\ []OwnPins => []PinInv
  BY <1>1, PinStep, TypeCorrect, OnceInvariance, PTL DEF Spec
<1>3. PinInv /\ SuccessMeansExecuted => (Unwrapped => ConfiguredMeansBound)
  <2> SUFFICES ASSUME PinInv, SuccessMeansExecuted, Unwrapped, NEW c \in Caller,
                      call[c].op = "configure", call[c].pc \in {"report", "idle"},
                      Succeeded(call[c])
               PROVE  call[c].gpio \in bound
    BY DEF ConfiguredMeansBound
  <2>1. call[c].op \in Correlated
    BY DEF Correlated, AllOps
  <2>2. call[c].serial \in executed
    BY <2>1 DEF SuccessMeansExecuted
  <2>3. Attempt(c) /\ Configured(c)
    BY DEF PinInv
  <2> QED BY <2>2, <2>3 DEF Attempt, Configured
<1> QED BY <1>2, <1>3, SuccessMeansExecutedHolds, PTL

=============================================================================
