-------------------------------- MODULE Wire --------------------------------
(***************************************************************************)
(* One direction of the TCP connection between bridge and device, byte by  *)
(* byte: frames are packed, written one after the other, received in       *)
(* pieces of any size, cut into frames again and unpacked.  With           *)
(* receiver = "bridge" the frames are events and the parser is             *)
(* IoTAgentServer._client_handler with EventHandler._parse_event; with     *)
(* receiver = "device" they are commands and the parser is the receive     *)
(* loop of tcp_client_task with the structs of handle_command.  A captured *)
(* signal then goes through apply_resolution.                              *)
(***************************************************************************)
EXTENDS Protocol, SignalFilter, FiniteSets

CONSTANTS
    Followers,     \* what may follow the first frame
    Items,         \* numbers of items of a counted message
    Pulses,        \* pulses a captured signal may have
    MaxPulses,     \* bound: pulses of a captured signal
    MaxFrames,     \* bound: frames on the connection
    Presets,       \* resolutions of receive_signal: names
    Resolutions    \* and numbers of microseconds

\* The count of a BLE_IN_RANGE_LIST is a byte; the platform asks for 256 edges
\* at most (models/schemas.py:55, 67), and a frame has room for either.
ASSUME WireAssumption ==
    /\ Items \subseteq Nat /\ \A n \in Items : n <= 255
    /\ MaxFrames \in Nat /\ MaxPulses \in Nat /\ MaxPulses <= 256
    /\ Pulses \subseteq [level : {0, 1}, us : Nat]
    /\ \A p \in Pulses : p.us > 0 /\ p.us < 65536
    /\ Resolutions \subseteq Int

VARIABLES
    receiver,   \* "bridge" or "device"
    sent,       \* the messages, as their sender laid them out
    stream,     \* bytes written and not received
    buffer,     \* bytes received and not parsed
    handled     \* the messages, as the receiver read them

wireVars == <<receiver, sent, stream, buffer, handled>>

-----------------------------------------------------------------------------
(* Packing                                                                 *)

\* A field of some width with number n, and one with bytes all of its own.
Little(n, width) ==
    [j \in 1..width |-> IF j = 1 THEN n % 256 ELSE IF j = 2 THEN n \div 256 ELSE 0]
Own(i, width)    == [j \in 1..width |-> 16 * i + j]

\* A message with layout l and n items, whose bytes are items.
Filled(name, l, n, items) ==
    [name   |-> name,
     fields |-> [i \in 1..Len(l.fields) |->
                    IF i = l.count THEN Little(n, l.fields[i]) ELSE Own(i, l.fields[i])],
     items  |-> items]

\* build_signal_capture_payload: five bytes for each pulse.
PulseBytes(pulses) ==
    FlattenSeq([k \in 1..Len(pulses) |-> <<pulses[k].level>> \o Little(pulses[k].us, I)])

Messages(name, l) ==
    IF l.count = 0 THEN {Filled(name, l, 0, <<>>)}
    ELSE IF name = "GPIO_SIGNAL_CAPTURED"
    THEN {Filled(name, l, Len(ps), PulseBytes(ps)) : ps \in BoundedSeq(Pulses, MaxPulses)}
    ELSE {Filled(name, l, n, [k \in 1..(n * l.unit) |-> (200 + k) % 256]) : n \in Items}

\* The sender's opcodes and layouts.
Opcode == IF receiver = "bridge" THEN EVENT ELSE CommandOpcode
Layout == IF receiver = "bridge" THEN EventStruct ELSE CommandLayout

\* send_event and CommandDispatcher._send_command with MessageFrame.to_bytes:
\* version, type, length, id, CRC, opcode, payload.  Neither side ever checks
\* the CRC; its bytes and those of the id are left zero.
Frame(m) ==
    LET payload == <<Opcode[m.name]>> \o (FlattenSeq(m.fields) \o m.items)
    IN  <<1, IF receiver = "bridge" THEN 3 ELSE 1, Len(payload) % 256, Len(payload) \div 256,
          0, 0, 0, 0>> \o payload

-----------------------------------------------------------------------------
(* Parsing                                                                 *)

\* Layout l read from data; no message when the data is too short for it or,
\* for an exact layout, too long.
Unpack(name, l, data) ==
    LET fields == [i \in 1..Len(l.fields) |->
                      SubSeq(data, Offset(l, i) + 1, Offset(l, i) + l.fields[i])]
        n      == IF l.count = 0 THEN 0 ELSE Number(fields[l.count]) * l.unit
        end    == IF Size(l) + n < Len(data) THEN Size(l) + n ELSE Len(data)
    IN  IF Len(data) < Size(l) \/ (l.exact /\ Len(data) # Size(l)) THEN <<>>
        ELSE << [name |-> name, fields |-> fields, items |-> SubSeq(data, Size(l) + 1, end)] >>

\* handle_event with _parse_event: an unknown opcode and a payload that cannot
\* be read are dropped.
ReadEvent(payload) ==
    LET names == {n \in DOMAIN EventOpcode : payload # <<>> /\ EventOpcode[n] = payload[1]}
        data  == Tail(payload)
    IN  IF names = {} THEN <<>>
        ELSE LET n == CHOOSE x \in names : TRUE
             IN  Unpack(n, EventLayout(n, Len(data)), data)

\* handle_command: only a GPIO_SIGNAL_TX has its length checked.
ReadCommand(payload) ==
    LET names == {n \in DOMAIN CMD : CMD[n] = payload[1]}
    IN  IF names = {} THEN <<>>
        ELSE LET n == CHOOSE x \in names : TRUE
             IN  Unpack(n, CommandStruct[n], Tail(payload))

HeaderSize  == 8
PayloadSize == buffer[3] + 256 * buffer[4]
MaxPayload  == IF receiver = "bridge" THEN 4096 ELSE 8192

\* Whether the loop over the buffer goes on.
CanParse ==
    /\ Len(buffer) >= HeaderSize
    /\ PayloadSize > MaxPayload \/ Len(buffer) >= HeaderSize + PayloadSize

-----------------------------------------------------------------------------
WireInit ==
    /\ receiver \in {"bridge", "device"}
    /\ sent = <<>> /\ stream = <<>> /\ buffer = <<>> /\ handled = <<>>

\* The sender writes a frame (no longer than the receiver takes).
Send ==
    /\ Len(sent) < MaxFrames
    /\ \E name \in IF sent = <<>> THEN DOMAIN Layout ELSE Followers \intersect DOMAIN Layout :
         \E m \in Messages(name, Layout[name]) :
            /\ sent' = Append(sent, m)
            /\ stream' = stream \o Frame(m)
    /\ UNCHANGED <<receiver, buffer, handled>>

\* recv returns some of the bytes; the loop over the buffer has ended before.
Receive ==
    /\ ~CanParse
    /\ \E n \in 1..Len(stream) :
        /\ buffer' = buffer \o SubSeq(stream, 1, n)
        /\ stream' = SubSeq(stream, n + 1, Len(stream))
    /\ UNCHANGED <<receiver, sent, handled>>

\* One turn of the bridge's loop: an impossible length costs a byte.
ParseEvent ==
    /\ receiver = "bridge" /\ CanParse
    /\ IF PayloadSize > MaxPayload
       THEN /\ buffer' = Tail(buffer)
            /\ UNCHANGED handled
       ELSE LET end == HeaderSize + PayloadSize
            IN  /\ buffer' = SubSeq(buffer, end + 1, Len(buffer))
                /\ handled' = IF buffer[2] = 3
                              THEN handled \o ReadEvent(SubSeq(buffer, HeaderSize + 1, end))
                              ELSE handled
    /\ UNCHANGED <<receiver, sent, stream>>

\* Mutant: one frame for each recv.
ParseCommandOnce ==
    /\ receiver = "device" /\ CanParse
    /\ buffer' = <<>>
    /\ handled' = handled \o ReadCommand(SubSeq(buffer, HeaderSize + 1, HeaderSize + PayloadSize))
    /\ UNCHANGED <<receiver, sent, stream>>

\* One turn of the device's loop: an impossible length costs the buffer.
ParseCommand ==
    /\ receiver = "device" /\ CanParse
    /\ IF PayloadSize > MaxPayload
       THEN /\ buffer' = <<>>
            /\ UNCHANGED handled
       ELSE LET end == HeaderSize + PayloadSize
            IN  /\ buffer' = SubSeq(buffer, end + 1, Len(buffer))
                /\ handled' = handled \o ReadCommand(SubSeq(buffer, HeaderSize + 1, end))
    /\ UNCHANGED <<receiver, sent, stream>>

WireNext == Send \/ Receive \/ ParseEvent \/ ParseCommand

WireSpec == WireInit /\ [][WireNext]_wireVars

-----------------------------------------------------------------------------
(* Properties                                                              *)

\* r is what m says: the same message, every field that is read where it was
\* written, and all the items.  (The bridge reads an EVENT_ERROR up to the
\* code, and the device ignores the reason of a BLE_DISABLE_PAIRING.)
Means(r, m) ==
    /\ r.name = m.name
    /\ IsPrefix(r.fields, m.fields)
    /\ r.items = m.items
    /\ Len(r.fields) < Len(m.fields) => m.name \in {"ERROR", "BLE_DISABLE_PAIRING"}

\* Bytes up to the end of the i-th frame.
Bytes(ms)   == FoldLeft(LAMBDA s, m : s + Len(Frame(m)), 0, ms)
FrameEnd(i) == Bytes(SubSeq(sent, 1, i))

\* However the stream is cut into pieces, the receiver reads exactly the
\* messages whose last byte has arrived, in order, and reads in them what the
\* sender of the other language put there: the loops of server.py:240 and
\* tcp_client.c:183, and the layouts of protocol.py and iot_agent.h, agree.
Understood ==
    LET arrived == FrameEnd(Len(sent)) - Len(stream)
        whole   == {i \in 1..Len(sent) : FrameEnd(i) <= arrived}
    IN  /\ Len(handled) <= Cardinality(whole)
        /\ ~CanParse => Len(handled) = Cardinality(whole)
        /\ \A i \in 1..Len(handled) : Means(handled[i], sent[i])

\* The pulses EventGpioSignalCaptured.from_bytes finds in the items.
PulsesOf(items) ==
    [k \in 1..(Len(items) \div 5) |->
        [level |-> items[5 * k - 4], us |-> Number(SubSeq(items, 5 * k - 3, 5 * k))]]

\* apply_resolution (client.py:55) keeps no pulse narrower than the resolution,
\* no two neighbours of one level, and all of the time; a capture that is
\* nothing but glitches becomes no pulse at all.
GlitchFree ==
    \A i \in 1..Len(handled) : handled[i].name = "GPIO_SIGNAL_CAPTURED" =>
        \A name \in Presets, number \in Resolutions :
            LET pulses == PulsesOf(handled[i].items)
                us     == ResolveResolution(name, number)
                merged == ApplyResolution(pulses, us)
            IN  /\ \A k \in 1..Len(merged) : merged[k].us >= us
                /\ us > 1 => \A k \in 2..Len(merged) : merged[k].level # merged[k - 1].level
                /\ IF \A k \in 1..Len(pulses) : pulses[k].us < us
                   THEN merged = <<>> ELSE TotalTime(merged) = TotalTime(pulses)
=============================================================================
