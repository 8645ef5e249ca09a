------------------------------ MODULE Protocol ------------------------------
(***************************************************************************)
(* The messages of the wire protocol as the two sides lay them out:        *)
(* bridge/src/protocol.py with the struct formats of its to_bytes and      *)
(* from_bytes, and include/iot_agent.h with the packed structs the         *)
(* firmware overlays on a payload.                                         *)
(*                                                                         *)
(* A field is the sequence of its bytes, so a layout is the widths of the  *)
(* fields in order; both sides are little-endian and pack without padding, *)
(* and what an integer of the same width means is the same on both.  A     *)
(* message may end in a number of items, which one of the fields counts.   *)
(***************************************************************************)
EXTENDS Naturals, Sequences, SequencesExt

B == 1      \* one byte: u8, i8
H == 2      \* u16
I == 4      \* u32, float
Q == 8      \* i64
Mac == 6    \* a BLE address or a PIN code

\* fields: widths; count: the field that counts the items, 0 for none; unit:
\* bytes of an item; exact: whether a longer payload is refused.
Fixed(fs)         == [fields |-> fs, count |-> 0, unit |-> 0, exact |-> FALSE]
Exact(fs)         == [fields |-> fs, count |-> 0, unit |-> 0, exact |-> TRUE]
Counted(fs, i, u) == [fields |-> fs, count |-> i, unit |-> u, exact |-> FALSE]

Widths(fs) == FoldLeft(LAMBDA s, w : s + w, 0, fs)

\* Bytes of the fields before field i.
Offset(l, i) == Widths(SubSeq(l.fields, 1, i - 1))
Size(l)      == Offset(l, Len(l.fields) + 1)

\* The number in a little-endian field (of the sizes that occur).
Number(field) == IF Len(field) = 1 THEN field[1] ELSE field[1] + 256 * field[2]

-----------------------------------------------------------------------------
(* The bridge: commands, as to_bytes packs them                            *)

CmdGpioConfig         == Fixed(<<B, B, B, B>>)
CmdGpioSet            == Fixed(<<B, B>>)
CmdGpioGet            == Fixed(<<B>>)
CmdAdcSample          == Fixed(<<B, B>>)
CmdGpioSignalTx       == Counted(<<B, H, I, I, I, H, I>>, 2, B + I)
CmdGpioSignalRx       == Fixed(<<B, I, H>>)
CmdGpioSignalExchange == Counted(<<B, H, I, I, I, I, H>>, 2, B + I)
CmdUartConfig         == Fixed(<<B, I, B, B, B, B, B>>)
CmdUartSend           == Counted(<<B, H>>, 2, 1)
CmdUartRead           == Fixed(<<B, H>>)
CmdPortBind           == Fixed(<<B, B, H>>)
CmdPortUnbind         == Fixed(<<B, B>>)
CmdPortStatus         == Fixed(<<B, B>>)
CmdThreadPassthrough  == Counted(<<H, H, I>>, 2, 1)
CmdSyncRequest        == Fixed(<<>>)
CmdSyn                == Fixed(<<I, B>>)
CmdHeartbeat          == Fixed(<<I>>)
CmdBleEnablePairing   == Fixed(<<I>>)
CmdBleDisablePairing  == Fixed(<<B>>)
CmdBleGetInRange      == Fixed(<<>>)
CmdBleStartScan       == Fixed(<<I>>)
CmdBleStopScan        == Fixed(<<>>)
CmdBleDeleteBond      == Fixed(<<Mac>>)

\* protocol.py: opcodes of commands.
CommandOpcode == [
    GPIO_CONFIG |-> 16, GPIO_SET |-> 17, GPIO_GET |-> 18, ADC_SAMPLE |-> 19,
    GPIO_SIGNAL_TX |-> 20, GPIO_SIGNAL_RX |-> 21, GPIO_SIGNAL_EXCHANGE |-> 22,
    UART_CONFIG |-> 32, UART_SEND |-> 33, UART_READ |-> 34,
    PORT_BIND |-> 48, PORT_UNBIND |-> 49, PORT_STATUS |-> 50,
    THREAD_PASSTHROUGH |-> 64, SYNC_REQUEST |-> 1, SYN |-> 2,
    BLE_ENABLE_PAIRING |-> 80, BLE_DISABLE_PAIRING |-> 81, BLE_GET_IN_RANGE |-> 82,
    BLE_START_SCAN |-> 83, BLE_STOP_SCAN |-> 84, BLE_DELETE_BOND |-> 85,
    HEARTBEAT |-> 254, PING |-> 255]

\* CommandDispatcher: which structure each method packs for its opcode.
CommandLayout == [
    GPIO_CONFIG |-> CmdGpioConfig, GPIO_SET |-> CmdGpioSet, GPIO_GET |-> CmdGpioGet,
    ADC_SAMPLE |-> CmdAdcSample, GPIO_SIGNAL_TX |-> CmdGpioSignalTx,
    GPIO_SIGNAL_RX |-> CmdGpioSignalRx, GPIO_SIGNAL_EXCHANGE |-> CmdGpioSignalExchange,
    UART_CONFIG |-> CmdUartConfig, UART_SEND |-> CmdUartSend, UART_READ |-> CmdUartRead,
    PORT_BIND |-> CmdPortBind, PORT_UNBIND |-> CmdPortUnbind,
    PORT_STATUS |-> CmdPortStatus, THREAD_PASSTHROUGH |-> CmdThreadPassthrough,
    SYNC_REQUEST |-> CmdSyncRequest, SYN |-> CmdSyn,
    BLE_ENABLE_PAIRING |-> CmdBleEnablePairing,
    BLE_DISABLE_PAIRING |-> CmdBleDisablePairing,
    BLE_GET_IN_RANGE |-> CmdBleGetInRange, BLE_START_SCAN |-> CmdBleStartScan,
    BLE_STOP_SCAN |-> CmdBleStopScan, BLE_DELETE_BOND |-> CmdBleDeleteBond,
    HEARTBEAT |-> CmdHeartbeat, PING |-> Fixed(<<>>)]

-----------------------------------------------------------------------------
(* The bridge: events, as from_bytes unpacks a payload of n bytes          *)

EventCmdAck              == Exact(<<H, B, B, I>>)
EventGpioValue           == Fixed(<<H, B, B, Q>>)
EventGpioEdge            == Fixed(<<B, B, Q>>)
EventAdcValue            == Fixed(<<H, B, H, Q>>)
EventGpioSignalCaptured  == Counted(<<H, B, H, Q>>, 3, B + I)
EventUartRx              == Counted(<<B, H, Q>>, 2, 1)
EventThreadResponse      == Counted(<<H, H, I, Q>>, 2, 1)
EventSyncResponse        == Fixed(<<H, I, H, H, H>>)
EventPortStatus          == Exact(<<B, B, B, H, B, B>>)
EventBlePairingEnabled   == Fixed(<<H, Mac, I>>)
EventBlePairingDisabled  == Fixed(<<B>>)
EventBleInRangeList      == Counted(<<H, B>>, 2, Mac + B)
EventBleDeviceInRange    == Fixed(<<Mac, B>>)
EventBleDeviceOutOfRange == Fixed(<<Mac, B>>)
EventBleRssi             == Fixed(<<Mac, B, Q>>)
EventUartStatus          == Fixed(<<B, I, B, B, B, B, B, B, H>>)
EventGpioStatus          == Fixed(<<B, B, B, B, B, B, H, H, H>>)
EventBleStatus           == Fixed(<<B, B, B, I>>)

\* Eight bytes or more come from a firmware whose structure had padding.
EventHeartbeat(n) == IF n >= 8 THEN Fixed(<<I, B>>) ELSE Exact(<<I, B>>)

\* cmd_id, status and code, or cmd_id and code; the rest is a text.
EventError(n) == IF n >= 4 THEN Fixed(<<H, B, B>>) ELSE Fixed(<<H, B>>)

\* protocol.py: opcodes of events.
EventOpcode == [
    SYNC_RESPONSE |-> 102, CMD_ACK |-> 32, GPIO_VALUE |-> 33, GPIO_EDGE |-> 34,
    ADC_VALUE |-> 35, GPIO_SIGNAL_CAPTURED |-> 36, UART_RX |-> 48,
    THREAD_RESPONSE |-> 64, PORT_STATUS |-> 80, BLE_PAIRING_ENABLED |-> 96,
    BLE_PAIRING_DISABLED |-> 97, BLE_DEVICE_IN_RANGE |-> 98,
    BLE_DEVICE_OUT_OF_RANGE |-> 99, BLE_IN_RANGE_LIST |-> 100, BLE_RSSI |-> 101,
    ERROR |-> 254, HEARTBEAT |-> 253,
    GPIO_STATUS |-> 81, UART_STATUS |-> 49, BLE_STATUS |-> 103]

\* EventHandler._parse_event: which structure is read for an opcode.
EventLayout(name, n) ==
    [SYNC_RESPONSE |-> EventSyncResponse, CMD_ACK |-> EventCmdAck,
     GPIO_VALUE |-> EventGpioValue, GPIO_EDGE |-> EventGpioEdge,
     ADC_VALUE |-> EventAdcValue, GPIO_SIGNAL_CAPTURED |-> EventGpioSignalCaptured,
     UART_RX |-> EventUartRx, THREAD_RESPONSE |-> EventThreadResponse,
     PORT_STATUS |-> EventPortStatus, BLE_PAIRING_ENABLED |-> EventBlePairingEnabled,
     BLE_PAIRING_DISABLED |-> EventBlePairingDisabled,
     BLE_DEVICE_IN_RANGE |-> EventBleDeviceInRange,
     BLE_DEVICE_OUT_OF_RANGE |-> EventBleDeviceOutOfRange,
     BLE_IN_RANGE_LIST |-> EventBleInRangeList, BLE_RSSI |-> EventBleRssi,
     ERROR |-> EventError(n), HEARTBEAT |-> EventHeartbeat(n),
     GPIO_STATUS |-> EventGpioStatus, UART_STATUS |-> EventUartStatus,
     BLE_STATUS |-> EventBleStatus][name]

-----------------------------------------------------------------------------
(* The firmware                                                            *)

\* iot_agent.h: opcodes of commands and of events.
CMD == [
    GPIO_CONFIG |-> 16, GPIO_SET |-> 17, GPIO_GET |-> 18, ADC_SAMPLE |-> 19,
    GPIO_SIGNAL_TX |-> 20, GPIO_SIGNAL_RX |-> 21, GPIO_SIGNAL_EXCHANGE |-> 22,
    UART_CONFIG |-> 32, UART_SEND |-> 33, UART_READ |-> 34,
    PORT_BIND |-> 48, PORT_UNBIND |-> 49, PORT_STATUS |-> 50,
    THREAD_PASSTHROUGH |-> 64, BLE_ENABLE_PAIRING |-> 80,
    BLE_DISABLE_PAIRING |-> 81, BLE_GET_IN_RANGE |-> 82, SYNC_REQUEST |-> 1,
    SYN |-> 2, BLE_START_SCAN |-> 83, BLE_STOP_SCAN |-> 84, BLE_DELETE_BOND |-> 85,
    HEARTBEAT |-> 254, PING |-> 255]

EVENT == [
    SYNC_RESPONSE |-> 102, CMD_ACK |-> 32, GPIO_VALUE |-> 33, GPIO_EDGE |-> 34,
    ADC_VALUE |-> 35, GPIO_SIGNAL_CAPTURED |-> 36, UART_RX |-> 48,
    UART_STATUS |-> 49, THREAD_RESPONSE |-> 64, PORT_STATUS |-> 80,
    BLE_PAIRING_ENABLED |-> 96, BLE_PAIRING_DISABLED |-> 97,
    BLE_DEVICE_IN_RANGE |-> 98, BLE_DEVICE_OUT_OF_RANGE |-> 99,
    BLE_IN_RANGE_LIST |-> 100, BLE_RSSI |-> 101, BLE_STATUS |-> 103,
    ERROR |-> 254, HEARTBEAT |-> 253, GPIO_STATUS |-> 81]

\* The structures handle_command overlays on a payload; port_unbind uses
\* cmd_port_status_t.
CommandStruct == [
    GPIO_CONFIG |-> Fixed(<<B, B, B, B>>), GPIO_SET |-> Fixed(<<B, B>>),
    GPIO_GET |-> Fixed(<<B>>), ADC_SAMPLE |-> Fixed(<<B, B>>),
    GPIO_SIGNAL_TX |-> Counted(<<B, H, I, I, I, H, I>>, 2, B + I),
    GPIO_SIGNAL_RX |-> Fixed(<<B, I, H>>),
    GPIO_SIGNAL_EXCHANGE |-> Counted(<<B, H, I, I, I, I, H>>, 2, B + I),
    UART_CONFIG |-> Fixed(<<B, I, B, B, B, B, B>>),
    UART_SEND |-> Counted(<<B, H>>, 2, 1), UART_READ |-> Fixed(<<B, H>>),
    PORT_BIND |-> Fixed(<<B, B, H>>), PORT_UNBIND |-> Fixed(<<B, B>>),
    PORT_STATUS |-> Fixed(<<B, B>>),
    THREAD_PASSTHROUGH |-> Counted(<<H, H, I>>, 2, 1), SYN |-> Fixed(<<I, B>>),
    HEARTBEAT |-> Fixed(<<I>>), BLE_ENABLE_PAIRING |-> Fixed(<<I>>),
    BLE_START_SCAN |-> Fixed(<<I>>), BLE_DELETE_BOND |-> Fixed(<<Mac>>),
    SYNC_REQUEST |-> Fixed(<<>>), BLE_DISABLE_PAIRING |-> Fixed(<<>>),
    BLE_GET_IN_RANGE |-> Fixed(<<>>), BLE_STOP_SCAN |-> Fixed(<<>>),
    PING |-> Fixed(<<>>)]

\* The structures the firmware passes to send_event; an EVENT_ERROR carries an
\* event_cmd_ack_t.
EventStruct == [
    CMD_ACK |-> Fixed(<<H, B, B, I>>), ERROR |-> Fixed(<<H, B, B, I>>),
    GPIO_VALUE |-> Fixed(<<H, B, B, Q>>), GPIO_EDGE |-> Fixed(<<B, B, Q>>),
    ADC_VALUE |-> Fixed(<<H, B, H, Q>>),
    GPIO_SIGNAL_CAPTURED |-> Counted(<<H, B, H, Q>>, 3, B + I),
    UART_RX |-> Counted(<<B, H, Q>>, 2, 1),
    PORT_STATUS |-> Fixed(<<B, B, B, H, B, B>>),
    GPIO_STATUS |-> Fixed(<<B, B, B, B, B, B, H, H, H>>),
    UART_STATUS |-> Fixed(<<B, I, B, B, B, B, B, B, H>>),
    THREAD_RESPONSE |-> Counted(<<H, H, I, Q>>, 2, 1),
    SYNC_RESPONSE |-> Fixed(<<H, I, H, H, H>>), HEARTBEAT |-> Fixed(<<I, B>>),
    BLE_PAIRING_ENABLED |-> Fixed(<<H, Mac, I>>), BLE_PAIRING_DISABLED |-> Fixed(<<B>>),
    BLE_DEVICE_IN_RANGE |-> Fixed(<<Mac, B>>),
    BLE_DEVICE_OUT_OF_RANGE |-> Fixed(<<Mac, B>>),
    BLE_IN_RANGE_LIST |-> Counted(<<H, B>>, 2, Mac + B),
    BLE_RSSI |-> Fixed(<<Mac, B, Q>>), BLE_STATUS |-> Fixed(<<B, B, B, I>>)]
=============================================================================
