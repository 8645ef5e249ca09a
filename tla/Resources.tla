------------------------------ MODULE Resources ------------------------------
(***************************************************************************)
(* GPIO pins and UARTs of the device: gpio_table and uart_table, the       *)
(* commands of handle_command (command_dispatcher.c) that change them, the *)
(* drivers behind them, and the copies in NVS that nvs_store.c saves after *)
(* a command and restores after a restart.                                 *)
(*                                                                         *)
(* The dispatcher task takes one command at a time; between its steps an   *)
(* edge interrupt may strike and the device may lose power.  A command     *)
(* that is refused changes nothing and is left out, like the readings that *)
(* change no table (ADC_SAMPLE, PORT_STATUS) and the bytes of a UART.      *)
(* Pull, edge, baud rate and framing parameters are left out of the rows;  *)
(* tx_pin and rx_pin are one set, without the numbers that name no pin.    *)
(***************************************************************************)
EXTENDS Naturals, FiniteSets

CONSTANTS
  Pin,               \* GPIO numbers below 31
  IOT_UART_NUM_MAX,  \* how many UARTs there are
  Wiring,            \* the sets of pins that UART_CONFIG may name
  NoSubject,         \* the dispatcher has no command in hand
  MaxCommands        \* bound on the commands of one behaviour

Uart == 0 .. IOT_UART_NUM_MAX - 1

ASSUME ResourcesAssumption ==
  /\ IOT_UART_NUM_MAX \in Nat \ {0}
  /\ Wiring \subseteq SUBSET Pin
  /\ NoSubject \notin Pin \cup Uart
  /\ MaxCommands \in Nat

VARIABLES
  gpio,         \* gpio_table
  uart,         \* uart_table
  level,        \* output registers of the pins
  irq,          \* pins whose edge interrupt is enabled
  driver,       \* UARTs whose driver, with its event queue, is installed
  nvs,          \* the blobs gpio_cfg and uart_cfg
  step,         \* where the dispatcher is in handle_command
  subject,      \* the pin or UART its command names
  ackedPin,     \* history: what acknowledged commands made of a pin
  ackedUart,    \* history: what acknowledged commands made of a UART
  gpio_stored,  \* history: the last nvs_save_gpio_all succeeded
  uart_stored,  \* history: the last nvs_save_uart_all succeeded
  commands      \* how many commands were taken

tables   == <<gpio, uart>>
hardware == <<level, irq, driver>>
at       == <<step, subject>>
history  == <<ackedPin, ackedUart, gpio_stored, uart_stored, commands>>
vars     == <<gpio, uart, level, irq, driver, nvs, step, subject, ackedPin, ackedUart,
              gpio_stored, uart_stored, commands>>

Bit == {0, 1}

(* ADC and SIGNAL are set up and restored as INPUT is. *)
GpioMode == {"input", "output", "inout", "interrupt"}
Driven   == {"output", "inout"}

(* A row of gpio_table whose mode is 0xFF, and one without a user. *)
FreePin  == [mode |-> "none", value |-> 0, in_use |-> FALSE, owner |-> 0]
FreeUart == [in_use |-> FALSE, pins |-> {}, queue |-> FALSE]

(* The row of a pin that owner uses, or that nobody uses any more.         *)
UsedBy(row, owner) == [row EXCEPT !.in_use = TRUE, !.owner = owner]
Unused(row)        == [row EXCEPT !.in_use = FALSE, !.owner = 0]

Anything == [mode |-> "unknown", levels |-> Bit]

(* is_uart_gpio *)
UartPins == UNION {uart[u].pins : u \in {w \in Uart : uart[w].in_use}}

Init ==
  /\ gpio = [g \in Pin |-> FreePin]
  /\ uart = [u \in Uart |-> FreeUart]
  /\ level = [g \in Pin |-> 0]
  /\ irq = [g \in Pin |-> FALSE]
  /\ driver = [u \in Uart |-> FALSE]
  /\ nvs = [gpio |-> [g \in Pin |-> [mode |-> "none", value |-> 0]],
            uart |-> [u \in Uart |-> [in_use |-> FALSE, pins |-> {}]]]
  /\ step = "idle"
  /\ subject = NoSubject
  /\ ackedPin = [g \in Pin |-> [mode |-> "none", levels |-> Bit]]
  /\ ackedUart = [u \in Uart |-> [known |-> TRUE, pins |-> {}]]
  /\ gpio_stored = TRUE
  /\ uart_stored = TRUE
  /\ commands = 0

Go(s, x) == step' = s /\ subject' = x

Answered == Go("idle", NoSubject)

(* The dispatcher has answered the last command and takes another. *)
TakeCommand ==
  /\ step = "idle"
  /\ commands < MaxCommands
  /\ commands' = commands + 1

(* A command on x was taken: what was acknowledged of x stands no longer. *)
ForgetPins(P) == ackedPin' = [g \in Pin |-> IF g \in P THEN Anything ELSE ackedPin[g]]

ForgetUarts(U) ==
  ackedUart' = [u \in Uart |-> IF u \in U THEN [known |-> FALSE, pins |-> {}] ELSE ackedUart[u]]

-----------------------------------------------------------------------------
(* Commands on a pin.                                                      *)

(* GPIO_CONFIG: the row, under the mutex, ... *)
GpioConfig(g, m) ==
  /\ TakeCommand
  /\ Go("apply", g)
  /\ gpio' = [gpio EXCEPT ![g] = UsedBy([@ EXCEPT !.mode = m], 0)]
  /\ ForgetPins({g})
  /\ UNCHANGED <<uart, hardware, nvs, ackedUart, gpio_stored, uart_stored>>

(* ... then the pin: gpio_config and, for INTERRUPT, the handler. *)
ApplyConfig ==
  /\ step = "apply"
  /\ Go("save_gpio", subject)
  /\ irq' = [irq EXCEPT ![subject] = gpio[subject].mode = "interrupt"]
  /\ UNCHANGED <<tables, level, driver, nvs, history>>

GpioSet(g, v) ==
  /\ TakeCommand
  /\ gpio[g].in_use
  /\ gpio[g].mode \in Driven
  /\ g \notin UartPins
  /\ Go("save_level", g)
  /\ level' = [level EXCEPT ![g] = v]
  /\ gpio' = [gpio EXCEPT ![g].value = v]
  /\ ForgetPins({g})
  /\ UNCHANGED <<uart, irq, driver, nvs, ackedUart, gpio_stored, uart_stored>>

(* The table keeps what was read; an OUTPUT is not read. *)
GpioGet(g) ==
  /\ TakeCommand
  /\ gpio[g].mode # "output"
  /\ \E v \in Bit : gpio' = [gpio EXCEPT ![g].value = v]
  /\ UNCHANGED <<uart, hardware, nvs, at, ackedPin, ackedUart, gpio_stored, uart_stored>>

PinBind(g, owner) ==
  /\ TakeCommand
  /\ ~gpio[g].in_use
  /\ gpio' = [gpio EXCEPT ![g] = UsedBy(@, owner)]
  /\ ForgetPins({g})
  /\ UNCHANGED <<uart, hardware, nvs, at, ackedUart, gpio_stored, uart_stored>>

PinUnbind(g) ==
  /\ TakeCommand
  /\ gpio[g].in_use
  /\ Go("release", g)
  /\ gpio' = [gpio EXCEPT ![g] = FreePin]
  /\ ForgetPins({g})
  /\ UNCHANGED <<uart, hardware, nvs, ackedUart, gpio_stored, uart_stored>>

(* Variant: the interrupt of the pin is left as it is.                     *)
ReleasePinNotIrq ==
  /\ step = "release"
  /\ Go("save_gpio", subject)
  /\ UNCHANGED <<tables, hardware, nvs, history>>

(* gpio_isr_handler_remove, gpio_reset_pin *)
ReleasePin ==
  /\ step = "release"
  /\ Go("save_gpio", subject)
  /\ irq' = [irq EXCEPT ![subject] = FALSE]
  /\ UNCHANGED <<tables, level, driver, nvs, history>>

(* gpio_isr_handler, on an edge of the pin *)
Edge(g) ==
  /\ irq[g]
  /\ \E v \in Bit : gpio' = [gpio EXCEPT ![g].value = v]
  /\ UNCHANGED <<uart, hardware, nvs, at, history>>

(* The rows a GPIO save writes. *)
GpioBlob ==
  [g \in Pin |-> IF gpio[g].mode # "none" /\ gpio[g].in_use
                   THEN [mode |-> gpio[g].mode, value |-> gpio[g].value]
                   ELSE [mode |-> "none", value |-> 0]]

(* What the ACK of the command in hand promises of its pin.  A level is    *)
(* promised of an OUTPUT only: a reading may overwrite an INPUT_OUTPUT.    *)
Promise ==
  [mode   |-> gpio[subject].mode,
   levels |-> IF step = "save_level" /\ gpio[subject].mode = "output"
                THEN {gpio[subject].value} ELSE Bit]

(* nvs_save_gpio_all, which may fail unnoticed, and the ACK *)
SaveGpio ==
  /\ step \in {"save_gpio", "save_level"}
  /\ Answered
  /\ \/ nvs' = [nvs EXCEPT !.gpio = GpioBlob] /\ gpio_stored' = TRUE
     \/ nvs' = nvs /\ gpio_stored' = FALSE
  /\ ackedPin' = [ackedPin EXCEPT ![subject] = Promise]
  /\ UNCHANGED <<tables, hardware, ackedUart, uart_stored, commands>>

-----------------------------------------------------------------------------
(* Commands on a UART.                                                     *)

(* UART_CONFIG: the rows, under the mutex.  Owner 0 is UART 0 as well as   *)
(* the owner of pins that no UART has.                                     *)
Freed(u) == {g \in uart[u].pins : gpio[g].owner = u}

UartConfig(u, pins) ==
  /\ TakeCommand
  /\ Go("unqueue", u)
  /\ gpio' = [g \in Pin |-> IF g \in pins THEN UsedBy(gpio[g], u)
                            ELSE IF g \in Freed(u) THEN Unused(gpio[g])
                            ELSE gpio[g]]
  /\ uart' = [uart EXCEPT ![u] = [@ EXCEPT !.pins = pins, !.in_use = TRUE]]
  /\ ForgetPins(pins \cup Freed(u))
  /\ ForgetUarts({u})
  /\ UNCHANGED <<hardware, nvs, gpio_stored, uart_stored>>

(* Variant: the old queue stays in the table until the new one is there.   *)
UnqueueLate ==
  /\ step = "unqueue"
  /\ Go("install", subject)
  /\ UNCHANGED <<tables, hardware, nvs, history>>

(* The table lets go of the event queue before the driver does. *)
Unqueue ==
  /\ step = "unqueue"
  /\ Go("install", subject)
  /\ uart' = [uart EXCEPT ![subject].queue = FALSE]
  /\ UNCHANGED <<gpio, hardware, nvs, history>>

(* uart_driver_delete, uart_param_config, uart_set_pin,                    *)
(* uart_driver_install: where one fails, EVENT_ERROR is the answer.        *)
(* uart_set_pin fails when no pin was named.                               *)
Install ==
  /\ step = "install"
  /\ \E ok \in {uart[subject].pins # {}, FALSE} :
       /\ driver' = [driver EXCEPT ![subject] = ok]
       /\ IF ok THEN Go("publish", subject) ELSE Answered
  /\ UNCHANGED <<tables, level, irq, nvs, history>>

Publish ==
  /\ step = "publish"
  /\ Go("save_uart", subject)
  /\ uart' = [uart EXCEPT ![subject].queue = TRUE]
  /\ UNCHANGED <<gpio, hardware, nvs, history>>

UartBind(u) ==
  /\ TakeCommand
  /\ ~uart[u].in_use
  /\ uart' = [uart EXCEPT ![u].in_use = TRUE]
  /\ ForgetUarts({u})
  /\ UNCHANGED <<gpio, hardware, nvs, at, ackedPin, gpio_stored, uart_stored>>

(* PORT_UNBIND: the rows of its pins stay as they are. *)
UartUnbind(u) ==
  /\ TakeCommand
  /\ uart[u].in_use
  /\ Go("delete", u)
  /\ uart' = [uart EXCEPT ![u] = FreeUart]
  /\ ForgetUarts({u})
  /\ UNCHANGED <<gpio, hardware, nvs, ackedPin, gpio_stored, uart_stored>>

DeleteDriver ==
  /\ step = "delete"
  /\ Go("save_uart", subject)
  /\ driver' = [driver EXCEPT ![subject] = FALSE]
  /\ UNCHANGED <<tables, level, irq, nvs, history>>

(* Variant: only UARTs with a queue are written; others keep their row.    *)
UartBlobOfQueues ==
  [u \in Uart |-> IF uart[u].queue THEN [in_use |-> TRUE, pins |-> uart[u].pins] ELSE nvs.uart[u]]

UartBlob == [u \in Uart |-> [in_use |-> uart[u].in_use, pins |-> uart[u].pins]]

(* nvs_save_uart_all, which may fail unnoticed, and the ACK *)
SaveUart ==
  /\ step = "save_uart"
  /\ Answered
  /\ \/ nvs' = [nvs EXCEPT !.uart = UartBlob] /\ uart_stored' = TRUE
     \/ nvs' = nvs /\ uart_stored' = FALSE
  /\ ackedUart' = [ackedUart EXCEPT ![subject] = [known |-> TRUE, pins |-> uart[subject].pins]]
  /\ UNCHANGED <<tables, hardware, ackedPin, gpio_stored, commands>>

-----------------------------------------------------------------------------
(* Power is lost at any moment; app_main starts over.                      *)

(* The UARTs of NVS that have pin g; the last one restored gets it. *)
Claimants(g) == {u \in Uart : g \in nvs.uart[u].pins}

LastClaimant(g) ==
  IF Claimants(g) = {} THEN 0 ELSE CHOOSE u \in Claimants(g) : \A w \in Claimants(g) : w <= u

(* _nvs_restore_gpio, then the pins that _nvs_restore_uart takes *)
RestoredPin(g) ==
  LET row == nvs.gpio[g]
  IN  [mode   |-> row.mode,
       value  |-> IF row.mode \in Driven THEN row.value ELSE 0,
       in_use |-> row.mode # "none" \/ Claimants(g) # {},
       owner  |-> LastClaimant(g)]

(* Variant: gpio_set_level is left to the next command.                    *)
RestoredLevelLow(g) == 0

RestoredLevel(g) == IF nvs.gpio[g].mode \in Driven THEN nvs.gpio[g].value ELSE 0

RestoredIrq(g) == nvs.gpio[g].mode = "interrupt"

(* A driver that fails leaves the UART in use, without a queue. *)
RestoredUart(u, up) ==
  [in_use |-> nvs.uart[u].in_use, pins |-> nvs.uart[u].pins, queue |-> u \in up]

(* Restoring writes nothing to NVS, so losing power again on the way       *)
(* changes nothing: it is one step.  What was not stored is forgotten, and *)
(* so is what a pin was before the restored UARTs took it.                 *)
Restart ==
  /\ \E up \in SUBSET {u \in Uart : nvs.uart[u].pins # {}} :
       /\ uart' = [u \in Uart |-> RestoredUart(u, up)]
       /\ driver' = [u \in Uart |-> u \in up]
  /\ gpio' = [g \in Pin |-> RestoredPin(g)]
  /\ level' = [g \in Pin |-> RestoredLevel(g)]
  /\ irq' = [g \in Pin |-> RestoredIrq(g)]
  /\ Go("idle", NoSubject)
  /\ ForgetPins({g \in Pin : ~gpio_stored \/ Claimants(g) # {}})
  /\ ForgetUarts(IF uart_stored THEN {} ELSE Uart)
  /\ gpio_stored' = TRUE
  /\ uart_stored' = TRUE
  /\ UNCHANGED <<nvs, commands>>

PinCommand(g) ==
  \/ \E m \in GpioMode : GpioConfig(g, m)
  \/ \E v \in Bit : GpioSet(g, v)
  \/ GpioGet(g)
  \/ \E o \in Uart : PinBind(g, o)
  \/ PinUnbind(g)

UartCommand(u) ==
  \/ \E pins \in Wiring : UartConfig(u, pins)
  \/ UartBind(u)
  \/ UartUnbind(u)

Next ==
  \/ \E g \in Pin : PinCommand(g) \/ Edge(g)
  \/ \E u \in Uart : UartCommand(u)
  \/ ApplyConfig \/ ReleasePin \/ SaveGpio
  \/ Unqueue \/ Install \/ Publish \/ DeleteDriver \/ SaveUart
  \/ Restart

Spec == Init /\ [][Next]_vars

-----------------------------------------------------------------------------
(* Properties.                                                             *)

PinSteps  == {"apply", "release", "save_gpio", "save_level"}
UartSteps == {"unqueue", "install", "publish", "delete", "save_uart"}

GpioRow  == [mode : GpioMode \cup {"none"}, value : Bit, in_use : BOOLEAN, owner : Uart]
UartRow  == [in_use : BOOLEAN, pins : SUBSET Pin, queue : BOOLEAN]
GpioCopy == [mode : GpioMode \cup {"none"}, value : Bit]
UartCopy == [in_use : BOOLEAN, pins : SUBSET Pin]
PinAck   == [mode : GpioMode \cup {"none", "unknown"}, levels : SUBSET Bit]
UartAck  == [known : BOOLEAN, pins : SUBSET Pin]

(* Every variable has its type, and the command in hand names a pin or a   *)
(* UART according to its step.                                             *)
TypeOK ==
  /\ gpio \in [Pin -> GpioRow]
  /\ uart \in [Uart -> UartRow]
  /\ level \in [Pin -> Bit]
  /\ irq \in [Pin -> BOOLEAN]
  /\ driver \in [Uart -> BOOLEAN]
  /\ nvs \in [gpio : [Pin -> GpioCopy], uart : [Uart -> UartCopy]]
  /\ \/ step = "idle" /\ subject = NoSubject
     \/ step \in PinSteps /\ subject \in Pin
     \/ step \in UartSteps /\ subject \in Uart
  /\ ackedPin \in [Pin -> PinAck]
  /\ ackedUart \in [Uart -> UartAck]
  /\ gpio_stored \in BOOLEAN
  /\ uart_stored \in BOOLEAN
  /\ commands \in 0..MaxCommands

(* What an acknowledged GPIO_CONFIG, GPIO_SET or PORT_UNBIND made of a pin *)
(* it remains, mode and level, driven and reported, whatever happens to    *)
(* other pins and UARTs, and across a restart unless saving failed; until  *)
(* the next command on it, or a UART that takes it or gives it back.       *)
PinsAsAcknowledged ==
  \A g \in Pin : ackedPin[g].mode # "unknown" =>
    /\ gpio[g].mode = ackedPin[g].mode
    /\ gpio[g].in_use = (ackedPin[g].mode # "none")
    /\ {level[g], gpio[g].value} \subseteq ackedPin[g].levels

(* A UART remains wired as its last command was acknowledged, or unbound,  *)
(* across a restart too unless saving failed.  (A failed UART_CONFIG and a *)
(* PORT_BIND, which is not saved, leave open what it is.)                  *)
UartsAsAcknowledged ==
  \A u \in Uart : ackedUart[u].known =>
    /\ uart[u].pins = ackedUart[u].pins
    /\ uart[u].in_use = (ackedUart[u].pins # {})

(* uart_rx_task, which reads the table between any two steps of the        *)
(* dispatcher, never finds the event queue of a driver that was deleted.   *)
TableQueueLive == \A u \in Uart : uart[u].queue => driver[u]

(* The pins that report edges are those configured as INTERRUPT, also      *)
(* after a restart, but for the pin whose command is under way.            *)
EdgesFromInterruptPins ==
  \A g \in Pin :
    \/ irq[g] <=> gpio[g].mode = "interrupt"
    \/ step \in {"apply", "release"} /\ subject = g
=============================================================================
