-------------------------- MODULE ResourcesProofs --------------------------
(* What Resources guarantees for every number of pins, UARTs, wirings and  *)
(* commands.                                                               *)
EXTENDS Resources, WellFoundedInduction, TLAPS

-----------------------------------------------------------------------------
(* A set of UARTs that is not empty has a last one: there is a least       *)
(* natural number that none of them exceeds.                               *)
LEMMA LastUart ==
  ASSUME NEW S \in SUBSET Uart, S # {}
  PROVE  \E u \in S : \A w \in S : w <= u
<1> DEFINE Bounds == {n \in Nat : \A w \in S : w <= n}
<1>1. IOT_UART_NUM_MAX \in Bounds
  BY ResourcesAssumption DEF Uart
<1>2. PICK n \in Bounds : \A m \in Bounds : ~ (m < n)
  <2>1. \E n \in Bounds : \A m \in Bounds : ~ (<<m, n>> \in OpToRel(<, Nat))
    BY <1>1, NatLessThanWellFounded, WFMin
  <2> QED BY <2>1 DEF OpToRel
<1>3. n \in S
  <2> SUFFICES ASSUME n \notin S PROVE FALSE
    OBVIOUS
  <2>1. \A w \in S : w \in Nat /\ w <= n /\ w # n
    BY ResourcesAssumption DEF Uart
  <2>2. n - 1 \in Nat /\ \A w \in S : w <= n - 1
    BY <2>1
  <2>3. n - 1 \in Bounds
    BY <2>2
  <2> QED BY <1>2, <2>3
<1> QED BY <1>3

LEMMA LastClaimantType ==
  ASSUME NEW g \in Pin
  PROVE  LastClaimant(g) \in Uart
<1>1. CASE Claimants(g) = {}
  BY <1>1, ResourcesAssumption DEF LastClaimant, Uart
<1>2. CASE Claimants(g) # {}
  BY <1>2, LastUart DEF LastClaimant, Claimants
<1> QED BY <1>1, <1>2

LEMMA UartZero == 0 \in Uart
BY ResourcesAssumption DEF Uart

(* What the commands make of a row is a row. *)
LEMMA RowTypes ==
  ASSUME NEW row \in GpioRow
  PROVE  /\ \A o \in Uart : UsedBy(row, o) \in GpioRow
         /\ Unused(row) \in GpioRow
         /\ \A m \in GpioMode : [row EXCEPT !.mode = m] \in GpioRow
         /\ \A v \in Bit : [row EXCEPT !.value = v] \in GpioRow
BY UartZero DEF GpioRow, UsedBy, Unused

-----------------------------------------------------------------------------
(* Every variable keeps its type; between commands the dispatcher has      *)
(* nothing in hand.                                                        *)
THEOREM TypeCorrect == Spec => []TypeOK
<1>1. Init => TypeOK
  BY UartZero, ResourcesAssumption DEF Init, TypeOK, FreePin, FreeUart, Bit, GpioRow, UartRow,
     GpioCopy, UartCopy, PinAck, UartAck
<1>2. TypeOK /\ [Next]_vars => TypeOK'
  <2> SUFFICES ASSUME TypeOK, [Next]_vars PROVE TypeOK'
    OBVIOUS
  <2> USE DEF TypeOK, vars, tables, hardware, at, history
  <2>1. ASSUME NEW g \in Pin, NEW m \in GpioMode, GpioConfig(g, m) PROVE TypeOK'
    <3> USE <2>1 DEF GpioConfig, Go
    <3>1. gpio' \in [Pin -> GpioRow]
      BY UartZero, RowTypes
    <3>2. ackedPin' \in [Pin -> PinAck]
      BY DEF ForgetPins, Anything, PinAck, Bit
    <3>3. commands' \in 0 .. MaxCommands
      BY ResourcesAssumption DEF TakeCommand
    <3> QED BY <3>1, <3>2, <3>3 DEF PinSteps
  <2>2. ASSUME NEW g \in Pin, NEW v \in Bit, GpioSet(g, v) PROVE TypeOK'
    <3> USE <2>2 DEF GpioSet, Go
    <3>1. gpio' \in [Pin -> GpioRow]
      BY RowTypes
    <3>2. ackedPin' \in [Pin -> PinAck]
      BY DEF ForgetPins, Anything, PinAck, Bit
    <3>3. commands' \in 0 .. MaxCommands
      BY ResourcesAssumption DEF TakeCommand
    <3> QED BY <3>1, <3>2, <3>3 DEF PinSteps
  <2>3. ASSUME NEW g \in Pin, GpioGet(g) PROVE TypeOK'
    <3> USE <2>3 DEF GpioGet
    <3>1. gpio' \in [Pin -> GpioRow]
      BY RowTypes
    <3>2. commands' \in 0 .. MaxCommands
      BY ResourcesAssumption DEF TakeCommand
    <3> QED BY <3>1, <3>2
  <2>4. ASSUME NEW g \in Pin, NEW o \in Uart, PinBind(g, o) PROVE TypeOK'
    <3> USE <2>4 DEF PinBind
    <3>1. gpio' \in [Pin -> GpioRow]
      BY RowTypes
    <3>2. ackedPin' \in [Pin -> PinAck]
      BY DEF ForgetPins, Anything, PinAck, Bit
    <3>3. commands' \in 0 .. MaxCommands
      BY ResourcesAssumption DEF TakeCommand
    <3> QED BY <3>1, <3>2, <3>3
  <2>5. ASSUME NEW g \in Pin, PinUnbind(g) PROVE TypeOK'
    <3> USE <2>5 DEF PinUnbind, Go
    <3>1. FreePin \in GpioRow
      BY UartZero DEF FreePin, GpioRow, Bit
    <3>2. ackedPin' \in [Pin -> PinAck]
      BY DEF ForgetPins, Anything, PinAck, Bit
    <3>3. commands' \in 0 .. MaxCommands
      BY ResourcesAssumption DEF TakeCommand
    <3> QED BY <3>1, <3>2, <3>3 DEF PinSteps
  <2>6. ASSUME NEW g \in Pin, Edge(g) PROVE TypeOK'
    <3> USE <2>6 DEF Edge
    <3>1. gpio' \in [Pin -> GpioRow]
      BY RowTypes
    <3> QED BY <3>1
  <2>7. ASSUME NEW u \in Uart, NEW pins \in Wiring, UartConfig(u, pins) PROVE TypeOK'
    <3> USE <2>7 DEF UartConfig, Go
    <3>1. gpio' \in [Pin -> GpioRow]
      BY RowTypes
    <3>2. uart[u] \in UartRow /\ pins \in SUBSET Pin
      BY ResourcesAssumption
    <3>3. [uart[u] EXCEPT !.pins = pins, !.in_use = TRUE] \in UartRow
      BY <3>2 DEF UartRow
    <3>4. uart' \in [Uart -> UartRow]
      BY <3>3
    <3>5. ackedPin' \in [Pin -> PinAck]
      BY DEF ForgetPins, Anything, PinAck, Bit
    <3>6. ackedUart' \in [Uart -> UartAck]
      BY DEF ForgetUarts, UartAck
    <3>7. commands' \in 0 .. MaxCommands
      BY ResourcesAssumption DEF TakeCommand
    <3> QED BY <3>1, <3>2, <3>3, <3>4, <3>5, <3>6, <3>7 DEF UartSteps
  <2>8. ASSUME NEW u \in Uart, UartBind(u) PROVE TypeOK'
    <3> USE <2>8 DEF UartBind
    <3>1. uart' \in [Uart -> UartRow]
      BY DEF UartRow
    <3>2. ackedUart' \in [Uart -> UartAck]
      BY DEF ForgetUarts, UartAck
    <3>3. commands' \in 0 .. MaxCommands
      BY ResourcesAssumption DEF TakeCommand
    <3> QED BY <3>1, <3>2, <3>3
  <2>9. ASSUME NEW u \in Uart, UartUnbind(u) PROVE TypeOK'
    <3> USE <2>9 DEF UartUnbind, Go
    <3>1. FreeUart \in UartRow
      BY DEF FreeUart, UartRow
    <3>2. ackedUart' \in [Uart -> UartAck]
      BY DEF ForgetUarts, UartAck
    <3>3. commands' \in 0 .. MaxCommands
      BY ResourcesAssumption DEF TakeCommand
    <3> QED BY <3>1, <3>2, <3>3 DEF UartSteps
  <2>10. ASSUME ApplyConfig PROVE TypeOK'
    <3> USE <2>10 DEF ApplyConfig, Go
    <3>1. subject \in Pin
      BY DEF UartSteps, PinSteps
    <3> QED BY <3>1 DEF PinSteps
  <2>11. ASSUME ReleasePin PROVE TypeOK'
    <3> USE <2>11 DEF ReleasePin, Go
    <3>1. subject \in Pin
      BY DEF UartSteps, PinSteps
    <3> QED BY <3>1 DEF PinSteps
  <2>12. ASSUME SaveGpio PROVE TypeOK'
    <3> USE <2>12 DEF SaveGpio, Answered, Go
    <3>1. subject \in Pin
      BY DEF UartSteps, PinSteps
    <3>2. GpioBlob \in [Pin -> GpioCopy]
      BY DEF GpioBlob, GpioRow, GpioCopy, Bit
    <3>3. Promise \in PinAck
      BY <3>1 DEF Promise, GpioRow, PinAck, Bit
    <3> QED BY <3>1, <3>2, <3>3
  <2>13. ASSUME Unqueue PROVE TypeOK'
    <3> USE <2>13 DEF Unqueue, Go
    <3>1. subject \in Uart
      BY DEF UartSteps, PinSteps
    <3>2. uart' \in [Uart -> UartRow]
      BY <3>1 DEF UartRow
    <3> QED BY <3>1, <3>2 DEF UartSteps
  <2>14. ASSUME Install PROVE TypeOK'
    <3> USE <2>14 DEF Install, Answered, Go
    <3>1. subject \in Uart
      BY DEF UartSteps, PinSteps
    <3> QED BY <3>1 DEF UartSteps
  <2>15. ASSUME Publish PROVE TypeOK'
    <3> USE <2>15 DEF Publish, Go
    <3>1. subject \in Uart
      BY DEF UartSteps, PinSteps
    <3>2. uart' \in [Uart -> UartRow]
      BY <3>1 DEF UartRow
    <3> QED BY <3>1, <3>2 DEF UartSteps
  <2>16. ASSUME DeleteDriver PROVE TypeOK'
    <3> USE <2>16 DEF DeleteDriver, Go
    <3>1. subject \in Uart
      BY DEF UartSteps, PinSteps
    <3> QED BY <3>1 DEF UartSteps
  <2>17. ASSUME SaveUart PROVE TypeOK'
    <3> USE <2>17 DEF SaveUart, Answered, Go
    <3>1. subject \in Uart
      BY DEF UartSteps, PinSteps
    <3>2. UartBlob \in [Uart -> UartCopy]
      BY DEF UartBlob, UartRow, UartCopy
    <3>3. [known |-> TRUE, pins |-> uart[subject].pins] \in UartAck
      BY <3>1 DEF UartRow, UartAck
    <3> QED BY <3>1, <3>2, <3>3
  <2>18. ASSUME Restart PROVE TypeOK'
    <3> USE <2>18 DEF Restart, Go
    <3>1. \A g \in Pin : nvs.gpio[g] \in GpioCopy /\ RestoredPin(g) \in GpioRow
      BY LastClaimantType DEF RestoredPin, GpioRow, GpioCopy, Bit
    <3>2. \A g \in Pin : RestoredLevel(g) \in Bit /\ RestoredIrq(g) \in BOOLEAN
      BY <3>1 DEF RestoredLevel, RestoredIrq, GpioCopy, Bit
    <3>3. \A u \in Uart, up \in SUBSET Uart : RestoredUart(u, up) \in UartRow
      BY DEF RestoredUart, UartRow, UartCopy
    <3>4. gpio' \in [Pin -> GpioRow]
      BY <3>1
    <3>5. uart' \in [Uart -> UartRow]
      BY <3>3
    <3>6. level' \in [Pin -> Bit] /\ irq' \in [Pin -> BOOLEAN]
      BY <3>2
    <3>7. ackedPin' \in [Pin -> PinAck]
      BY DEF ForgetPins, Anything, PinAck, Bit
    <3>8. ackedUart' \in [Uart -> UartAck]
      BY DEF ForgetUarts, UartAck
    <3> QED BY <3>1, <3>2, <3>3, <3>4, <3>5, <3>6, <3>7, <3>8
  <2>19. CASE UNCHANGED vars
    BY <2>19
  <2> QED
    BY <2>1, <2>2, <2>3, <2>4, <2>5, <2>6, <2>7, <2>8, <2>9, <2>10, <2>11,
      <2>12, <2>13, <2>14, <2>15, <2>16, <2>17, <2>18, <2>19 DEF Next,
      PinCommand, UartCommand
<1> QED BY <1>1, <1>2, PTL DEF Spec

-----------------------------------------------------------------------------
(* The inductive invariants.                                               *)

(* The handler of a pin is removed when its row no longer says INTERRUPT.  *)
EdgeInv ==
  /\ EdgesFromInterruptPins
  /\ step = "release" => gpio[subject].mode = "none"

(* The dispatcher lets go of a queue before it deletes the driver, and     *)
(* publishes one only of a driver that is there.                           *)
QueueInv ==
  /\ TableQueueLive
  /\ step \in {"install", "delete"} => ~uart[subject].queue
  /\ step = "publish" => driver[subject]

(* Nothing is acknowledged of a UART whose command is under way; when its  *)
(* driver is installed or deleted, it is in use just when it has pins.     *)
(* What is acknowledged is stored.                                         *)
UartInHand ==
  /\ step \in UartSteps => ~ackedUart[subject].known
  /\ step \in {"unqueue", "install"} => uart[subject].in_use
  /\ step \in {"publish", "delete", "save_uart"} =>
       uart[subject].in_use = (uart[subject].pins # {})

UartsStored ==
  uart_stored => \A u \in Uart : ackedUart[u].known =>
    /\ nvs.uart[u].pins = ackedUart[u].pins
    /\ nvs.uart[u].in_use = (ackedUart[u].pins # {})

UartInv == UartsAsAcknowledged /\ UartInHand /\ UartsStored

(* Likewise for pins; besides, a level is promised of an OUTPUT only, so   *)
(* neither a reading nor an edge touches what was promised.                *)
PinInHand ==
  step \in PinSteps =>
    /\ ackedPin[subject].mode = "unknown"
    /\ gpio[subject].in_use = (gpio[subject].mode # "none")
    /\ step = "save_level" /\ gpio[subject].mode = "output" =>
         level[subject] = gpio[subject].value

LevelsOfOutputs == \A g \in Pin : ackedPin[g].levels # Bit => ackedPin[g].mode = "output"

PinsStored ==
  gpio_stored => \A g \in Pin : ackedPin[g].mode # "unknown" =>
    /\ nvs.gpio[g].mode = ackedPin[g].mode
    /\ ackedPin[g].mode = "output" => nvs.gpio[g].value \in ackedPin[g].levels

PinInv == PinsAsAcknowledged /\ PinInHand /\ LevelsOfOutputs /\ PinsStored

-----------------------------------------------------------------------------
(* Edges come from pins configured as INTERRUPT.                           *)
THEOREM EdgesFromInterruptPinsHolds == Spec => []EdgesFromInterruptPins
<1>1. Init => EdgeInv
  BY DEF Init, EdgeInv, EdgesFromInterruptPins, FreePin
<1>2. TypeOK /\ EdgeInv /\ [Next]_vars => EdgeInv'
  <2> SUFFICES ASSUME TypeOK, EdgeInv, [Next]_vars PROVE EdgeInv'
    OBVIOUS
  <2> USE DEF TypeOK, EdgeInv, EdgesFromInterruptPins, vars, tables, hardware, at, history, PinSteps, UartSteps
  <2>1. ASSUME NEW g \in Pin, NEW m \in GpioMode, GpioConfig(g, m) PROVE EdgeInv'
    BY <2>1 DEF GpioConfig, Go, TakeCommand, UsedBy, GpioRow
  <2>2. ASSUME NEW g \in Pin, NEW v \in Bit, GpioSet(g, v) PROVE EdgeInv'
    BY <2>2 DEF GpioSet, Go, TakeCommand, GpioRow
  <2>3. ASSUME NEW g \in Pin, GpioGet(g) PROVE EdgeInv'
    BY <2>3 DEF GpioGet, TakeCommand, GpioRow
  <2>4. ASSUME NEW g \in Pin, NEW o \in Uart, PinBind(g, o) PROVE EdgeInv'
    BY <2>4 DEF PinBind, TakeCommand, UsedBy, GpioRow
  <2>5. ASSUME NEW g \in Pin, PinUnbind(g) PROVE EdgeInv'
    BY <2>5 DEF PinUnbind, Go, TakeCommand, FreePin
  <2>6. ASSUME NEW g \in Pin, Edge(g) PROVE EdgeInv'
    BY <2>6 DEF Edge, GpioRow
  <2>7. ASSUME NEW u \in Uart, NEW pins \in Wiring, UartConfig(u, pins) PROVE EdgeInv'
    BY <2>7 DEF UartConfig, Go, TakeCommand, UsedBy, Unused, GpioRow
  <2>8. ASSUME NEW u \in Uart, UartBind(u) PROVE EdgeInv'
    BY <2>8 DEF UartBind, TakeCommand
  <2>9. ASSUME NEW u \in Uart, UartUnbind(u) PROVE EdgeInv'
    BY <2>9 DEF UartUnbind, Go, TakeCommand
  <2>10. ASSUME ApplyConfig PROVE EdgeInv'
    BY <2>10 DEF ApplyConfig, Go
  <2>11. ASSUME ReleasePin PROVE EdgeInv'
    BY <2>11 DEF ReleasePin, Go
  <2>12. ASSUME SaveGpio PROVE EdgeInv'
    BY <2>12 DEF SaveGpio, Go, Answered
  <2>13. ASSUME Unqueue PROVE EdgeInv'
    BY <2>13 DEF Unqueue, Go
  <2>14. ASSUME Install PROVE EdgeInv'
    BY <2>14 DEF Install, Go, Answered
  <2>15. ASSUME Publish PROVE EdgeInv'
    BY <2>15 DEF Publish, Go
  <2>16. ASSUME DeleteDriver PROVE EdgeInv'
    BY <2>16 DEF DeleteDriver, Go
  <2>17. ASSUME SaveUart PROVE EdgeInv'
    BY <2>17 DEF SaveUart, Go, Answered
  <2>18. ASSUME Restart PROVE EdgeInv'
    BY <2>18 DEF Restart, Go, RestoredPin, RestoredIrq
  <2>19. CASE UNCHANGED vars
    BY <2>19
  <2> QED
    BY <2>1, <2>2, <2>3, <2>4, <2>5, <2>6, <2>7, <2>8, <2>9, <2>10, <2>11,
      <2>12, <2>13, <2>14, <2>15, <2>16, <2>17, <2>18, <2>19 DEF Next,
      PinCommand, UartCommand
<1>3. EdgeInv => EdgesFromInterruptPins
  BY DEF EdgeInv
<1> QED BY <1>1, <1>2, <1>3, TypeCorrect, PTL DEF Spec

(* The table never offers the queue of a deleted driver.                   *)
THEOREM TableQueueLiveHolds == Spec => []TableQueueLive
<1>1. Init => QueueInv
  BY DEF Init, QueueInv, TableQueueLive, FreeUart, PinSteps, UartSteps
<1>2. TypeOK /\ QueueInv /\ [Next]_vars => QueueInv'
  <2> SUFFICES ASSUME TypeOK, QueueInv, [Next]_vars PROVE QueueInv'
    OBVIOUS
  <2> USE DEF TypeOK, QueueInv, TableQueueLive, vars, tables, hardware, at, history, PinSteps, UartSteps
  <2>1. ASSUME NEW g \in Pin, NEW m \in GpioMode, GpioConfig(g, m) PROVE QueueInv'
    BY <2>1 DEF GpioConfig, Go, TakeCommand
  <2>2. ASSUME NEW g \in Pin, NEW v \in Bit, GpioSet(g, v) PROVE QueueInv'
    BY <2>2 DEF GpioSet, Go, TakeCommand
  <2>3. ASSUME NEW g \in Pin, GpioGet(g) PROVE QueueInv'
    BY <2>3 DEF GpioGet, TakeCommand
  <2>4. ASSUME NEW g \in Pin, NEW o \in Uart, PinBind(g, o) PROVE QueueInv'
    BY <2>4 DEF PinBind, TakeCommand
  <2>5. ASSUME NEW g \in Pin, PinUnbind(g) PROVE QueueInv'
    BY <2>5 DEF PinUnbind, Go, TakeCommand
  <2>6. ASSUME NEW g \in Pin, Edge(g) PROVE QueueInv'
    BY <2>6 DEF Edge
  <2>7. ASSUME NEW u \in Uart, NEW pins \in Wiring, UartConfig(u, pins) PROVE QueueInv'
    BY <2>7 DEF UartConfig, Go, TakeCommand, UartRow
  <2>8. ASSUME NEW u \in Uart, UartBind(u) PROVE QueueInv'
    BY <2>8 DEF UartBind, TakeCommand, UartRow
  <2>9. ASSUME NEW u \in Uart, UartUnbind(u) PROVE QueueInv'
    BY <2>9 DEF UartUnbind, Go, TakeCommand, FreeUart
  <2>10. ASSUME ApplyConfig PROVE QueueInv'
    BY <2>10 DEF ApplyConfig, Go
  <2>11. ASSUME ReleasePin PROVE QueueInv'
    BY <2>11 DEF ReleasePin, Go
  <2>12. ASSUME SaveGpio PROVE QueueInv'
    BY <2>12 DEF SaveGpio, Go, Answered
  <2>13. ASSUME Unqueue PROVE QueueInv'
    BY <2>13 DEF Unqueue, Go, UartRow
  <2>14. ASSUME Install PROVE QueueInv'
    BY <2>14 DEF Install, Go, Answered
  <2>15. ASSUME Publish PROVE QueueInv'
    BY <2>15 DEF Publish, Go, UartRow
  <2>16. ASSUME DeleteDriver PROVE QueueInv'
    BY <2>16 DEF DeleteDriver, Go
  <2>17. ASSUME SaveUart PROVE QueueInv'
    BY <2>17 DEF SaveUart, Go, Answered
  <2>18. ASSUME Restart PROVE QueueInv'
    BY <2>18 DEF Restart, Go, RestoredUart
  <2>19. CASE UNCHANGED vars
    BY <2>19
  <2> QED
    BY <2>1, <2>2, <2>3, <2>4, <2>5, <2>6, <2>7, <2>8, <2>9, <2>10, <2>11,
      <2>12, <2>13, <2>14, <2>15, <2>16, <2>17, <2>18, <2>19 DEF Next,
      PinCommand, UartCommand
<1>3. QueueInv => TableQueueLive
  BY DEF QueueInv
<1> QED BY <1>1, <1>2, <1>3, TypeCorrect, PTL DEF Spec

(* A UART is wired as it was acknowledged, across restarts.                *)
THEOREM UartsAsAcknowledgedHolds == Spec => []UartsAsAcknowledged
<1>1. Init => UartInv
  <2> SUFFICES ASSUME Init PROVE UartInv
    OBVIOUS
  <2>1. UartsAsAcknowledged
    BY DEF Init, UartsAsAcknowledged, FreeUart
  <2>2. UartInHand
    BY DEF Init, UartInHand, UartSteps
  <2>3. UartsStored
    <3>1. nvs.uart = [u \in Uart |-> [in_use |-> FALSE, pins |-> {}]]
      BY DEF Init
    <3> QED BY <3>1 DEF Init, UartsStored
  <2> QED BY <2>1, <2>2, <2>3 DEF UartInv
<1>2. TypeOK /\ UartInv /\ [Next]_vars => UartInv'
  <2> SUFFICES ASSUME TypeOK, UartInv, [Next]_vars PROVE UartInv'
    OBVIOUS
  <2> USE DEF TypeOK, UartInv, UartsAsAcknowledged, UartInHand, UartsStored, vars, tables, hardware, at, history,
          PinSteps, UartSteps
  <2>1. ASSUME NEW g \in Pin, NEW m \in GpioMode, GpioConfig(g, m) PROVE UartInv'
    BY <2>1 DEF GpioConfig, Go, TakeCommand
  <2>2. ASSUME NEW g \in Pin, NEW v \in Bit, GpioSet(g, v) PROVE UartInv'
    BY <2>2 DEF GpioSet, Go, TakeCommand
  <2>3. ASSUME NEW g \in Pin, GpioGet(g) PROVE UartInv'
    BY <2>3 DEF GpioGet, TakeCommand
  <2>4. ASSUME NEW g \in Pin, NEW o \in Uart, PinBind(g, o) PROVE UartInv'
    BY <2>4 DEF PinBind, TakeCommand
  <2>5. ASSUME NEW g \in Pin, PinUnbind(g) PROVE UartInv'
    BY <2>5 DEF PinUnbind, Go, TakeCommand
  <2>6. ASSUME NEW g \in Pin, Edge(g) PROVE UartInv'
    BY <2>6 DEF Edge
  <2>7. ASSUME NEW u \in Uart, NEW pins \in Wiring, UartConfig(u, pins) PROVE UartInv'
    <3> USE <2>7 DEF UartConfig, Go
    <3>1. step = "idle"
      BY DEF TakeCommand
    <3>2. \A w \in Uart : w # u => uart'[w] = uart[w] /\ ackedUart'[w] = ackedUart[w]
      BY DEF ForgetUarts
    <3>3. uart'[u].pins = pins /\ uart'[u].in_use /\ ~ackedUart'[u].known
      BY DEF ForgetUarts, UartRow
    <3>4. UartsAsAcknowledged'
      <4> SUFFICES ASSUME NEW w \in Uart, ackedUart'[w].known
                   PROVE  /\ uart'[w].pins = ackedUart'[w].pins
                          /\ uart'[w].in_use = (ackedUart'[w].pins # {})
        OBVIOUS
      <4>1. w # u
        BY <3>3
      <4>2. uart'[w] = uart[w] /\ ackedUart'[w] = ackedUart[w]
        BY <3>2, <4>1
      <4> HIDE <2>7 DEF UartConfig, Go, vars
      <4> QED BY <4>2
    <3>5. UartInHand'
      BY <3>1, <3>3
    <3>6. UartsStored'
      BY <3>2, <3>3
    <3> QED BY <3>4, <3>5, <3>6
  <2>8. ASSUME NEW u \in Uart, UartBind(u) PROVE UartInv'
    BY <2>8 DEF UartBind, TakeCommand, UartRow, ForgetUarts
  <2>9. ASSUME NEW u \in Uart, UartUnbind(u) PROVE UartInv'
    BY <2>9 DEF UartUnbind, Go, TakeCommand, FreeUart, ForgetUarts
  <2>10. ASSUME ApplyConfig PROVE UartInv'
    BY <2>10 DEF ApplyConfig, Go
  <2>11. ASSUME ReleasePin PROVE UartInv'
    BY <2>11 DEF ReleasePin, Go
  <2>12. ASSUME SaveGpio PROVE UartInv'
    BY <2>12 DEF SaveGpio, Go, Answered
  <2>13. ASSUME Unqueue PROVE UartInv'
    <3> USE <2>13 DEF Unqueue, Go
    <3>1. \A u \in Uart : uart'[u].pins = uart[u].pins /\ uart'[u].in_use = uart[u].in_use
      BY DEF UartRow
    <3>2. subject \in Uart
      OBVIOUS
    <3>3. UartsAsAcknowledged'
      BY <3>1
    <3>4. UartInHand'
      BY <3>1, <3>2
    <3>5. UartsStored'
      OBVIOUS
    <3> QED BY <3>3, <3>4, <3>5
  <2>14. ASSUME Install PROVE UartInv'
    BY <2>14 DEF Install, Go, Answered
  <2>15. ASSUME Publish PROVE UartInv'
    <3> USE <2>15 DEF Publish, Go
    <3>1. \A u \in Uart : uart'[u].pins = uart[u].pins /\ uart'[u].in_use = uart[u].in_use
      BY DEF UartRow
    <3>2. subject \in Uart
      OBVIOUS
    <3>3. UartsAsAcknowledged'
      BY <3>1
    <3>4. UartInHand'
      BY <3>1, <3>2
    <3>5. UartsStored'
      OBVIOUS
    <3> QED BY <3>3, <3>4, <3>5
  <2>16. ASSUME DeleteDriver PROVE UartInv'
    BY <2>16 DEF DeleteDriver, Go
  <2>17. ASSUME SaveUart PROVE UartInv'
    <3> USE <2>17 DEF SaveUart, Go, Answered
    <3>1. subject \in Uart
      OBVIOUS
    <3>2. ackedUart'[subject].pins = uart[subject].pins /\ uart' = uart
      BY <3>1
    <3>3. \A w \in Uart : w # subject => ackedUart'[w] = ackedUart[w]
      OBVIOUS
    <3>4. UartsAsAcknowledged'
      BY <3>1, <3>2, <3>3
    <3>5. UartInHand'
      OBVIOUS
    <3>6. ASSUME uart_stored' PROVE nvs'.uart = UartBlob
      BY <3>6
    <3>7. UartsStored'
      <4> SUFFICES ASSUME uart_stored', NEW w \in Uart, ackedUart'[w].known
                   PROVE  /\ nvs'.uart[w].pins = ackedUart'[w].pins
                          /\ nvs'.uart[w].in_use = (ackedUart'[w].pins # {})
        OBVIOUS
      <4>1. nvs'.uart[w].pins = uart[w].pins /\ nvs'.uart[w].in_use = uart[w].in_use
        BY <3>6 DEF UartBlob
      <4> QED BY <4>1, <3>2, <3>4
    <3> QED BY <3>4, <3>5, <3>7
  <2>18. ASSUME Restart PROVE UartInv'
    <3> USE <2>18 DEF Restart, Go
    <3>1. \A w \in Uart : uart'[w].pins = nvs.uart[w].pins /\ uart'[w].in_use = nvs.uart[w].in_use
      BY DEF RestoredUart
    <3>2. \A w \in Uart : ackedUart'[w].known => uart_stored /\ ackedUart'[w] = ackedUart[w]
      BY DEF ForgetUarts
    <3>3. UartsAsAcknowledged'
      BY <3>1, <3>2
    <3>4. UartInHand'
      OBVIOUS
    <3>5. UartsStored'
      BY <3>2
    <3> QED BY <3>3, <3>4, <3>5
  <2>19. CASE UNCHANGED vars
    BY <2>19
  <2> QED
    BY <2>1, <2>2, <2>3, <2>4, <2>5, <2>6, <2>7, <2>8, <2>9, <2>10, <2>11,
      <2>12, <2>13, <2>14, <2>15, <2>16, <2>17, <2>18, <2>19 DEF Next,
      PinCommand, UartCommand
<1>3. UartInv => UartsAsAcknowledged
  BY DEF UartInv
<1> QED BY <1>1, <1>2, <1>3, TypeCorrect, PTL DEF Spec

(* A pin is what was acknowledged of it, across restarts.                  *)
THEOREM PinsAsAcknowledgedHolds == Spec => []PinsAsAcknowledged
<1>1. Init => PinInv
  <2> SUFFICES ASSUME Init PROVE PinInv
    OBVIOUS
  <2>1. PinsAsAcknowledged
    BY DEF Init, PinsAsAcknowledged, FreePin, Bit
  <2>2. PinInHand
    BY DEF Init, PinInHand, PinSteps
  <2>3. LevelsOfOutputs
    BY DEF Init, LevelsOfOutputs
  <2>4. PinsStored
    <3>1. nvs.gpio = [g \in Pin |-> [mode |-> "none", value |-> 0]]
      BY DEF Init
    <3> QED BY <3>1 DEF Init, PinsStored
  <2> QED BY <2>1, <2>2, <2>3, <2>4 DEF PinInv
<1>2. TypeOK /\ EdgesFromInterruptPins /\ PinInv /\ [Next]_vars => PinInv'
  <2> SUFFICES ASSUME TypeOK, EdgesFromInterruptPins, PinInv, [Next]_vars PROVE PinInv'
    OBVIOUS
  <2> USE DEF TypeOK, PinInv, PinsAsAcknowledged, PinInHand, LevelsOfOutputs, PinsStored, vars, tables, hardware,
          at, history, PinSteps, UartSteps
  <2>1. ASSUME NEW g \in Pin, NEW m \in GpioMode, GpioConfig(g, m) PROVE PinInv'
    <3> USE <2>1 DEF GpioConfig, Go
    <3>1. gpio'[g].mode = m /\ m # "none" /\ gpio'[g].in_use
      BY DEF UsedBy, GpioRow, GpioMode
    <3>2. ackedPin'[g].mode = "unknown" /\ ackedPin'[g].levels = Bit
      BY DEF ForgetPins, Anything
    <3>3. \A w \in Pin : w # g => gpio'[w] = gpio[w] /\ ackedPin'[w] = ackedPin[w]
      BY DEF ForgetPins
    <3>4. PinsAsAcknowledged'
      BY <3>2, <3>3
    <3>5. PinInHand'
      BY <3>1, <3>2
    <3>6. LevelsOfOutputs'
      BY <3>2, <3>3
    <3>7. PinsStored'
      BY <3>2, <3>3
    <3> QED BY <3>4, <3>5, <3>6, <3>7
  <2>2. ASSUME NEW g \in Pin, NEW v \in Bit, GpioSet(g, v) PROVE PinInv'
    <3> USE <2>2 DEF GpioSet, Go
    <3>1. /\ gpio'[g].mode = gpio[g].mode /\ gpio[g].mode # "none"
          /\ gpio'[g].in_use /\ gpio'[g].value = v /\ level'[g] = v
      BY DEF GpioRow, Driven
    <3>2. ackedPin'[g].mode = "unknown" /\ ackedPin'[g].levels = Bit
      BY DEF ForgetPins, Anything
    <3>3. \A w \in Pin : w # g =>
            gpio'[w] = gpio[w] /\ level'[w] = level[w] /\ ackedPin'[w] = ackedPin[w]
      BY DEF ForgetPins
    <3>4. PinsAsAcknowledged'
      BY <3>2, <3>3
    <3>5. PinInHand'
      BY <3>1, <3>2
    <3>6. LevelsOfOutputs'
      BY <3>2, <3>3
    <3>7. PinsStored'
      BY <3>2, <3>3
    <3> QED BY <3>4, <3>5, <3>6, <3>7
  <2>3. ASSUME NEW g \in Pin, GpioGet(g) PROVE PinInv'
    BY <2>3 DEF GpioGet, TakeCommand, GpioRow
  <2>4. ASSUME NEW g \in Pin, NEW o \in Uart, PinBind(g, o) PROVE PinInv'
    BY <2>4 DEF PinBind, TakeCommand, UsedBy, GpioRow, ForgetPins, Anything
  <2>5. ASSUME NEW g \in Pin, PinUnbind(g) PROVE PinInv'
    BY <2>5 DEF PinUnbind, Go, TakeCommand, FreePin, ForgetPins, Anything
  <2>6. ASSUME NEW g \in Pin, Edge(g) PROVE PinInv'
    <3> USE <2>6 DEF Edge
    <3>1. \A w \in Pin : /\ gpio'[w].mode = gpio[w].mode
                        /\ gpio'[w].in_use = gpio[w].in_use
                        /\ w # g => gpio'[w] = gpio[w]
      BY DEF GpioRow
    <3>2. gpio'[g].value \in Bit /\ level[g] \in Bit
      <4>1. PICK v \in Bit : gpio' = [gpio EXCEPT ![g].value = v]
        OBVIOUS
      <4>2. gpio'[g] = [gpio[g] EXCEPT !.value = v] /\ gpio[g] \in GpioRow
        BY <4>1
      <4>3. gpio'[g].value = v
        BY <4>2 DEF GpioRow
      <4>4. level \in [Pin -> Bit]
        OBVIOUS
      <4> HIDE <2>6 DEF TypeOK, vars, Edge, PinInv
      <4> QED BY <4>1, <4>3, <4>4
    <3>3. \/ gpio[g].mode = "interrupt"
          \/ step \in {"apply", "release"} /\ subject = g
      BY DEF EdgesFromInterruptPins
    <3>4. ASSUME ackedPin[g].mode # "unknown" PROVE ackedPin[g].levels = Bit
      <4>1. gpio[g].mode = "interrupt"
        BY <3>3, <3>4
      <4>2. ackedPin[g].mode = "interrupt"
        BY <3>4, <4>1
      <4> QED BY <4>2
    <3>5. PinsAsAcknowledged'
      BY <3>1, <3>2, <3>4
    <3>6. PinInHand'
      BY <3>1, <3>3
    <3>7. LevelsOfOutputs' /\ PinsStored'
      OBVIOUS
    <3> QED BY <3>5, <3>6, <3>7
  <2>7. ASSUME NEW u \in Uart, NEW pins \in Wiring, UartConfig(u, pins) PROVE PinInv'
    BY <2>7 DEF UartConfig, Go, TakeCommand, UsedBy, Unused, GpioRow, ForgetPins, Anything
  <2>8. ASSUME NEW u \in Uart, UartBind(u) PROVE PinInv'
    BY <2>8 DEF UartBind, TakeCommand
  <2>9. ASSUME NEW u \in Uart, UartUnbind(u) PROVE PinInv'
    BY <2>9 DEF UartUnbind, Go, TakeCommand
  <2>10. ASSUME ApplyConfig PROVE PinInv'
    BY <2>10 DEF ApplyConfig, Go
  <2>11. ASSUME ReleasePin PROVE PinInv'
    BY <2>11 DEF ReleasePin, Go
  <2>12. ASSUME SaveGpio PROVE PinInv'
    BY <2>12 DEF SaveGpio, Go, Answered, GpioBlob, Promise, GpioRow, Bit, PinAck
  <2>13. ASSUME Unqueue PROVE PinInv'
    BY <2>13 DEF Unqueue, Go
  <2>14. ASSUME Install PROVE PinInv'
    BY <2>14 DEF Install, Go, Answered
  <2>15. ASSUME Publish PROVE PinInv'
    BY <2>15 DEF Publish, Go
  <2>16. ASSUME DeleteDriver PROVE PinInv'
    BY <2>16 DEF DeleteDriver, Go
  <2>17. ASSUME SaveUart PROVE PinInv'
    BY <2>17 DEF SaveUart, Go, Answered
  <2>18. ASSUME Restart PROVE PinInv'
    <3> USE <2>18 DEF Restart, Go
    <3>1. \A w \in Pin : ackedPin'[w].mode # "unknown" =>
            gpio_stored /\ Claimants(w) = {} /\ ackedPin'[w] = ackedPin[w]
      BY DEF ForgetPins, Anything
    <3>2. \A w \in Pin : gpio'[w] = RestoredPin(w) /\ level'[w] = RestoredLevel(w)
      OBVIOUS
    <3>3. \A w \in Pin : nvs.gpio[w] \in GpioCopy
      OBVIOUS
    <3>4. \A w \in Pin : RestoredPin(w).value = RestoredLevel(w)
      BY DEF RestoredPin, RestoredLevel
    <3>5. \A w \in Pin : RestoredLevel(w) \in Bit
      BY <3>3 DEF RestoredLevel, GpioCopy, Bit
    <3>6. PinsAsAcknowledged'
      <4> SUFFICES ASSUME NEW w \in Pin, ackedPin'[w].mode # "unknown"
                   PROVE  /\ gpio'[w].mode = ackedPin'[w].mode
                          /\ gpio'[w].in_use = (ackedPin'[w].mode # "none")
                          /\ {level'[w], gpio'[w].value} \subseteq ackedPin'[w].levels
        OBVIOUS
      <4>1. /\ nvs.gpio[w].mode = ackedPin'[w].mode
            /\ ackedPin'[w].mode = "output" => nvs.gpio[w].value \in ackedPin'[w].levels
        BY <3>1
      <4>2. gpio'[w].mode = ackedPin'[w].mode
        BY <3>2, <4>1 DEF RestoredPin
      <4>3. gpio'[w].in_use = (ackedPin'[w].mode # "none")
        BY <3>1, <3>2, <4>1 DEF RestoredPin
      <4>4. level'[w] = RestoredLevel(w) /\ gpio'[w].value = RestoredLevel(w)
        BY <3>2, <3>4
      <4>5. RestoredLevel(w) \in ackedPin'[w].levels
        <5>1. CASE ackedPin'[w].levels = Bit
          BY <5>1, <3>5
        <5>2. CASE ackedPin'[w].levels # Bit
          <6>1. ackedPin'[w].mode = "output"
            BY <5>2, <3>1
          <6> QED BY <6>1, <4>1 DEF RestoredLevel, Driven
        <5> QED BY <5>1, <5>2
      <4> QED BY <4>2, <4>3, <4>4, <4>5
    <3>7. PinInHand'
      OBVIOUS
    <3>8. LevelsOfOutputs'
      BY DEF ForgetPins, Anything
    <3>9. PinsStored'
      <4> SUFFICES ASSUME NEW w \in Pin, ackedPin'[w].mode # "unknown"
                   PROVE  /\ nvs'.gpio[w].mode = ackedPin'[w].mode
                          /\ ackedPin'[w].mode = "output" =>
                               nvs'.gpio[w].value \in ackedPin'[w].levels
        OBVIOUS
      <4> QED BY <3>1
    <3> QED BY <3>6, <3>7, <3>8, <3>9
  <2>19. CASE UNCHANGED vars
    BY <2>19
  <2> QED
    BY <2>1, <2>2, <2>3, <2>4, <2>5, <2>6, <2>7, <2>8, <2>9, <2>10, <2>11,
      <2>12, <2>13, <2>14, <2>15, <2>16, <2>17, <2>18, <2>19 DEF Next,
      PinCommand, UartCommand
<1>3. PinInv => PinsAsAcknowledged
  BY DEF PinInv
<1> QED BY <1>1, <1>2, <1>3, TypeCorrect, EdgesFromInterruptPinsHolds, PTL DEF Spec

=============================================================================
