\* Two pins, two UARTs, four commands; any number of failures, edges and restarts.
CONSTANTS
  p1 = p1
  p2 = p2
  Pin = {p1, p2}
  IOT_UART_NUM_MAX = 2
  Wiring <- MCWiring
  NoSubject = NoSubject
  MaxCommands = 4
SPECIFICATION Spec
INVARIANTS PinsAsAcknowledged UartsAsAcknowledged TableQueueLive EdgesFromInterruptPins
SYMMETRY Symmetry
