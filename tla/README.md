# A verification project for ROSE

ROSE turns an ESP32-C6 into a remote I/O agent. The firmware (`src/`, C on
FreeRTOS) keeps one TCP connection to a bridge (`bridge/src/`, Python threads);
a web platform (`platform/src/`, FastAPI) calls the bridge from a thread pool and
pushes device events to a console and to a Home Assistant integration
(`custom_components/rose/`). This directory holds TLA+ models of the parts of
that system where concurrency, loss and timing make it hard to test, the TLC
runs that check them, and TLAPS proofs of what matters most.

    tlc -config client_threads.cfg MCBridgeClient.tla     (a run)
    tlapm ServersProofs.tla                               (a proof)

## The system

    console, Home Assistant --HTTP, WebSocket--> platform --threads--> bridge
    bridge == one TCP connection, framed both ways == firmware tasks

| component | state | operations | made hard by | correct when |
|---|---|---|---|---|
| bridge client (`client.py`, `commands.py`, `events.py`) | id counter, two tables of pending events, `last_error` | one function per command: send, wait, judge the answer; `configure_gpio` unbinds and retries | executor threads that poll shared tables, late answers, deadlines, 16-bit ids | each call gets its own answer, once; success means the device did it; every call returns |
| bridge server (`server.py`) | current client socket, `connected`, `running`, an RLock, a thread per connection | accept, receive, `send_command`, `stop` | a device that comes back while its old handler lives, sends under way, `stop()` at any moment | no send is disturbed, no socket leaks, a drop has a cause, `stop()` ends |
| frame queues (`send_task.c`, `tcp_client.c`) | `send_queue`, `cmd_queue` of 64 pointers, heap frames | `send_event`, the receive loop; `send_task`, the dispatcher task | several producers, three-step tail drop, full queues, no memory | a lossy channel in order; every frame freed once |
| device link (`tcp_client.c`, `send_task.c`, `heartbeat_task.c`) | `client_sock`, `connection_state`, `last_heartbeat_time`, `reconnect_interval` | connect, receive, send, watchdog | three tasks, four globals, no lock | the device always returns to a usable connection and knows it |
| resources (`command_dispatcher.c`, `gpio_manager.c`, `uart_rx_task.c`) | `gpio_table`, `uart_table`, drivers | configure, set, get, bind, unbind | a pin shared by two owners, driver errors half way, ISRs | a pin or a UART is what its last acknowledged command made it; tables, drivers and interrupts agree |
| persistence (`nvs_store.c`) | one NVS blob for the pins, one for the UARTs, keys for BLE and the session | save after a command, restore | resets before a save, failed writes, restore order | what was acknowledged is restored |
| session sync (`command_dispatcher.c`) | pending ACKs and thread results, which nothing fills, session version | SYNC_REQUEST, SYN, THREAD_* | a snapshot larger than the queue | - |
| signal tasks (`gpio_signal_task.c`) | two queues, RMT channel masks, two capture buffers filled by interrupt handlers | transmit, exchange, capture | a dozen error paths, two tasks and the dispatcher on one pin's handler, edges that come early, clocks of two widths | channels come back, handlers have their buffer, a capture hears its own time, each command gets one verdict |
| BLE manager (`ble_manager.c`) | in-range table, bonds, pairing window, scan state | enable, disable, scan, RSSI loop, delete bond | NimBLE callbacks against the dispatcher and a timer, unlocked table | a window that was opened is closed once, in-range events alternate |
| wire protocol (`protocol.py`, `iot_agent.h`) | the receivers' buffers | pack, cut the stream into frames, unpack | two descriptions of one layout, a stream cut anywhere | what one language packs the other reads |
| signal resolution (`client.py`) | none | `resolve_resolution_us`, `apply_resolution` | glitches first, last and only | no glitch is left, no time is lost |
| platform (`main.py`, `ws/manager.py`, `bridge_service.py`, `api/gpio.py`) | pin cache, last heartbeat, WebSocket clients | REST and WebSocket requests, monitor, sync, broadcast | callbacks from bridge threads into the event loop, awaits inside loops, a wait that blocks the loop | clients see the device's last state |
| database (`db/crud.py`, `api/ble.py`, `api/pins.py`, `api/custom_cmd.py`, `cmd_executor.py`) | rows of names, locks, commands and their log | read a row, await, write it; run a command's steps | requests that overlap between their awaits | rows are those of a serial order, executions are counted |
| Home Assistant integration (`custom_components/rose`) | config entry and its selection, coordinator data, trackers, climate fields | set up, reload, dialogs, poll, pushed events, service calls | a refresh that overtakes an event, a dialog during a setup, calls that overlap | presence ends up right, the selection is what is shown, options fit the mode |
| console, deployment, build | view state, configuration | - | - | - |

The parts meet in four places. The platform calls the bridge client through a
pool of four threads; the client hands frames to the server under its lock; the
handler thread calls back into the client's tables; and bytes cross the network
to the firmware, where the dispatcher's answers become frames of `send_queue`.
The hazards these meetings bring, each at its line, are listed in `PROJECT.json`.

## What is modelled

**BridgeClient** - `IoTAgentClient`, `CommandDispatcher`, `EventHandler`. Each
caller is a thread inside an API function: it draws an id (`Begin`/`Draw`), sends
(`Send`, or `SendRefused` without a device), polls (`TakeResponse` by command id,
`TakeEvent` by opcode), gives up (`Timeout`), is judged (`Conclude`, which is
`_check_ack` and its siblings) and is reported by the HTTP layer (`Report`).
`configure_gpio` goes through its unbind and its retry. The handler thread files
every event in two steps, one per hold of the lock. Seven API calls stand for all:
`set` for those that wait for an ACK by id, `get` and `sync` for those that select
a type, `exchange`, `receive` and `heartbeat` for the ones with a wait of their
own. The device answers as `handle_command` and the signal tasks do, in any
interleaving; commands and events may be lost, the link may break.

**AgentServer** - `IoTAgentServer`. The server loop, one handler per connection,
senders and the thread in `stop()`, with the RLock as a variable. Connections are
values of `Conn`; a device that reconnects is another value. `sendall` is two
steps, so that everything else may happen while it runs.

**EventQueue** - `send_event`, the receive loop, and the two consumers, over a
bounded FreeRTOS queue of pointers and a heap. It implements **LossyChannel**, the
abstract promise: frames are delivered in the order they were put, each at most
once, and any may be lost. One module serves both `send_queue` and `cmd_queue`:
the same code with other producers.

**DeviceLink** - `tcp_client_task`, `send_task` and `heartbeat_task` over the four
globals, with lwIP's descriptors: a descriptor that was closed can be handed out
again at once, and a call already waiting on it fails. Grain: the firmware runs on
one core (`CONFIG_FREERTOS_UNICORE` in `sdkconfig.esp32-c6-devkitm-1`), and
`main.c:170-173` gives the three tasks the priorities 5, 4 and 3. So the steps of
`tcp_client_task` are what it does between two waits, and the other two may be
interrupted between any two accesses to a global, for as long as it likes: through the
wait before a reconnection, the new `connect()` and beyond. The history variable
`overtaken` says that the last wait (`WaitOver`) ended while one of them was in the
middle of something (`Unfinished`). A `send()` may also fail on a live connection, for
want of memory (`SendFails`).

**Resources** - `gpio_table`, `uart_table`, the drivers behind them and their two NVS
blobs. The dispatcher task takes one command at a time, so a command is the chain of
its steps: GPIO_CONFIG changes the row (`GpioConfig`), then the pin (`ApplyConfig`),
then saves and acknowledges (`SaveGpio`); UART_CONFIG changes rows and pins
(`UartConfig`), drops the queue (`Unqueue`), replaces the driver, which may fail
(`Install`), offers the new queue (`Publish`) and saves (`SaveUart`). Between any two
steps the edge interrupt may write a row (`Edge`) or power may be lost (`Restart`,
which is `nvs_restore_all`). A save may fail; the command is acknowledged all the
same. History variables keep what acknowledged commands made of each pin and UART.

**SignalTasks** - the signal commands from the dispatcher's check of the pin's mode
(`Accept`, `Refuse`, `Enqueue`) through the two queues to the two tasks. An exchange is
`TxTake`, `Reserve`, `Drive`, `Arm` (its handler is added), `Quiet`, `Send`, `ResetCount`,
`Start`, `Stop`, `Report`, `TxAck`; without anything to send it is `RmtSetup` and
`RmtReport` on another channel; a capture of the RX task is `RxTake` to `RxAck`. Each may
fail where the code may. Between any two steps an edge strikes (`Edge`), time passes
(`Tick`) or the dispatcher reconfigures the pin (`Configure` to `ResetPin`). A pin has one
handler and one interrupt mask, which all of them change.

**Wire**, with **Protocol** and **SignalFilter** - one direction of the connection,
byte by byte. `Protocol` is every message as each language lays it out: the formats of
`to_bytes` and `from_bytes`, and the packed structs of `iot_agent.h`, as the widths of
their fields and the field that counts the items. `Wire` packs a message with one
table (`Frame`), lets `recv` return any part of the stream (`Receive`), and parses with
the loop of the other side and its table (`ParseEvent` is `_client_handler`,
`ParseCommand` the loop of `tcp_client_task`). A capture then goes through
`ApplyResolution`, a fold over its pulses.

**Platform** - three kinds of threads around one pin and the link. The handler thread
files an event (`FileEvent`), then calls back (`OnBridgeEvent`: cache, and a broadcast
handed to the loop). An executor thread is a bridge call (`CallBridge`,
`ThreadAnswered`, `ThreadGivesUp`). The event loop runs one step at a time between two
awaits: `Poll` and `MonitorTold` are `_monitor_bridge`, `SyncSends` is
`_sync_device_state`, `HelloConnect`, `HelloState` and `EndpointEnds` are
`websocket_endpoint`, `SendTo` is one send of a broadcast, `Resume`, `AskStatus`,
`StatusAnswered` and `StatusMissing` are the REST handlers, of which the last blocks the
loop (`blocked`). `call_soon_threadsafe` is the queue `ready`. A device that executes
commands in order stands for everything behind the bridge.

**Database** - the requests that read a row and write it after an await. A session
keeps what it read; a commit writes the columns that changed (`Flushed`) or fails.
Names, locks and custom commands are three groups of operations; the steps of a
command are awaited one by one (`Step`), then `Record`, `BumpRead` and `BumpWrite` are
`record_execution` and `bump_execution_count`.

**HomeAssistant** - the integration on Home Assistant's loop: the config entry
(`SetupHardware` to `StartWebsocket`, `Reload`, `Unloaded`), the coordinator's refresh in
its four awaits (`FetchStatus` to `Merge`) against `HandleEvent`, the selection dialogs
(`FlowSubmit`, `FlowEnds`), the others (`OtherDialog`) and the removal of a tracker, and
the climate entity (`ClimateCall`, then `SignalSent` or `SignalFailed`). A refresh begins
(`StartRefresh`) once it is `due`: 15 s after the last (`TimerExpires`), or on request. As
`async_set_updated_data` does, `HandleEvent` takes back a refresh that is due and starts
the 15 s again. The platform is what the integration sees of it: an answer, an event, an
error; its connection to the device (`link`) and what its monitor last said of that
(`monitored`) are two things.

The modules are kept apart because each hides from the others what they do not
depend on. Resources takes a pin in SIGNAL mode for an input, whose handler nobody adds;
SignalTasks is about those pins. BridgeClient sees the queues and the server as a channel that may lose,
which is what EventQueue's refinement and AgentServer's properties establish; that a
frame sent is the frame handled is Wire's. Platform takes a bridge call for one wait
with an answer or none, which is what OwnAnswer and EveryCallReturns allow; and
HomeAssistant is one of Platform's clients.

## What the runs show

| run | bounds | shows |
|---|---|---|
| `client_threads` | 2 threads, 3 signal calls (`receive`, `exchange`), 3 ids, 1 fault | `OwnAnswer`, `NoDoubleDelivery`, `AnswerStays` |
| `client_retry` | 1 thread, 2 calls of 5 kinds, up to 6 commands, 2 faults, fairness | `SuccessMeansExecuted`, `ConfiguredMeansBound`, `EveryCallReturns` |
| `server_threads` | 2 connections, 2 senders, 2 faults, fairness | `ConnectedMeansOpen`, `SendUndisturbed`, `NoLeak`, `DroppedForCause`, `DeviceServed`, `DepartureNoticed`, `StopCloses` |
| `event_queue` | 3 producers, 2 frames each, 2 places, fairness | `FramesOwned`, `RoomTakenByOthers`, refinement of `LossyChannel`, `EveryFrameFreed` |
| `device_link` | 2 descriptors, clock of 3 ticks, 2 faults, fairness | `NoSilentDrop`, `SendsOnConnection`, `LinkRecovers` |
| `resources` | 2 pins (interchangeable), 2 UARTs, any wiring, 4 commands | `PinsAsAcknowledged`, `UartsAsAcknowledged`, `TableQueueLive`, `EdgesFromInterruptPins` |
| `signal_tasks` | 1 pin, restored as SIGNAL or INTERRUPT, 2 commands, queues of 1, captures of 2 edges, 1 reconfiguration, any failures, a clock that passes 2^w, fairness | `ChannelsReturned`, `HandlerHasBuffer`, `EdgesOfListening`, `ListensLongEnough`, `InterruptPinReports`, `EveryCommandAnswered` |
| `wire` | each of the 24 commands and 20 events with 0 or 2 items, then one of 5, any cuts; captures of up to 3 pulses of 3 widths at 4 resolutions | `Understood`, `GlitchFree` |
| `platform` | 1 client that stays, 2 requests (`set` with `set` or a WebSocket `get`), 1 sync, 1 fault | `ViewsAgree` |
| `platform_link` | 2 clients, no request, 1 sync, 1 fault that may be a silence, fairness | `HeardTheMonitor`, `LinkNoticed` |
| `home_assistant` | 2 devices, one selected and the other named, 1 dialog, 2 calls, 2 operations, 1 fault, 2 reloads, 2 events waiting, signal reports without end, fairness | `SelectionShown`, `OptionsAvailable`, `PresenceSettles` |
| `database` | 3 requests out of each of 3 groups of operations, 2 devices, a command of 2 steps | `RowsSerial`, `CountsExecutions` |

Each property is stated in words at its definition. For every
property, the module holds a variant of one definition with a plausible fault
(`...Stuck`, `...Unlocked`, `...Leaks`), substituted for which TLC finds the property
violated; no specification uses the variants. The type invariants (`TypeOK`) are proved
and have no run of their own.

Why the bounds are enough. Two threads are what it takes for one to steal or
disturb another's answer, three calls for an answer to be late for the second and
be met by the third; six ids let two `configure_gpio` calls use all their
attempts. With two connections one is old and one new, with two senders one waits
for the other's lock. Three producers at two places fill the queue and steal the
room another has made. Two descriptors let a descriptor be reused while the other
is forgotten; three faults would allow the device to lose all of them, which
`LinkRecovers` names (`OutOfSockets`; lwIP has 10). The clock needs a reading
before and one after another task's, and enough ticks for the 30 s (2 ticks in
the run) to pass. Two UARTs can claim one pin, and UART 0 has the number that also
means nobody; four commands let one configure, two disturb and one configure again,
with edges, failures and restarts, which are not bounded, anywhere in between. In
`signal_tasks` two commands are one in the hands of each task, or one queued behind
another (the queue of 1 is then full), and one pin makes them share it, the case in
which they disturb each other. Captures begin at a time greater than they last, so that
an edge measured from elsewhere is too long; `Modulus` stands for 2^32, and the clock
starts so close to it that the end of the second capture may lie beyond. In `wire`
the second frame shows whether the first left the stream where it should; three pulses
are a glitch with a neighbour on each side, and widths lie below, between and above the
resolutions. In `platform` two requests are what it takes for one to overtake the
other, and the clients that leave (`Leavers`), perhaps while a broadcast is sent, are in
`platform_link`, where the other is the one that must not suffer. In `home_assistant` two operations are
a change and another while its consequences are under way, and two reloads one that
waits for the other. Three requests in `database` let two overlap and a third come
between, or follow.

Fairness. `client_*`: a thread of the pool runs on and its deadline passes; nothing
is assumed of the device or the link. `server_*`: threads run on; a thread waiting
for the lock gets it in the end (strong fairness: CPython wakes a waiter at every
release); `sendall` ends because the socket has a timeout. `event_queue`: no step of
a producer blocks and the consumer is scheduled. `device_link`: strong fairness for
what tcp_client_task does outside `recv()`, which the highest priority justifies, and
weak fairness for the end of a failing `recv()` and for the two other tasks once
begun, which says that they go on, not when; nothing of the network, the clock or the
traffic. `signal_tasks`: the two tasks, of the
highest priority, and the dispatcher run on, and time passes; nothing of commands or
edges. `platform_link`: every thread
runs on, the device answers and sends heartbeats while it is linked; nobody has to
connect, to ask or to leave. `home_assistant`: the loop's tasks go on, requests are
answered or fail (faults are bounded), a refresh that is due starts. The timer is sure to
expire only once no event is waiting, as each starts it again; nothing is assumed of the
user, the devices, the link or the platform's monitor. `PresenceSettles` needs no more, as
every refresh starts from the platform's answers; its other alternative is that events
come without end and that, from some moment on, no refresh starts.

## Where the code and its documents disagree

These follow from the modelled definitions; where a property touches one, it says how
far the code keeps the promise.

* `gpio_signal_task.c:482` says that `rx_total_us` controls how long a capture without a
  transmission lasts. Its end is kept in 32 bits (line 518) and compared with a clock of
  64 (line 531; the other captures keep 64, lines 422 and 672), so that 71 minutes after
  a restart such captures end before they begin, empty and with success. This is the last
  alternative of `ListensLongEnough`; without it `signal_tasks` fails.
* `tcp_client.c:95` says that the previous socket is closed before a new one is opened.
  `send_task` closes `client_sock` and sets it to -1 in two steps (`send_task.c:35-36`),
  as does `heartbeat_task.c:43-44`: a socket that `tcp_client_task` opened in between
  (before `SendClear`) is forgotten and stays open. `LinkRecovers` names the case that none is left.
* `README.md:543` promises automatic reconnection; a device may be connected and silent for
  good. `send_task` fails to send and closes the socket (`SendClose`), so that `recv()` ends
  and `tcp_client_task` connects again; if `send_task` gets to its lines 38-39
  (`SendReset`) only then, `connection_state` is 0 on the new connection. From then on
  `send_task` drops every frame and the watchdog, which acts when `connection_state` is 1,
  does nothing, until the bridge ends the connection. At least 1 s of wait lies between, so
  that it takes a processor kept busy by the tasks above; but nothing in the code rules it
  out. `NoSilentDrop`, `SendsOnConnection` and `LinkRecovers` except it by name
  (`overtaken`); without that word TLC finds each of them violated.
* `deploy/README.md:102` and `152` say that every BLE device the platform knows is a
  `device_tracker`; the code makes one for each device selected in the subentry
  (`device_tracker.py:16-34`, `SetupPlatforms`), and a known device that is not selected
  has none.
* `device_tracker.py:19-30` takes a device out of the selection when its tracker is removed.
  It never runs: its listener (line 54) is neither a coroutine nor a callback, so Home
  Assistant runs it in a thread of the executor, where `hass.async_create_task` is refused
  in the versions that have subentries (`hacs.json:3`). The device stays selected, and the
  tracker is back after the next reload (`RemoveTracker`; `SelectionShown` names the
  removed ones).
* `platform/src/api/errors.py:61` promises the reason of the last command; `last_error`
  is shared and `get_gpio` never writes it (`Conclude`, `Report`), so the reason of an
  earlier call is reported.
* `bridge/src/events.py:153-155` says a stale capture can never be mistaken; it can when
  the 16-bit counter wraps (`NextId`), as `receive_signal` leaves its answers under
  their id: `OwnAnswer` is stated for ids that have not wrapped.
* the watchdog (`heartbeat_task.c:37`) subtracts a newer time from an older one as
  unsigned numbers and forces down a connection in use (`HeartCheck`), where line 34
  speaks of 30 s without traffic.
* `platform/API.md:84` says that a GPIO's current value is read; for an OUTPUT the
  table's value is reported, and GPIO_CONFIG leaves there what was read or reported
  while the pin was an input (`GpioConfig`).
* `client.py:59-61` says that elapsed time is preserved; a capture of glitches alone
  becomes no pulse at all, which is the exception in `GlitchFree`.
* `cmd_executor.py:29` records a step as successful whose ACK was negative, since the
  bridge functions return a value and raise nothing: `on_error` applies to exceptions.

Noticed while reading: `tcp_client.c:110` says "Max
30s" but the interval reaches 32 s through lines 109-112; `tcp_client.c:140`
speaks of idle detection but the timeout is only retried; the real 30 s timeout of
the watchdog is out of reach, as the task refreshes the time itself every 10 s;
`server.py:198` ends the accept loop for good on any OSError, where `README.md:543`
promises automatic reconnection; `send_task.c:95-96` discards the oldest, yet with
several producers the newest may go; `command_dispatcher.c:695` says "Clear old GPIO
ownership if reassigning", but owner 0 means nobody and UART 0, so that UART 0's next
configuration frees a pin that GPIO_CONFIG had taken from it; `nvs_store.h:30` says
the saves are called after a configuration change, but UART_CONFIG and PORT_BIND
change `gpio_table` without saving it, so that a pin which a UART gave up comes back
after a reset; `uart_rx_task.c:40` may be waiting on a queue when
`command_dispatcher.c:735` deletes it; an INTERRUPT pin taken by a UART goes on
reporting edges; a pin configured as INTERRUPT while a signal command is queued for it
loses its edge handler to the command (`gpio_signal_task.c:693`), and two captures on one
pin take each other's, the loser ending with success and no edges; a gpio_set over WebSocket is announced to nobody (`main.py:381`), unlike
one over REST; executions of one custom command that overlap lose counts
(`crud.py:77`); of two selection dialogs at once the later undoes the earlier
(`config_flow.py:106`); a timer of 1 to 9 minutes sets the flag but not the tens
(`protocols/tcl.py:85`).

## What is proved

For every value of the constants that the modules' assumptions allow:

| module | theorems |
|---|---|
| BridgeClientProofs | `TypeCorrect`, `Invariance`, `OwnAnswerHolds`, `SuccessMeansExecutedHolds`, `OnceInvariance`, `NoDoubleDeliveryHolds`, `AnswerStaysHolds`, `ConfiguredMeansBoundHolds` |
| ServersProofs | of AgentServer, `TypeCorrect`, `Invariance`, `ConnectedMeansOpenHolds`, `SendUndisturbedHolds`, `NoLeakHolds`, `DroppedForCauseHolds`; of Database, `CountsExecutionsHolds`, `RowsSerialHolds` |
| EventQueueProofs | `TypeCorrect`, `FramesOwnedHolds`, `RoomTakenByOthersHolds`, `ImplementsLossyChannel` |
| ResourcesProofs | `TypeCorrect`, `EdgesFromInterruptPinsHolds`, `TableQueueLiveHolds`, `UartsAsAcknowledgedHolds`, `PinsAsAcknowledgedHolds` |
| LinkProofs | of DeviceLink, `TypeCorrect`, `LinkInvariance`, `NoSilentDropHolds`, `SendsOnConnectionHolds`; of Wire with Protocol and SignalFilter, `FramesRead`, `WireInvHolds`, `UnderstoodHolds`, `Resolved`, `GlitchFreeHolds` |
| SignalTasksProofs | `TypeCorrect`, `Invariance`, `ChannelsReturnedHolds`, `HandlerHasBufferHolds`, `ListensLongEnoughHolds`, `EdgesOfListeningHolds`, `InterruptPinReportsHolds` |
| PlatformProofs | `TypeCorrect`, `HeardTheMonitorHolds`, `ViewsAgreeHolds` |
| HomeAssistantProofs | `SelectionShownHolds`, `OptionsAvailableHolds` |

*BridgeClient.* `OwnAnswer` alone is not inductive: it says nothing of the events on
their way. The invariant `Correlation` adds that, until the ids wrap, every command
and every event in the channel, in the hands of the handler or filed under an id
carries the serial equal to its id, that an event that carries an id and is no error comes
from a command that was executed, and that the counter is one past the number of ids drawn.

`OnceInv` is about delivery and needs no bound on the ids. Events reach a call over one of
two lanes, by id or by opcode: the queue of what is not filed yet, the table it is filed
in, and the answers of the calls. Of each lane it says that no two places of it hold the
same event and that none holds an answer to a command the device has not answered
(`Unanswered`), over the fact that a serial is drawn once and goes with one command
(`Serials`). Every step thins a lane, moves an event along it, or adds the answer to a
command that had none. From it follow `NoDoubleDelivery` and `AnswerStays`.

`ConfiguredMeansBound` is proved for any number of callers, while ids have not wrapped
and as long as no two of them configure the same pin (`OwnPins`, on the latest call of
each): these are the hypotheses of `ConfiguredMeansBoundHolds`. Nothing in the code
keeps two clients from configuring one pin, and then one may unbind what the other just
configured; with wrapped ids TLC finds an old answer taken for a new one. A single
caller, as in the run `client_retry`, meets `OwnPins` trivially. `PinInv` says that the
device holds an attempt as it was sent, that no command that configures or unbinds the
pin is behind it (`Underway`), and that once it was executed the pin is bound and no such
command is under way at all (`Configured`). The order of the link carries the argument:
what a caller sent earlier for the pin, or another caller that used it before, is in
front of the attempt.

*AgentServer.* `ConnectedMeansOpen` is about the moments between the locked sections, each
of which is one step: about what `send_command` finds once it has the lock.
`is_connected()` takes no lock; it may fall between the close of a socket and the
assignments behind it (`server.py:123-127`, `213-219`, `291-297`) and read TRUE of a
socket that is closed already.

None of the three safety properties is inductive by itself: that a
send is undisturbed depends on who may hold the lock and on which handler still has
the connection. `IInv` joins them with `BacklogFresh` (connections waiting to be
accepted are distinct and have no descriptor yet), `LifeCycle` (a connection gets
its descriptor when accepted and its handler later), `InHand` (what the accept loop
holds, nobody else has touched) and `TornClosed` (a connection on which a send broke
off is closed).

*EventQueue.* `FramesOwned` is inductive with the type invariant and the fact that a
producer's frames are numbered. `ImplementsLossyChannel` maps the channel in transit
to the consumer's frame followed by the queue: enqueueing is `Put`, `DropOldest` and
`Discard` are `Lose` (of the second or of the first), `Use` is `Deliver`, all else
stutters. Every frame put is new because it is in nobody's hands, by `FramesOwned`.

*Resources.* Each property has an invariant of its own, all over the type invariant.
`EdgeInv`: a pin whose handler is being removed has no mode any more. `QueueInv`: no
queue is offered while its driver is replaced or deleted. `UartInv` and `PinInv` join
what is acknowledged with what is stored: as long as the last save succeeded, the blob
holds every acknowledged row (`UartsStored`, `PinsStored`), which carries the property
over a restart; nothing is acknowledged of the subject of the command in hand
(`UartInHand`, `PinInHand`), which carries it through the command; and a level is
promised of an OUTPUT only (`LevelsOfOutputs`), which no reading or edge touches
(by `EdgesFromInterruptPins`). That a set of UARTs has a last one, which gets a pin
that several claim, rests on the well-founded order of the natural numbers.

*DeviceLink.* `LinkInv` says what the phases give without a lock, for tasks that are
interrupted anywhere and for any time: `connection_state` is 1 in the receive loop only
(`Phases`), and, unless the reconnection overtook a task, a descriptor that is connecting
is known to nobody but the call that connects it (`Connecting`), and in the receive loop
`recv()` waits on `client_sock` or on nothing (`Receiving`).

*SignalTasks.* The properties are about what a task has at one moment; the invariant says
what each step of a task holds: of commands (`Hands`: a task has one exactly unless it is
idle, and everything queued was asked for), of channels (`Channels`: those in use are the
ones in the TX task's variables, none when it is idle), of the buffer and the handler
(`Buffers`: a handler is on no pin but that of the command in hand, and only from when the
buffer is there until the handler is removed), of time (`Listening`: a capture that
reports is over, and its end is the begin plus what was asked, in 32 bits for the capture
without a transmission), and of the pins configured as INTERRUPT (`Interrupts`: as long as
no signal command disputed the pin, the dispatcher's steps end with the edge handler on
it and its interrupt enabled). It needs that None is no command, pin or request.

`EdgesOfListening` compares a sum, of the durations a handler recorded, with the time a
capture listened. `Told` is more exact: the durations add up to the time from the begin of
the capture to its last edge, which is not later than now. `Clocked` says when it holds:
in a capture without a transmission as long as the command is in hand, in an exchange from
when it listens, since the edges from before are forgotten and, in between, the interrupt
of the pin is disabled. It holds of captures nobody disturbed: the dispatcher and the other
task are off their pins (`Private`). That appending an edge adds its duration to the sum
(`SumOfEdges`) is an induction over the recursive function behind `FoldLeft`.

*Wire.* `Understood` compares two programs that describe the same messages. `FramesRead`
is about one frame: its header says how long it is, an opcode names the same message on
both sides (`OpcodesAgree`), the layouts the sender and the receiver have for it agree in
the widths of the fields and in which one counts the items (`LayoutsAgree`, each of the 44
messages a step), and so what is unpacked at the receiver's offsets is what was packed at
the sender's (`Flattened`, `Unpacked`). `WireInv` is about the stream: the buffer, followed
by what is still in the stream, is exactly the frames of the messages not yet handled
(`InFlight`), and what was handled means what was sent. Wherever `recv` cuts, that whole is
the same (`ReceiveConsistent`); the loop takes off its first frame only when all of it is
there (`Turn`), and never meets an impossible length. `FrameEnd` then says where each frame
ends, and the frames that have arrived are counted (`EndsCounted`).

`GlitchFree` rests on `Resolved`, which is about `apply_resolution` alone, for any number of
pulses that last at least 1 us: the loop keeps, of the pulses seen, the total of their times
in what is merged and in the carry, every merged pulse at least as long as the resolution,
neighbours of different levels, and a carry only while nothing is merged (`MergeKeeps`).
What arrives are such pulses, since the invariant says that a capture's items read as
pulses of the form captured (`PulsesRead`).

`Widths`, `TotalTime`, `Bytes` and `MergeEdges` are folds; the recursive functions behind
them exist, and take one step per element, by an induction over the natural numbers in
terms of sets (`Induction`, `FoldExists`, `FoldSteps`), so that nothing depends on how
long a sequence is.

*Platform.* `HeardTheMonitor` speaks of a client with no link message on its way. The
invariant `Informed` speaks of every client: the last link message in its outbox, if
there is one, carries what the monitor believes; else a client that heard one was told
that. It holds because a broadcast starts with the monitor's new belief in all
outboxes at once, and because a client that comes has an empty outbox. The lemmas on
sequences say what appending and removing does to the last link message.

`ViewsAgree` speaks of a platform at rest, so its invariant `ViewInv` says what, in one at
work, will still put right whatever does not show the level of the pin. Unless the history
marks a gap: a level read before a `gpio_set` was executed has the answer to it, or newer
news, behind it among the events (`EventsFresh`), in the hand of the handler thread
(`HandlingFresh`) and in the queue of the loop, where the answer has become the wake-up of
the call (`ReadyFresh`). So its broadcast has started when the handler of the `gpio_set`
resumes; what that one then finds filed is the level of the pin, or was read before a
later `gpio_set` that is not finished either (`FiledFresh`); and a client shows the level,
or news, such a `gpio_set`, a status or a synchronisation is on its way (`ViewsFresh`).
The cache is the same without broadcasts (`CacheFresh`). That each request is answered
once (`AtMostOnce`) and wakes the loop once (`Wakes`) keeps the witnesses apart.

*HomeAssistant.* `Heard` joins `SelectionShown`: whoever has a runtime has its listener,
so that a change of the selection is always a reload; a tracker that the user removes is
among the `removed` until the platforms are set up again. For `OptionsAvailable` the fields
must be apart (econo, turbo) before they are normalised, which every service call
keeps; what is normalised fits, and so does its frame.

*Database.* `CountInv` adds what `CountsExecutions` leaves out: that as long as nothing
overlapped, at most one request that executes, creates or deletes the command is under way
with an execution (`NoOverlap`), and that this one still holds the row's number and count,
the log being ahead by the one that is being counted (`InStep`). An update may run at any
moment: by `FlushedColumns` its commit leaves the columns it did not change.

`RowsSerial` asks for an order of the requests that succeeded, for each cell: the name of a
device or a column of the pin's row. `SerialInv` carries one along: a sequence of these
requests in which none comes before one that had ended when it began, and the value of the
cell after each of them (`Explains`). What a session has read is one of these values, from
after whatever was past when the session began. A request that fails, or is about another
cell, leaves the order as it is (`CellKept`). One that succeeds comes last, when what it
writes is what it makes of the value that is there; or, when it wrote nothing because it
would have made nothing else of what it read, right behind the value it had read
(`CellWritten`): there it may come between requests that overlapped it, and before none
that had ended when it began. `NameFold` and `PinFold` say, by induction over the order,
that the folds of the property end where these values do. It is assumed of the menus that a
name is given to one device and that requests name devices of the model.

Assumptions: `BridgeClientAssumption`, `AgentServerAssumption` and the like, stated
in the modules and evaluated by TLC in every run.

## Only model-checked

Liveness (`EveryCallReturns`, `DeviceServed`, `DepartureNoticed`, `StopCloses`,
`EveryFrameFreed`, `EveryCommandAnswered`, `LinkRecovers`, `LinkNoticed`,
`PresenceSettles`): temporal reasoning under fairness and ENABLED are beyond the prover's
backends. These nine are all the properties of the runs that no theorem states. The
induction theorems of the library take an operator, which the backends cannot instantiate;
the proofs about folds go by a least counterexample among the natural numbers instead
(`Induction`), with lemmas of their own for every fold.

## Assumptions and abstractions

* BridgeClient: payloads are reduced to what calls tell apart; the lists of opcodes
  nobody polls are left out (they only grow); `serial` and `executed` are history.
  Heartbeats without a command are generated only in runs where a call waits for one.
* AgentServer: the byte stream, `start()` again after `stop()` and two concurrent
  `stop()` calls are left out.
* EventQueue: a frame is named by its producer and number.
* Resources: commands that are refused, readings that change no table and the bytes of
  UARTs are left out, like pull, edge, baud rate and framing; tx and rx are one set of
  pins. ADC and SIGNAL pins are set up and restored as INPUT ones are. Restoring
  writes nothing to NVS and is one step. Of ESP-IDF it is assumed that `gpio_config`
  and `gpio_reset_pin` leave the output register alone and disable the interrupt of a
  pin that is not INTERRUPT, and that `uart_set_pin` fails for a number that names no
  pin; `PinsAsAcknowledged` speaks of that register, not of a pad a UART has taken. A
  level is promised of an OUTPUT only: a reading overwrites the saved value of an
  INPUT_OUTPUT. What a pin or a UART is after a failed save, a failed UART_CONFIG or a
  PORT_BIND, which is not saved, the properties leave open.
* DeviceLink: `send_task` has a frame whenever it likes. The 3 s of
  `connect_with_timeout` and the 30 s of `SO_RCVTIMEO` are choices, not clock values.
  Faults are dropped connections, a bridge that goes or comes, and calls that fail without
  either. `overtaken` is history.
* SignalTasks: the steps of the tasks and the dispatcher interleave freely, of which
  priorities exclude some orders. A capture is disturbed (`disturbed`) when another
  capture or a reconfiguration of its pin was under way at the same time. Of ESP-IDF it
  is assumed that adding a handler replaces the one of the pin and enables its interrupt.
* Wire: the values of fields are bytes that tell fields apart, with the counts real;
  neither side checks the CRC; frames are no longer than the receiver takes. That is what
  `WireAssumption` says: at most 255 items, at most 256 pulses, which is what the platform
  asks for (`models/schemas.py:55`, `67`), each of 1 to 65535 us: the handler runs once
  for each edge, which takes longer than 1 us, and `Number` has two bytes. Both loops are
  proved for every message within, and for any number of frames.
* Platform: one pin; other messages, the BLE half of a sync and roles other than
  console and the rest are left out. A connection is made once; its registration and its
  greeting (`ws/manager.py:31-33`, `main.py:299-308`) are one step, over the awaits
  between them. Faults are lost links,
  calls given up before their answer, and 35 s without heartbeats.
* Database: SQLAlchemy and SQLite as the sources use them: sessions keep what they read
  (`expire_on_commit=False`), a commit writes changed columns, an insertion of a row
  that is there fails. `alone` and `first` are history.
* HomeAssistant: Home Assistant as this integration uses it: setup and reload exclude
  each other, refreshes of a coordinator do not overlap, the state last written is
  restored. One signal report (`ble_rssi`) at a time waits to be handled, which is no bound
  on how many come; `removed` is history. Pulse widths of the infrared code are left out, its option bits kept.

## Not modelled

* The BLE manager (`ble_manager.c`): the order in which NimBLE calls back is not in these
  sources. What it sends is modelled where it arrives.
* The session sync tables (`command_dispatcher.c`): they are filled by THREAD commands to
  a device in `thread_table` only, into which nothing puts one (`main.c:129`). The
  snapshot is a list of events, whose way is EventQueue's.
* The pulses of the RMT: its items, carriers and ring buffer.
* ADC, UART traffic and `uart_rx_task`; the sensors and the other dialogs of the Home
  Assistant integration; validation, tokens and schema of the HTTP API: one call or one
  row each, without a second actor.
* The web console, deployment and build: rendering and configuration.

## Plan

Done, in this order: BridgeClient, AgentServer, EventQueue with LossyChannel,
DeviceLink, Resources with its persistence, SignalTasks, Platform, Wire with Protocol and
SignalFilter, HomeAssistant, Database, and the proofs above. What would come next:

1. **BleManager** (pairing window, in-range table); `uart_rx_task`'s hold on a queue
   joins Resources.
2. Proofs: every safety property the runs check is proved. What the modules of 1 add
   would be next, and longer pulses and more items than `WireAssumption` allows.
