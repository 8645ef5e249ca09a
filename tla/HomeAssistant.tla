---------------------------- MODULE HomeAssistant ----------------------------
(***************************************************************************)
(* The Home Assistant integration (custom_components/rose) on Home         *)
(* Assistant's one event loop: the config entry that is set up, reloaded   *)
(* and reconfigured; the coordinator, which polls the platform over HTTP   *)
(* and is pushed events over a WebSocket; the BLE trackers of the selected *)
(* devices; and one climate entity with its switches.  A step is what runs *)
(* between two awaits.                                                     *)
(*                                                                         *)
(* Home Assistant itself is modelled from how this code uses it: a setup   *)
(* and a reload of an entry exclude each other, an update listener starts  *)
(* a task that reloads the entry, refreshes of a coordinator never         *)
(* overlap, and the last state written of an entity is what it restores.   *)
(* A refresh comes 15 s after the last one, and whatever an event brings   *)
(* starts these 15 s again.  The platform is what the integration sees of  *)
(* it.                                                                     *)
(***************************************************************************)
EXTENDS Naturals, Sequences, FiniteSets

CONSTANTS
    Macs,          \* BLE devices
    Named,         \* those the platform has a name for
    Chosen,        \* those that were selected before
    Flows,         \* configuration dialogs
    Calls,         \* service calls to the climate entity that may overlap
    Settings,      \* what send_tcl or a switch may ask of each option
    MaxInbox,      \* bound: events pushed and not handled
    MaxOps,        \* bound: what the world and the user do
    MaxReloads,    \* bound: reloads waiting
    MaxFaults      \* bound: failed requests and lost WebSockets

ASSUME HomeAssistantAssumption ==
    /\ Named \subseteq Macs /\ Chosen \subseteq Macs
    /\ Settings \subseteq [{"econo", "turbo", "aux_heat"} -> {"on", "off", "keep"}]
    /\ MaxInbox \in Nat /\ MaxOps \in Nat /\ MaxReloads \in Nat /\ MaxFaults \in Nat

VARIABLES
    \* the world and the platform
    near,       \* devices in range
    link,       \* whether the platform has its device
    monitored,  \* and what its monitor last said of that
    syncing,    \* whether _sync_device_state has still to ask for the list
    inbox,      \* events on the WebSocket
    ops, faults,
    \* the config entry
    entry,      \* how far its setup is
    listening,  \* whether async_reload_entry is its update listener
    reloads,    \* reloads that wait for the setup or the reload before them
    options,    \* legacy list of selected devices
    hasBle,     \* whether it has a BLE subentry
    selected,   \* and the devices selected there
    trackers,   \* devices with a tracker
    removed,    \* history: those the user took away since the platforms were set up
    flow,       \* flow[f]
    \* the coordinator
    data,       \* coordinator.data: connected, and the devices known and home
    ok,         \* last_update_success
    fetch,      \* _async_update_data in progress
    due,        \* whether a refresh has to start
    ws,         \* the task of _websocket_loop
    \* the climate entity
    mem,        \* its fields
    shown,      \* the state last written, if any
    call        \* call[c]

worldVars   == <<near, link, monitored, syncing>>
pickVars    == <<options, hasBle, selected>>
entryVars   == <<entry, listening, reloads, trackers, removed>>
fetchVars   == <<fetch, due>>
pushVars    == <<ws, inbox>>
climateVars == <<mem, shown, call>>
vars == <<worldVars, ops, faults, pickVars, entryVars, flow, data, ok, fetchVars, pushVars,
          climateVars>>

-----------------------------------------------------------------------------
(* Helpers                                                                 *)

Operation == ops < MaxOps /\ ops' = ops + 1
Fault     == faults < MaxFaults /\ faults' = faults + 1

Linked(b)  == [type |-> "connection_change", connected |-> b, devices |-> {}]
List(ms)   == [type |-> "ble_in_range_list", connected |-> TRUE, devices |-> ms]
Seen(t, m) == [type |-> t, connected |-> TRUE, devices |-> {m}]

\* The platform broadcasts e.
Push(e) ==
    IF ws = "up" THEN Len(inbox) < MaxInbox /\ inbox' = Append(inbox, e)
    ELSE UNCHANGED inbox

NoFetch == [pc |-> "idle", connected |-> FALSE, known |-> {}, names |-> {}, range |-> {}]
NoFlow  == [pc |-> "idle", existing |-> FALSE, base |-> {}, added |-> {}]
NoCall  == [pc |-> "idle", frame |-> <<>>, live |-> FALSE]

\* hass.data has the entry between the first refresh and the end of the unload.
HasRuntime == entry \in {"platforms", "socket", "loaded", "unloading"}

\* A change of the entry or of a subentry starts its update listener.
Notified ==
    IF listening THEN reloads < MaxReloads /\ reloads' = reloads + 1
    ELSE UNCHANGED reloads

-----------------------------------------------------------------------------
(* The climate entity                                                      *)

Modes == {"off", "cool", "heat", "dry"}

\* OPTION_MODES of switch.py: the modes in which a switch is available.
OptionModes == [econo |-> {"cool"}, turbo |-> {"cool", "heat"}, aux_heat |-> {"heat"}]
Options     == DOMAIN OptionModes

\* Mutant: turbo is left on in every mode.
NormalisedNotTurbo(m) ==
    [m EXCEPT !.options = {o \in @ :
        CASE o = "aux_heat" -> m.mode = "heat"
          [] o = "econo"    -> m.mode = "cool"
          [] OTHER          -> TRUE}]

\* The start of _send: options that the mode does not have are switched off.
Normalised(m) ==
    [m EXCEPT !.options = {o \in @ :
        CASE o = "aux_heat" -> m.mode = "heat"
          [] o = "econo"    -> m.mode = "cool"
          [] OTHER          -> m.mode \in {"cool", "heat"}}]

\* encode_tcl_frame of what _send makes of the fields: bits of the frame.
Frame(m) ==
    LET mode == IF m.mode = "off" THEN m.last ELSE m.mode
    IN  [power  |-> m.mode # "off",
         mode   |-> mode,
         econo  |-> "econo" \in m.options,
         turbo  |-> "turbo" \in m.options,
         no_aux |-> mode = "heat" /\ "turbo" \in m.options /\ "aux_heat" \notin m.options]

\* The fields after async_set_hvac_mode, async_set_temperature and the like,
\* and async_send_extended, before _send.
WithMode(m)     == [mem EXCEPT !.mode = m, !.last = IF m = "off" THEN @ ELSE m]
WithTemperature == [mem EXCEPT !.mode = IF @ = "off" THEN mem.last ELSE @]
Extended(values) ==
    LET on     == {o \in Options : values[o] = "on"}
        off    == {o \in Options : values[o] = "off"}
        others == CASE "turbo" \in on -> {"econo"}
                    [] "turbo" \notin on /\ "econo" \in on -> {"turbo"}
                    [] OTHER -> {}
    IN  [mem EXCEPT !.options = (@ \union on) \ (off \union others)]

Initially == [mode |-> "off", last |-> "cool", options |-> {}]

\* async_added_to_hass: the last state written, if there is one.
Restored == IF shown = <<>> THEN Initially ELSE shown[1]

HasClimate == entry \in {"socket", "loaded"}

\* A service call or a switch: the fields are changed, and their signal is on
\* its way to the platform.
ClimateCall(c) ==
    /\ Operation
    /\ HasClimate /\ call[c].pc = "idle"
    /\ \E m \in {WithMode(x) : x \in Modes} \union {WithTemperature}
                \union {Extended(v) : v \in Settings} :
         /\ mem' = Normalised(m)
         /\ call' = [call EXCEPT ![c] = [pc |-> "sent", frame |-> Frame(mem'), live |-> TRUE]]
    /\ UNCHANGED <<worldVars, faults, pickVars, entryVars, flow, data, ok, fetchVars, pushVars,
                   shown>>

\* signal_tx returns, and the state is written: the fields as they are by now.
SignalSent(c) ==
    /\ call[c].pc = "sent"
    /\ call' = [call EXCEPT ![c] = NoCall]
    /\ shown' = IF call[c].live THEN <<mem>> ELSE shown
    /\ UNCHANGED <<worldVars, ops, faults, pickVars, entryVars, flow, data, ok, fetchVars,
                   pushVars, mem>>

\* It raises: the fields stay changed.
SignalFailed(c) ==
    /\ Fault
    /\ call[c].pc = "sent"
    /\ call' = [call EXCEPT ![c] = NoCall]
    /\ UNCHANGED <<worldVars, ops, pickVars, entryVars, flow, data, ok, fetchVars, pushVars,
                   mem, shown>>

\* Home Assistant writes the state of an entity that is polled.
Poll ==
    /\ HasClimate
    /\ shown' = <<mem>>
    /\ UNCHANGED <<worldVars, ops, faults, pickVars, entryVars, flow, data, ok, fetchVars,
                   pushVars, mem, call>>

-----------------------------------------------------------------------------
(* The world and the platform                                              *)

\* A device comes or goes; the agent notices, and says so while it is linked.
Move(m) ==
    /\ Operation
    /\ near' = IF m \in near THEN near \ {m} ELSE near \union {m}
    /\ IF link
       THEN Push(Seen(IF m \in near THEN "ble_device_out_of_range"
                      ELSE "ble_device_in_range", m))
       ELSE UNCHANGED inbox
    /\ UNCHANGED <<link, monitored, syncing, faults, pickVars, entryVars, flow, data, ok,
                   fetchVars, ws, climateVars>>

\* The agent reports the signal of a device that is near, again and again.
\* Bound: one such report at a time waits to be handled.
Rssi(m) ==
    /\ link /\ m \in near /\ ws = "up"
    /\ \A k \in DOMAIN inbox : inbox[k].type # "ble_rssi"
    /\ Push(Seen("ble_rssi", m))
    /\ UNCHANGED <<worldVars, ops, faults, pickVars, entryVars, flow, data, ok, fetchVars, ws,
                   climateVars>>

\* The connection of the device is lost, or there is a new one.
LinkChanges ==
    /\ Operation
    /\ link' = ~link
    /\ UNCHANGED <<near, monitored, syncing, faults, pickVars, entryVars, flow, data, ok,
                   fetchVars, pushVars, climateVars>>

\* _monitor_bridge finds that, and starts a sync when the device is there.
MonitorSees ==
    /\ monitored # link
    /\ monitored' = link
    /\ Push(Linked(link))
    /\ syncing' = (syncing \/ link)
    /\ UNCHANGED <<near, link, ops, faults, pickVars, entryVars, flow, data, ok, fetchVars, ws,
                   climateVars>>

\* Or it misses the heartbeats of a connection that is still there.
HeartbeatLate ==
    /\ Operation
    /\ link /\ monitored
    /\ monitored' = FALSE
    /\ Push(Linked(FALSE))
    /\ UNCHANGED <<near, link, syncing, faults, pickVars, entryVars, flow, data, ok, fetchVars,
                   ws, climateVars>>

\* The list that _sync_device_state asks for is broadcast.
SyncList ==
    /\ syncing
    /\ syncing' = FALSE
    /\ IF link THEN Push(List(near)) ELSE UNCHANGED inbox
    /\ UNCHANGED <<near, link, monitored, ops, faults, pickVars, entryVars, flow, data, ok,
                   fetchVars, ws, climateVars>>

\* The connection of the WebSocket: the platform greets with its link, and
\* starts a sync.
WsConnect ==
    /\ ws = "wait"
    /\ ws' = "up" /\ inbox' = <<Linked(link)>>
    /\ syncing' = (syncing \/ link)
    /\ UNCHANGED <<near, link, monitored, ops, faults, pickVars, entryVars, flow, data, ok,
                   fetchVars, climateVars>>

\* The WebSocket ends: the loop asks for a refresh, sleeps and connects again.
WsDrop ==
    /\ Fault
    /\ ws = "up"
    /\ ws' = "wait" /\ inbox' = <<>>
    /\ due' = TRUE
    /\ UNCHANGED <<worldVars, ops, pickVars, entryVars, flow, data, ok, fetch, climateVars>>

-----------------------------------------------------------------------------
(* The coordinator                                                         *)

\* connection_changed.
ConnectionChanged(d, b) ==
    [d EXCEPT !.connected = b, !.home = IF b THEN @ ELSE {}]

\* _set_ble_state of the devices ms.
WithStates(d, ms, home) ==
    [d EXCEPT !.known = @ \union ms,
              !.home = IF home THEN @ \union ms ELSE @ \ ms]

\* _handle_ble_event.
Handled(d, e) ==
    CASE e.type = "connection_change" -> ConnectionChanged(d, e.connected)
      [] e.type = "ble_in_range_list" ->
             WithStates(WithStates(d, d.known \union e.devices, FALSE), e.devices, TRUE)
      [] e.type = "ble_device_in_range" -> WithStates(d, e.devices, TRUE)
      [] e.type = "ble_device_out_of_range" -> WithStates(d, e.devices, FALSE)
      [] OTHER -> WithStates(d, e.devices \ d.home, FALSE)

\* One message of websocket_messages; async_set_updated_data also ends the
\* failure of an earlier refresh, takes back the refresh that was due, and
\* starts its 15 s again.  After a change of the link a refresh is requested.
\* An empty list changes nothing when no device is known.
HandleEvent ==
    /\ ws = "up" /\ inbox # <<>>
    /\ LET e == Head(inbox)
       IN  IF e.type = "ble_in_range_list" /\ data.known \union e.devices = {}
           THEN UNCHANGED <<data, ok, due>>
           ELSE /\ data' = Handled(data, e) /\ ok' = TRUE
                /\ due' = (e.type = "connection_change")
    /\ inbox' = Tail(inbox)
    /\ UNCHANGED <<worldVars, ops, faults, pickVars, entryVars, flow, fetch, ws, climateVars>>

HasCoordinator == entry \in {"platforms", "socket", "loaded"}

\* 15 s have passed without a refresh and without an event.
TimerExpires ==
    /\ HasCoordinator /\ fetch.pc = "idle" /\ ~due
    /\ due' = TRUE
    /\ UNCHANGED <<worldVars, ops, faults, pickVars, entryVars, flow, data, ok, fetch, pushVars,
                   climateVars>>

StartRefresh ==
    /\ HasCoordinator /\ fetch.pc = "idle" /\ due
    /\ fetch' = [NoFetch EXCEPT !.pc = "status"]
    /\ due' = FALSE
    /\ UNCHANGED <<worldVars, ops, faults, pickVars, entryVars, flow, data, ok, pushVars,
                   climateVars>>

\* device_status answers, and the devices known are captured.
FetchStatus ==
    /\ fetch.pc = "status"
    /\ fetch' = [fetch EXCEPT !.pc = "names", !.connected = link, !.known = data.known]
    /\ UNCHANGED <<due, worldVars, ops, faults, pickVars, entryVars, flow, data, ok, pushVars,
                   climateVars>>

\* It fails: UpdateFailed, and in the first refresh ConfigEntryNotReady.
FetchFails ==
    /\ Fault
    /\ fetch.pc = "status"
    /\ fetch' = NoFetch
    /\ ok' = FALSE
    /\ entry' = IF entry = "first" THEN "retry" ELSE entry
    /\ UNCHANGED <<due, worldVars, ops, pickVars, listening, reloads, trackers, removed, flow,
                   data, pushVars, climateVars>>

\* ble_device_names answers, or fails.
FetchNames ==
    /\ fetch.pc = "names"
    /\ \/ /\ fetch' = [fetch EXCEPT !.pc = "range", !.names = Named]
          /\ UNCHANGED faults
       \/ /\ Fault
          /\ fetch' = [fetch EXCEPT !.pc = "range"]
    /\ UNCHANGED <<due, worldVars, ops, pickVars, entryVars, flow, data, ok, pushVars,
                   climateVars>>

\* ble_in_range answers with the list of the agent, which is also broadcast, or
\* without a link with an error; or it fails, or the bridge gives up waiting.
FetchRange ==
    /\ fetch.pc = "range"
    /\ \/ /\ fetch' = [fetch EXCEPT !.pc = "merge", !.range = IF link THEN near ELSE {}]
          /\ IF link THEN Push(List(near)) ELSE UNCHANGED inbox
          /\ UNCHANGED faults
       \/ /\ Fault
          /\ fetch' = [fetch EXCEPT !.pc = "merge"]
          /\ UNCHANGED inbox
    /\ UNCHANGED <<due, worldVars, ops, pickVars, entryVars, flow, data, ok, ws, climateVars>>

\* Mutant: who was at home stays there.
MergeBleDevicesKeeping ==
    [connected |-> fetch.connected,
     known     |-> fetch.known \union fetch.names \union fetch.range,
     home      |-> fetch.range \union data.home]

\* The data of a refresh: merge_ble_devices of what was known when it began.
MergeBleDevices ==
    [connected |-> fetch.connected,
     known     |-> fetch.known \union fetch.names \union fetch.range,
     home      |-> fetch.range]

\* The refresh ends and replaces the data, whatever was pushed meanwhile.
Merge ==
    /\ fetch.pc = "merge" /\ entry # "first"
    /\ data' = MergeBleDevices /\ ok' = TRUE /\ fetch' = NoFetch
    /\ UNCHANGED <<due, worldVars, ops, faults, pickVars, entryVars, flow, pushVars,
                   climateVars>>

-----------------------------------------------------------------------------
(* The config entry                                                        *)

NoData == [connected |-> FALSE, known |-> {}, home |-> {}]

\* async_setup_entry asks for the hardware and begins the first refresh.
SetupHardware ==
    /\ entry = "hardware"
    /\ entry' = "first"
    /\ fetch' = [NoFetch EXCEPT !.pc = "status"]
    /\ UNCHANGED <<due, worldVars, ops, faults, pickVars, listening, reloads, trackers, removed,
                   flow, data, ok, pushVars, climateVars>>

SetupFails ==
    /\ Fault
    /\ entry = "hardware"
    /\ entry' = "retry"
    /\ UNCHANGED <<worldVars, ops, pickVars, listening, reloads, trackers, removed, flow, data,
                   ok, fetchVars, pushVars, climateVars>>

\* Home Assistant sets up again an entry that was not ready.
RetrySetup ==
    /\ entry = "retry"
    /\ entry' = "hardware"
    /\ UNCHANGED <<worldVars, ops, faults, pickVars, listening, reloads, trackers, removed,
                   flow, data, ok, fetchVars, pushVars, climateVars>>

\* A legacy list of devices becomes a subentry.
Migrated ==
    IF options # {} /\ ~hasBle
    THEN hasBle' = TRUE /\ selected' = options /\ options' = {}
    ELSE UNCHANGED pickVars

\* Mutant: the listener comes with the end of the setup.
FirstRefreshedUnheard ==
    /\ entry = "first" /\ fetch.pc = "merge"
    /\ data' = MergeBleDevices /\ ok' = TRUE /\ fetch' = NoFetch
    /\ Migrated
    /\ listening' = FALSE
    /\ entry' = "platforms"
    /\ UNCHANGED <<due, worldVars, ops, faults, reloads, trackers, removed, flow, pushVars,
                   climateVars>>

\* After the first refresh: hass.data, the migration, the update listener.
FirstRefreshed ==
    /\ entry = "first" /\ fetch.pc = "merge"
    /\ data' = MergeBleDevices /\ ok' = TRUE /\ fetch' = NoFetch
    /\ Migrated
    /\ listening' = TRUE
    /\ entry' = "platforms"
    /\ UNCHANGED <<due, worldVars, ops, faults, reloads, trackers, removed, flow, pushVars,
                   climateVars>>

\* The platforms of the entry are set up: a tracker for each selected device,
\* and the climate entity.
SetupPlatforms ==
    /\ entry = "platforms"
    /\ trackers' = selected /\ removed' = {}
    /\ mem' = Restored /\ shown' = <<mem'>>
    /\ entry' = "socket"
    /\ UNCHANGED <<worldVars, ops, faults, pickVars, listening, reloads, flow, data, ok,
                   fetchVars, pushVars, call>>

\* async_start_websocket, the end of the setup.
StartWebsocket ==
    /\ entry = "socket"
    /\ ws' = "wait" /\ inbox' = <<>>
    /\ entry' = "loaded"
    /\ UNCHANGED <<worldVars, ops, faults, pickVars, listening, reloads, trackers, removed,
                   flow, data, ok, fetchVars, climateVars>>

\* A reload begins: the entities of the platforms go.
Reload ==
    /\ reloads > 0 /\ entry = "loaded"
    /\ entry' = "unloading"
    /\ trackers' = {} /\ removed' = {}
    /\ call' = [c \in Calls |-> [call[c] EXCEPT !.live = FALSE]]
    /\ UNCHANGED <<worldVars, ops, faults, pickVars, listening, reloads, flow, data, ok,
                   fetchVars, pushVars, mem, shown>>

\* async_unload_entry stops the WebSocket and forgets the runtime with its
\* coordinator, and the listener goes; the setup follows.
Unloaded ==
    /\ entry = "unloading"
    /\ ws' = "off" /\ inbox' = <<>>
    /\ data' = NoData /\ ok' = FALSE /\ fetch' = NoFetch /\ due' = FALSE
    /\ listening' = FALSE
    /\ reloads' = reloads - 1
    /\ entry' = "hardware"
    /\ UNCHANGED <<worldVars, ops, faults, pickVars, trackers, removed, flow, climateVars>>

\* A reload of an entry that was not ready.
ReloadNotReady ==
    /\ reloads > 0 /\ entry = "retry"
    /\ reloads' = reloads - 1
    /\ entry' = "hardware"
    /\ UNCHANGED <<worldVars, ops, faults, pickVars, listening, trackers, removed, flow, data,
                   ok, fetchVars, pushVars, climateVars>>

-----------------------------------------------------------------------------
(* The selection of BLE devices                                            *)

\* The end of a dialog: the subentry found when it was submitted is updated,
\* or one is created unless there is one by now.
Selects(d) ==
    IF d.existing
    THEN /\ selected' = d.base \union d.added
         /\ IF selected' # selected THEN Notified ELSE UNCHANGED reloads
         /\ UNCHANGED <<options, hasBle>>
    ELSE IF hasBle THEN UNCHANGED <<pickVars, reloads>>
    ELSE /\ hasBle' = TRUE /\ selected' = d.base \union d.added
         /\ Notified
         /\ UNCHANGED options

\* _async_step_sync with the user's choice, up to its await; without a client
\* there is none.
FlowSubmit(f) ==
    /\ Operation
    /\ flow[f].pc = "idle"
    /\ \E m \in Named :
         LET d == [pc |-> "names", existing |-> hasBle,
                   base |-> IF hasBle THEN selected ELSE options, added |-> {m}]
         IN  IF HasRuntime
             THEN flow' = [flow EXCEPT ![f] = d] /\ UNCHANGED <<pickVars, reloads>>
             ELSE Selects(d) /\ UNCHANGED flow
    /\ UNCHANGED <<worldVars, faults, entry, listening, trackers, removed, data, ok, fetchVars,
                   pushVars, climateVars>>

\* ble_device_names answers.
FlowEnds(f) ==
    /\ flow[f].pc = "names"
    /\ Selects(flow[f])
    /\ flow' = [flow EXCEPT ![f] = NoFlow]
    /\ UNCHANGED <<worldVars, ops, faults, entry, listening, trackers, removed, data, ok,
                   fetchVars, pushVars, climateVars>>

\* It fails, and the form is shown again.
FlowFails(f) ==
    /\ Fault
    /\ flow[f].pc = "names"
    /\ flow' = [flow EXCEPT ![f] = NoFlow]
    /\ UNCHANGED <<worldVars, ops, pickVars, entryVars, data, ok, fetchVars, pushVars,
                   climateVars>>

\* A dialog about an air conditioner, a light or the like ends.
OtherDialog ==
    /\ Operation
    /\ listening /\ Notified
    /\ UNCHANGED <<worldVars, faults, pickVars, entry, listening, trackers, removed, flow, data,
                   ok, fetchVars, pushVars, climateVars>>

\* The user removes a tracker.  Its listener, which is to take the device out
\* of the selection, runs in a thread of the executor, where Home Assistant
\* refuses it the task for that: the device stays selected.
RemoveTracker(m) ==
    /\ Operation
    /\ m \in trackers
    /\ trackers' = trackers \ {m}
    /\ removed' = removed \union {m}
    /\ UNCHANGED <<worldVars, faults, pickVars, entry, listening, reloads, flow, data, ok,
                   fetchVars, pushVars, climateVars>>

-----------------------------------------------------------------------------
Init ==
    /\ near = Macs /\ link = TRUE /\ monitored = TRUE /\ syncing = FALSE
    /\ ops = 0 /\ faults = 0
    /\ \/ hasBle = TRUE /\ selected = Chosen /\ options = {}
       \/ hasBle = FALSE /\ selected = {} /\ options = Chosen
    /\ entry = "hardware" /\ listening = FALSE /\ reloads = 0
    /\ trackers = {} /\ removed = {}
    /\ flow = [f \in Flows |-> NoFlow]
    /\ data = NoData /\ ok = FALSE /\ fetch = NoFetch /\ due = FALSE
    /\ ws = "off" /\ inbox = <<>>
    /\ mem = Initially /\ shown = <<>> /\ call = [c \in Calls |-> NoCall]

World ==
    \/ \E m \in Macs : Move(m) \/ Rssi(m)
    \/ LinkChanges \/ MonitorSees \/ HeartbeatLate \/ SyncList \/ WsDrop
Coordinator ==
    \/ WsConnect \/ HandleEvent \/ TimerExpires
    \/ StartRefresh \/ FetchStatus \/ FetchFails \/ FetchNames \/ FetchRange \/ Merge
Setup ==
    \/ SetupHardware \/ SetupFails \/ RetrySetup \/ FirstRefreshed \/ SetupPlatforms
    \/ StartWebsocket \/ Reload \/ Unloaded \/ ReloadNotReady
Selection ==
    \/ \E f \in Flows : FlowSubmit(f) \/ FlowEnds(f) \/ FlowFails(f)
    \/ OtherDialog
    \/ \E m \in Macs : RemoveTracker(m)
Climate ==
    \/ \E c \in Calls : ClimateCall(c) \/ SignalSent(c) \/ SignalFailed(c)
    \/ Poll

Next == World \/ Coordinator \/ Setup \/ Selection \/ Climate

\* The tasks of the loop go on, and requests are answered or time out.  The
\* timer of the coordinator is sure to expire only once events have stopped:
\* each starts it again.  A task of the setup and one of the coordinator may
\* wait for each other's turn without end only if the loop is unfair.  Nothing
\* is assumed of the monitor.
Fairness ==
    /\ WF_vars(SyncList) /\ WF_vars(WsConnect) /\ WF_vars(HandleEvent)
    /\ WF_vars(TimerExpires /\ inbox = <<>>)
    /\ WF_vars(StartRefresh) /\ WF_vars(FetchStatus) /\ WF_vars(FetchNames)
    /\ WF_vars(FetchRange) /\ WF_vars(Merge)
    /\ WF_vars(SetupHardware) /\ WF_vars(RetrySetup) /\ WF_vars(FirstRefreshed)
    /\ WF_vars(SetupPlatforms) /\ WF_vars(StartWebsocket)
    /\ WF_vars(Reload) /\ WF_vars(Unloaded) /\ WF_vars(ReloadNotReady)
    /\ \A f \in Flows : WF_vars(FlowEnds(f))

Spec == Init /\ [][Next]_vars /\ Fairness

-----------------------------------------------------------------------------
(* Properties                                                              *)

Settled ==
    /\ entry = "loaded" /\ ok
    /\ data.connected = link
    /\ data.home = IF link THEN near ELSE {}

\* Once devices stay where they are and the link, the WebSocket and the user
\* are quiet, what the trackers show becomes true for good: whatever the
\* refreshes overwrote, the events that were lost with the WebSocket, the
\* monitor that misses heartbeats and the requests that failed, the entry is
\* set up, the data is valid, the link is the platform's, and at home is who
\* is in range.  Reports of signals may go on; only if they come without end,
\* and so densely that no refresh ever starts again, a lie may stay
\* (coordinator.py:39-63, 85-131).
PresenceSettles ==
    \/ <>[]Settled
    \/ <>[](fetch.pc = "idle") /\ []<>(inbox # <<>>)

\* There is a tracker for each selected device, unless the user removed it
\* since they were set up or a reload is due, and for no other: no change of
\* the selection falls between the setup of the platforms and the listener
\* that makes it known (__init__.py:129-131, device_tracker.py:12-37,
\* config_flow.py:94-151).
SelectionShown == HasClimate /\ reloads = 0 => trackers = selected \ removed

Fits(m) ==
    /\ \A o \in m.options : m.mode \in OptionModes[o]
    /\ ~({"econo", "turbo"} \subseteq m.options)

FrameFits(fr) ==
    /\ fr.econo => fr.power /\ fr.mode = "cool" /\ ~fr.turbo
    /\ fr.turbo => fr.power /\ fr.mode \in {"cool", "heat"}
    /\ fr.no_aux => fr.turbo

\* An option that is on, in the fields, in the state shown and restored, or in
\* a signal on its way, is one whose switch is available to switch it off, and
\* econo and turbo are never on together (climate.py:141-198, switch.py:30).
OptionsAvailable ==
    /\ Fits(mem)
    /\ shown # <<>> => Fits(shown[1])
    /\ \A c \in Calls : call[c].pc = "sent" => FrameFits(call[c].frame)
=============================================================================
