------------------------- MODULE HomeAssistantProofs -------------------------
(* What HomeAssistant guarantees for any devices, dialogs, overlapping     *)
(* calls and faults.                                                       *)
EXTENDS HomeAssistant, TLAPS

-----------------------------------------------------------------------------
(* The selection.  SelectionShown is not inductive: it needs that whoever  *)
(* changes the selection of an entry with trackers finds the listener, and *)
(* that a reload under way is one that was asked for.                      *)

Heard ==
    /\ reloads \in Nat
    /\ HasRuntime => listening
    /\ entry = "unloading" => reloads > 0

SelectionInv == Heard /\ SelectionShown

\* An action that leaves the entry, the trackers and the selection alone.
LEMMA SelectionUntouched ==
    ASSUME SelectionInv, UNCHANGED <<entryVars, selected>>
    PROVE  SelectionInv'
BY DEF SelectionInv, Heard, SelectionShown, HasClimate, HasRuntime, entryVars

\* Without a change of the selection, a reload more or none keeps it shown.
LEMMA SelectsShown ==
    ASSUME SelectionInv, NEW d, Selects(d), UNCHANGED <<entry, listening, trackers, removed>>
    PROVE  SelectionInv'
<1> USE DEF SelectionInv, Heard, SelectionShown, HasClimate, HasRuntime
<1>1. CASE UNCHANGED <<selected, reloads>>
  BY <1>1
<1>2. CASE Notified
  BY <1>2 DEF Notified
<1> QED
  BY <1>1, <1>2 DEF Selects, pickVars

LEMMA SelectionStep == SelectionInv /\ [Next]_vars => SelectionInv'
<1> SUFFICES ASSUME SelectionInv, [Next]_vars PROVE SelectionInv'
  OBVIOUS
<1> USE DEF vars, pickVars, entryVars
<1>1. ASSUME World PROVE SelectionInv'
  BY <1>1, SelectionUntouched
     DEF World, Move, Rssi, LinkChanges, MonitorSees, HeartbeatLate, WsDrop, SyncList
<1>2. ASSUME WsConnect \/ HandleEvent \/ TimerExpires \/ StartRefresh \/ FetchStatus
             \/ FetchNames \/ FetchRange \/ Merge
      PROVE  SelectionInv'
  BY <1>2, SelectionUntouched
     DEF WsConnect, HandleEvent, TimerExpires, StartRefresh, FetchStatus, FetchNames,
         FetchRange, Merge
<1>3. ASSUME FetchFails PROVE SelectionInv'
  BY <1>3 DEF FetchFails, SelectionInv, Heard, SelectionShown, HasClimate, HasRuntime
<1>4. ASSUME SetupHardware \/ SetupFails \/ RetrySetup PROVE SelectionInv'
  BY <1>4 DEF SetupHardware, SetupFails, RetrySetup,
              SelectionInv, Heard, SelectionShown, HasClimate, HasRuntime
<1>5. ASSUME FirstRefreshed PROVE SelectionInv'
  BY <1>5 DEF FirstRefreshed, SelectionInv, Heard, SelectionShown, HasClimate, HasRuntime
<1>6. ASSUME SetupPlatforms \/ StartWebsocket PROVE SelectionInv'
  BY <1>6 DEF SetupPlatforms, StartWebsocket,
              SelectionInv, Heard, SelectionShown, HasClimate, HasRuntime
<1>7. ASSUME Reload PROVE SelectionInv'
  BY <1>7 DEF Reload, SelectionInv, Heard, SelectionShown, HasClimate, HasRuntime
<1>8. ASSUME Unloaded PROVE SelectionInv'
  BY <1>8 DEF Unloaded, SelectionInv, Heard, SelectionShown, HasClimate, HasRuntime
<1>9. ASSUME ReloadNotReady PROVE SelectionInv'
  BY <1>9 DEF ReloadNotReady, SelectionInv, Heard, SelectionShown, HasClimate, HasRuntime
<1>10. ASSUME NEW f \in Flows, FlowSubmit(f) PROVE SelectionInv'
  <2>1. PICK d : (UNCHANGED <<pickVars, reloads>>) \/ Selects(d)
    BY <1>10 DEF FlowSubmit
  <2> QED
    BY <1>10, <2>1, SelectsShown, SelectionUntouched DEF FlowSubmit
<1>11. ASSUME NEW f \in Flows, FlowEnds(f) PROVE SelectionInv'
  BY <1>11, SelectsShown DEF FlowEnds
<1>12. ASSUME NEW f \in Flows, FlowFails(f) PROVE SelectionInv'
  BY <1>12, SelectionUntouched DEF FlowFails
<1>13. ASSUME NEW m \in Macs, RemoveTracker(m) PROVE SelectionInv'
  BY <1>13 DEF RemoveTracker, SelectionInv, Heard, SelectionShown, HasClimate, HasRuntime
<1>14. ASSUME OtherDialog PROVE SelectionInv'
  BY <1>14 DEF OtherDialog, Notified, SelectionInv, Heard, SelectionShown, HasClimate,
               HasRuntime
<1>15. ASSUME Climate PROVE SelectionInv'
  BY <1>15, SelectionUntouched DEF Climate, ClimateCall, SignalSent, SignalFailed, Poll
<1>16. ASSUME UNCHANGED vars PROVE SelectionInv'
  BY <1>16, SelectionUntouched
<1> QED
  BY <1>1, <1>2, <1>3, <1>4, <1>5, <1>6, <1>7, <1>8, <1>9, <1>10, <1>11, <1>12, <1>13,
     <1>14, <1>15, <1>16 DEF Next, Coordinator, Setup, Selection

(* The trackers are those of the selected devices that the user did not    *)
(* remove, unless a reload is due, however dialogs, removals, reloads and  *)
(* failed setups interleave.                                               *)
THEOREM SelectionShownHolds == Spec => []SelectionShown
<1>1. Init => SelectionInv
  BY DEF Init, SelectionInv, Heard, SelectionShown, HasClimate, HasRuntime
<1>2. SelectionInv => SelectionShown
  BY DEF SelectionInv
<1> QED
  BY <1>1, <1>2, SelectionStep, PTL DEF Spec

-----------------------------------------------------------------------------
(* The options of the climate entity.  What is shown, restored and sent    *)
(* must be typed for the induction; that the fields fit is its hypothesis. *)

Field == [mode : Modes, last : Modes, options : SUBSET Options]

Signal == [power : BOOLEAN, mode : Modes, econo : BOOLEAN, turbo : BOOLEAN, no_aux : BOOLEAN]

ClimateType ==
    /\ mem \in Field
    /\ shown # <<>> => shown[1] \in Field
    /\ call \in [Calls -> [pc : {"idle", "sent"}, frame : Signal \union {<<>>}, live : BOOLEAN]]

ClimateInv == ClimateType /\ OptionsAvailable

\* Econo and turbo are not on together.
Apart(m) == ~({"econo", "turbo"} \subseteq m.options)

\* The start of _send makes fields fit whose econo and turbo are apart.
LEMMA NormalisedFits ==
    ASSUME NEW m \in Field, Apart(m)
    PROVE  Normalised(m) \in Field /\ Fits(Normalised(m))
<1> DEFINE n == Normalised(m)
<1>1. n \in Field /\ n.mode = m.mode /\ n.options \subseteq m.options
  BY DEF Normalised, Field
<1>2. ASSUME NEW o \in n.options PROVE n.mode \in OptionModes[o]
  <2>1. o \in {"econo", "turbo", "aux_heat"}
    BY <1>1, <1>2 DEF Field, Options, OptionModes
  <2>2. CASE o = "econo"
    BY <1>1, <1>2, <2>2 DEF Normalised, Field, OptionModes
  <2>3. CASE o = "turbo"
    BY <1>1, <1>2, <2>3 DEF Normalised, Field, OptionModes
  <2>4. CASE o = "aux_heat"
    BY <1>1, <1>2, <2>4 DEF Normalised, Field, OptionModes
  <2> QED BY <2>1, <2>2, <2>3, <2>4
<1> QED
  BY <1>1, <1>2 DEF Fits, Apart

\* A service call or a switch keeps econo and turbo apart.
LEMMA WantedApart ==
    ASSUME mem \in Field, Fits(mem), NEW m,
           \/ \E x \in Modes : m = WithMode(x)
           \/ m = WithTemperature
           \/ \E v \in Settings : m = Extended(v)
    PROVE  m \in Field /\ Apart(m)
<1>1. CASE \E x \in Modes : m = WithMode(x)
  BY <1>1 DEF WithMode, Field, Fits, Apart
<1>2. CASE m = WithTemperature
  BY <1>2 DEF WithTemperature, Field, Fits, Apart
<1>3. CASE \E v \in Settings : m = Extended(v)
  <2>1. PICK v \in Settings : m = Extended(v)
    BY <1>3
  <2> DEFINE on     == {o \in Options : v[o] = "on"}
             off    == {o \in Options : v[o] = "off"}
             others == CASE "turbo" \in on -> {"econo"}
                         [] "turbo" \notin on /\ "econo" \in on -> {"turbo"}
                         [] OTHER -> {}
  <2>2. m = [mem EXCEPT !.options = (@ \union on) \ (off \union others)]
    BY <2>1 DEF Extended
  <2>3. m \in Field /\ m.options = (mem.options \union on) \ (off \union others)
    BY <2>2 DEF Field
  <2>4. ~({"econo", "turbo"} \subseteq m.options)
    <3>1. CASE "turbo" \in on
      BY <2>3, <3>1
    <3>2. CASE "turbo" \notin on /\ "econo" \in on
      BY <2>3, <3>2
    <3>3. CASE "turbo" \notin on /\ "econo" \notin on
      BY <2>3, <3>3 DEF Fits
    <3> QED BY <3>1, <3>2, <3>3
  <2> QED BY <2>3, <2>4 DEF Apart
<1> QED BY <1>1, <1>2, <1>3

\* The signal of fields that fit.
LEMMA FrameOfFits ==
    ASSUME NEW m \in Field, Fits(m)
    PROVE  Frame(m) \in Signal /\ FrameFits(Frame(m))
<1>1. Frame(m) \in Signal
  BY DEF Frame, Signal, Field, Modes
<1>2. "econo" \in m.options => m.mode = "cool" /\ "turbo" \notin m.options
  BY DEF Fits, OptionModes
<1>3. "turbo" \in m.options => m.mode \in {"cool", "heat"}
  BY DEF Fits, OptionModes
<1> QED
  BY <1>1, <1>2, <1>3 DEF Frame, FrameFits

LEMMA ClimateUntouched ==
    ASSUME ClimateInv, UNCHANGED climateVars
    PROVE  ClimateInv'
BY DEF ClimateInv, ClimateType, OptionsAvailable, climateVars

LEMMA ClimateStep == ClimateInv /\ [Next]_vars => ClimateInv'
<1> SUFFICES ASSUME ClimateInv, [Next]_vars PROVE ClimateInv'
  OBVIOUS
<1>1. ASSUME NEW c \in Calls, ClimateCall(c) PROVE ClimateInv'
  <2>1. PICK m : /\ \/ \E x \in Modes : m = WithMode(x)
                    \/ m = WithTemperature
                    \/ \E v \in Settings : m = Extended(v)
                 /\ mem' = Normalised(m)
                 /\ call' = [call EXCEPT ![c] =
                               [pc |-> "sent", frame |-> Frame(mem'), live |-> TRUE]]
    BY <1>1 DEF ClimateCall
  <2>2. mem' \in Field /\ Fits(mem')
    BY <2>1, WantedApart, NormalisedFits DEF ClimateInv, ClimateType, OptionsAvailable
  <2>3. Frame(mem') \in Signal /\ FrameFits(Frame(mem'))
    BY <2>2, FrameOfFits
  <2>4. shown' = shown
    BY <1>1 DEF ClimateCall
  <2>5. /\ call' \in [Calls -> [pc : {"idle", "sent"}, frame : Signal \union {<<>>},
                                live : BOOLEAN]]
        /\ \A x \in Calls : call'[x].pc = "sent" => FrameFits(call'[x].frame)
    BY <2>1, <2>3 DEF ClimateInv, ClimateType, OptionsAvailable
  <2> QED BY <2>2, <2>4, <2>5 DEF ClimateInv, ClimateType, OptionsAvailable
<1>2. ASSUME NEW c \in Calls, SignalSent(c) \/ SignalFailed(c) PROVE ClimateInv'
  <2>1. mem' = mem /\ (shown' = shown \/ shown' = <<mem>>) /\ call' = [call EXCEPT ![c] = NoCall]
    BY <1>2 DEF SignalSent, SignalFailed
  <2>2. /\ call' \in [Calls -> [pc : {"idle", "sent"}, frame : Signal \union {<<>>},
                                live : BOOLEAN]]
        /\ \A x \in Calls : call'[x].pc = "sent" => FrameFits(call'[x].frame)
    BY <2>1 DEF ClimateInv, ClimateType, OptionsAvailable, NoCall
  <2> QED BY <2>1, <2>2 DEF ClimateInv, ClimateType, OptionsAvailable
<1>3. ASSUME Poll PROVE ClimateInv'
  BY <1>3 DEF Poll, ClimateInv, ClimateType, OptionsAvailable
<1>4. ASSUME SetupPlatforms PROVE ClimateInv'
  <2>1. Initially \in Field /\ Fits(Initially)
    BY DEF Initially, Field, Fits, Modes
  <2>2. Restored \in Field /\ Fits(Restored)
    BY <2>1 DEF Restored, ClimateInv, ClimateType, OptionsAvailable
  <2> QED
    BY <1>4, <2>2 DEF SetupPlatforms, ClimateInv, ClimateType, OptionsAvailable
<1>5. ASSUME Reload PROVE ClimateInv'
  <2>1. mem' = mem /\ shown' = shown
    BY <1>5 DEF Reload
  <2>2. call' = [c \in Calls |-> [call[c] EXCEPT !.live = FALSE]]
    BY <1>5 DEF Reload
  <2>3. ASSUME NEW c \in Calls
        PROVE  /\ call'[c] \in [pc : {"idle", "sent"}, frame : Signal \union {<<>>},
                                live : BOOLEAN]
               /\ call'[c].pc = call[c].pc /\ call'[c].frame = call[c].frame
    BY <2>2 DEF ClimateInv, ClimateType
  <2> QED BY <2>1, <2>2, <2>3 DEF ClimateInv, ClimateType, OptionsAvailable
<1>6. ASSUME World PROVE ClimateInv'
  BY <1>6, ClimateUntouched
     DEF World, Move, Rssi, LinkChanges, MonitorSees, HeartbeatLate, WsDrop, SyncList,
         climateVars
<1>7. ASSUME Coordinator PROVE ClimateInv'
  BY <1>7, ClimateUntouched
     DEF Coordinator, WsConnect, HandleEvent, TimerExpires, StartRefresh, FetchStatus,
         FetchFails, FetchNames, FetchRange, Merge
<1>8. ASSUME SetupHardware \/ SetupFails \/ RetrySetup \/ FirstRefreshed \/ StartWebsocket
             \/ Unloaded \/ ReloadNotReady
      PROVE  ClimateInv'
  BY <1>8, ClimateUntouched
     DEF SetupHardware, SetupFails, RetrySetup, FirstRefreshed, StartWebsocket, Unloaded,
         ReloadNotReady
<1>9. ASSUME Selection PROVE ClimateInv'
  BY <1>9, ClimateUntouched
     DEF Selection, FlowSubmit, FlowEnds, FlowFails, OtherDialog, RemoveTracker
<1>10. ASSUME UNCHANGED vars PROVE ClimateInv'
  BY <1>10, ClimateUntouched DEF vars
<1> QED
  BY <1>1, <1>2, <1>3, <1>4, <1>5, <1>6, <1>7, <1>8, <1>9, <1>10 DEF Next, Setup, Climate

(* An option that is on has a switch that can switch it off, in the fields, *)
(* in the state restored and in every signal, however calls overlap, fail   *)
(* and are cut off by reloads.                                              *)
THEOREM OptionsAvailableHolds == Spec => []OptionsAvailable
<1>1. Init => ClimateInv
  BY DEF Init, ClimateInv, ClimateType, OptionsAvailable, Initially, NoCall, Fits, Field,
         Modes
<1>2. ClimateInv => OptionsAvailable
  BY DEF ClimateInv
<1> QED
  BY <1>1, <1>2, ClimateStep, PTL DEF Spec
=============================================================================
