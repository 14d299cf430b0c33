---------------------------- MODULE LightSwitch ----------------------------
(***************************************************************************)
(* The light switch as a whole: the application task (AppTask) and the     *)
(* commands to the bound lights (BindingHandler), in one program.          *)
(*                                                                         *)
(* The handlers of the application task call class LightSwitch, so that    *)
(* one step changes the state of both.  The CHIP thread ties them together *)
(* a second time: the bindings belong to a fabric and go when it goes.     *)
(***************************************************************************)
EXTENDS Integers, Sequences, FiniteSets

CONSTANTS
    NumberOfButtons, NumberOfLeds, QueueSize, StateLeds, DfuOverSmp,
    UserPins, ChipActivity,
    Device, Requests, ShellRequests, Faults, TableChanges,
    MaxData, WorkSize, MaxRequests, MaxRecoveries,
    MaxReleases   \* bound of the model: releases of the switch in one behaviour

ASSUME ReleaseAssumption == MaxReleases \in Nat
ASSUME ButtonsAskForAll == {"Toggle", "On", "Level"} \subseteq Requests

VARIABLES
    pressed, queue, lost, event, running, mFunction, sWasDimmerTriggered, request,
    resetScheduled, commissioned, advertising, sNetworkReady, sHaveBLEConnections,
    leds, ledTimers,
    heap, work, pending, inflight, table, sBrightness, mCaseSessionRecovered, crashed,
    requests, recoveries, applied,
    asked,    \* what the buttons asked for, request by request (history)
    releases  \* how often the switch was let go (history)

App     == INSTANCE AppTask
Binding == INSTANCE BindingHandler

appVars == <<pressed, queue, lost, event, running, mFunction, sWasDimmerTriggered, request,
             resetScheduled, commissioned, advertising, sNetworkReady,
             sHaveBLEConnections, leds, ledTimers>>
bindingVars == <<heap, work, pending, inflight, table, sBrightness, mCaseSessionRecovered,
                 crashed, requests, recoveries, applied>>
history == <<asked, releases>>
vars == <<appVars, bindingVars, history>>

ASSUME AppAssumption ==
    /\ App!BoardAssumption /\ App!QueueAssumption /\ App!ConfigAssumption
    /\ App!ActorAssumption
ASSUME BindingAssumption ==
    /\ Binding!DeviceAssumption /\ Binding!RequestAssumption
    /\ Binding!FaultAssumption /\ Binding!BoundAssumption
----------------------------------------------------------------------------
\* A device without a fabric has no bindings.
Init ==
    /\ App!Init
    /\ Binding!Init
    /\ ~commissioned => table = {}
    /\ asked = <<>> /\ releases = 0

\* The call of a handler into class LightSwitch, which drops the action where
\* the heap has no room.
Ask(action) ==
    IF ~Binding!HasRoom
    THEN UNCHANGED <<bindingVars, asked>>
    ELSE /\ IF action = "Level" THEN Binding!DimmerChangeBrightness
                                ELSE Binding!InitiateActionSwitch(action)
         /\ asked' = Append(asked, action)

SwitchReleased ==
    /\ App!SwitchReleased
    /\ IF sWasDimmerTriggered THEN UNCHANGED <<bindingVars, asked>> ELSE Ask("Toggle")
    /\ UNCHANGED releases

\* Mutation: dimming starts with the wrong command.
DimmingStartedToggles == App!DimmingStarted /\ Ask("Toggle") /\ UNCHANGED releases

DimmingStarted == App!DimmingStarted /\ Ask("On") /\ UNCHANGED releases
DimmerTick     == App!DimmerTick /\ Ask("Level") /\ UNCHANGED releases

\* The handlers that call nobody, and the other threads of the application.
Asking == {App!Release("Switch"), App!Expired("DimmerTrigger"), App!Expired("Dimmer")}

AppAlone ==
    /\ \/ App!GetEvent
       \/ event \notin Asking /\ App!DispatchEvent
       \/ App!SwitchReleasedStartsBLE
       \/ \E t \in App!Timer : App!FunctionTimerTimeoutCallback(t)
    /\ UNCHANGED <<bindingVars, history>>

ButtonEventHandler(changed) ==
    /\ App!ButtonEventHandler(changed)
    /\ releases' = releases + Cardinality({"Switch"} \cap changed \cap pressed)
    /\ releases' <= MaxReleases
    /\ UNCHANGED <<bindingVars, asked>>

\* The fabric comes, or goes with its bindings and what waits for them.
FabricChange ==
    /\ App!FabricChange
    /\ IF commissioned THEN Binding!BindingTableWritten({}) ELSE UNCHANGED bindingVars
    /\ UNCHANGED history

\* The CHIP thread and the devices do not touch the application task.
BindingAlone ==
    /\ \/ Binding!SwitchWorkerHandler
       \/ \E d \in Device : Binding!ConnectOutcome(d)
       \/ \E i \in inflight : Binding!InvokeOutcome(i) \/ Binding!DeviceApplies(i)
       \/ commissioned /\ \E t \in SUBSET (Device \cup {Binding!Group}) :
                             Binding!BindingTableWritten(t)
    /\ UNCHANGED <<appVars, history>>

Next ==
    /\ ~crashed
    /\ \/ SwitchReleased \/ DimmingStarted \/ DimmerTick \/ AppAlone
       \/ \E changed \in SUBSET UserPins : changed # {} /\ ButtonEventHandler(changed)
       \/ FabricChange
       \/ BindingAlone

Spec == Init /\ [][Next]_vars

FairSpec == /\ Spec
            /\ WF_vars(Binding!SwitchWorkerHandler /\ UNCHANGED <<appVars, history>>)
            /\ \A d \in Device :
                   WF_vars(Binding!ConnectOutcome(d) /\ UNCHANGED <<appVars, history>>)
----------------------------------------------------------------------------
\* Every request of a button is recorded, and only commissioned devices are bound.
TypeOK ==
    /\ App!TypeOK /\ Binding!TypeOK
    /\ asked \in Seq({"Toggle", "On", "Level"}) /\ Len(asked) = requests
    /\ releases \in 0..MaxReleases

\* The requests to toggle, and how often d carried one of them out.
Toggles    == { i \in 1..requests : asked[i] = "Toggle" }
Toggled(d) == Cardinality(Binding!CarriedOut(d, Toggles))

\* No light is toggled more often than the switch was let go: not by stale
\* expiries, by the dimmer, by recoveries or by a binding table that changes.
TogglesAreReleases == \A d \in Device : Toggled(d) <= releases

NoLeak == Binding!NoLeak
AppliedAtMostOnce == Binding!AppliedAtMostOnce
RecoveriesWithinRequests == Binding!RecoveriesWithinRequests
ContextsReleased == Binding!ContextsReleased
============================================================================
