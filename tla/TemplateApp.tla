---------------------------- MODULE TemplateApp ----------------------------
(***************************************************************************)
(* The touch button template (TouchButton / nrfconnect / src /             *)
(* app_task.cpp): the light switch before it controlled anything.  Init    *)
(* brings the parts of the program up one after the other; then one thread *)
(* takes events out of a bounded queue.  One button, held for six seconds, *)
(* resets the device.                                                      *)
(*                                                                         *)
(* Kernel, LED widget and CHIP stack are external, as in AppTask.          *)
(***************************************************************************)
EXTENDS Integers, Sequences

CONSTANTS
    QueueSize,     \* kAppEventQueueSize
    Network,       \* "thread", "wifi" or, where neither is configured, "none"
    InitFails,     \* can a step of Init return an error?
    ChipActivity   \* what the CHIP thread does meanwhile

ASSUME QueueAssumption == QueueSize \in Nat \ {0}
ASSUME NetworkAssumption == Network \in {"thread", "wifi", "none"} /\ InitFails \in BOOLEAN
ASSUME ActivityAssumption == ChipActivity \subseteq {"advertising", "network", "reboot"}

VARIABLES
    stage,            \* how far Init has come
    pressed,          \* the function button is down, as the button scan last saw it
    queue,            \* sAppEventQueue
    lost,             \* some k_msgq_put has failed (history)
    event,            \* what the application thread is working on
    timerRuns,        \* sFunctionTimer
    mFunction,
    resetScheduled,   \* ScheduleFactoryReset has been called
    sNetworkReady,    \* sIsNetworkProvisioned && sIsNetworkEnabled
    sHaveBLEConnections,
    statusLed,        \* what sStatusLED shows
    ledTimerRuns,     \* its mLedTimer
    resetLeds         \* sFactoryResetLEDs

appVars  == <<mFunction, resetScheduled>>
chipVars == <<sNetworkReady, sHaveBLEConnections>>
ledVars  == <<statusLed, ledTimerRuns, resetLeds>>
vars == <<stage, pressed, queue, lost, event, timerRuns, appVars, chipVars, ledVars>>
----------------------------------------------------------------------------
Stages == <<"memory", "stack", "network", "leds", "buttons", "timer", "server", "events">>
Running == Len(Stages) + 1
Failed  == 0

\* Init has come past the part s.
Up(s) == \E k \in DOMAIN Stages : Stages[k] = s /\ k < stage

Blinks  == {"100/100", "50/950"}
Pattern == {"off", "on"} \cup Blinks

Push       == [handler |-> "FunctionHandler", of |-> "ButtonPushed"]
Release    == [handler |-> "FunctionHandler", of |-> "ButtonReleased"]
Expired    == [handler |-> "FunctionTimerEventHandler", of |-> "none"]
UpdateLed  == [handler |-> "UpdateLedStateEventHandler", of |-> "none"]
AppEvent   == {Push, Release, Expired, UpdateLed}
ButtonEvent == {Push, Release}

\* What is left of the release handler once UpdateStatusLED has read the flags.
WriteStatusLed(pattern) == [handler |-> "WriteStatusLed", of |-> pattern]
NoEvent == [handler |-> "none", of |-> "none"]

\* Mutation: the queue takes what it has no room for.
PostEventUnbounded(e) == queue' = Append(queue, e) /\ UNCHANGED lost

\* k_msgq_put with K_NO_WAIT: what does not fit is dropped and logged.
PostEvent(e) ==
    /\ queue' = IF Len(queue) < QueueSize THEN Append(queue, e) ELSE queue
    /\ lost'  = (lost \/ Len(queue) >= QueueSize)

\* Mutation: Blink does not start the timer of the LED.
ShowWithoutTimer(pattern) ==
    /\ statusLed' = pattern
    /\ ledTimerRuns' = FALSE

Show(pattern) ==
    /\ statusLed' = pattern
    /\ ledTimerRuns' = (pattern \in Blinks)

StatusPattern(networkReady, haveBLE) ==
    IF networkReady THEN "on" ELSE IF haveBLE THEN "100/100" ELSE "50/950"

UpdateStatusLED(networkReady, haveBLE) == Show(StatusPattern(networkReady, haveBLE))
----------------------------------------------------------------------------
PowerUp ==
    /\ stage' = 1
    /\ queue' = <<>> /\ lost' = FALSE /\ event' = NoEvent
    /\ timerRuns' = FALSE
    /\ mFunction' = "NoneSelected" /\ resetScheduled' = FALSE
    /\ sNetworkReady' = FALSE /\ sHaveBLEConnections' = FALSE
    /\ statusLed' = "off" /\ ledTimerRuns' = FALSE /\ resetLeds' = FALSE

Init ==
    /\ stage = 1
    /\ pressed \in BOOLEAN
    /\ queue = <<>> /\ lost = FALSE /\ event = NoEvent
    /\ timerRuns = FALSE
    /\ mFunction = "NoneSelected" /\ resetScheduled = FALSE
    /\ sNetworkReady = FALSE /\ sHaveBLEConnections = FALSE
    /\ statusLed = "off" /\ ledTimerRuns = FALSE /\ resetLeds = FALSE

\* The next part of AppTask::Init succeeds.
InitPart ==
    /\ stage \in DOMAIN Stages
    /\ ~(Stages[stage] = "network" /\ Network = "none")
    /\ stage' = stage + 1
    /\ IF Stages[stage] = "leds"
       THEN UpdateStatusLED(sNetworkReady, sHaveBLEConnections) /\ UNCHANGED resetLeds
       ELSE UNCHANGED ledVars
    /\ UNCHANGED <<pressed, queue, lost, event, timerRuns, appVars, chipVars>>

\* It returns an error, and so does StartApp: nobody will take events out.
\* The LEDs and the timer cannot fail, nor can the network where it is Wi-Fi.
InitPartFails ==
    /\ stage \in DOMAIN Stages
    /\ Stages[stage] \notin {"leds", "timer"}
    /\ IF Stages[stage] = "network" THEN Network # "wifi" ELSE TRUE
    /\ InitFails \/ (Stages[stage] = "network" /\ Network = "none")
    /\ stage' = Failed
    /\ UNCHANGED <<pressed, queue, lost, event, timerRuns, appVars, chipVars, ledVars>>

\* The CHIP thread has carried out the factory reset and restarts the board.
Reboot ==
    /\ "reboot" \in ChipActivity
    /\ resetScheduled
    /\ PowerUp
    /\ UNCHANGED pressed
----------------------------------------------------------------------------
\* One button scan; it runs as soon as the buttons are initialised.
ButtonEventHandler ==
    /\ Up("buttons")
    /\ pressed' = ~pressed
    /\ PostEvent(IF pressed THEN Release ELSE Push)
    /\ UNCHANGED <<stage, event, timerRuns, appVars, chipVars, ledVars>>

FunctionTimerTimeoutCallback ==
    /\ timerRuns
    /\ timerRuns' = FALSE
    /\ PostEvent(Expired)
    /\ UNCHANGED <<stage, pressed, event, appVars, chipVars, ledVars>>

LEDStateUpdateHandler ==
    /\ ledTimerRuns
    /\ ledTimerRuns' = FALSE
    /\ PostEvent(UpdateLed)
    /\ UNCHANGED <<stage, pressed, event, timerRuns, appVars, chipVars, statusLed, resetLeds>>

\* ChipEventHandler: the CHIP thread runs once Init has started it.
ChipEventHandler(networkReady, haveBLE) ==
    /\ Up("events")
    /\ sNetworkReady' = networkReady
    /\ sHaveBLEConnections' = haveBLE
    /\ UpdateStatusLED(networkReady, haveBLE)
    /\ UNCHANGED <<stage, pressed, queue, lost, event, timerRuns, appVars, resetLeds>>

BLEAdvertisingChange ==
    /\ "advertising" \in ChipActivity
    /\ \E connected \in BOOLEAN : ChipEventHandler(sNetworkReady, connected)

NetworkStateChange ==
    /\ "network" \in ChipActivity
    /\ \E ready \in BOOLEAN : ChipEventHandler(ready, sHaveBLEConnections)
----------------------------------------------------------------------------
(* The application thread. *)
GetEvent ==
    /\ stage = Running
    /\ event = NoEvent
    /\ queue # <<>>
    /\ event' = Head(queue)
    /\ queue' = Tail(queue)
    /\ UNCHANGED <<stage, pressed, lost, timerRuns, appVars, chipVars, ledVars>>

Return == event' = NoEvent

\* Mutation: the timer is not started.
PushWithoutTimer ==
    /\ event = Push
    /\ mFunction' = "FactoryReset"
    /\ Return
    /\ UNCHANGED <<stage, pressed, queue, lost, timerRuns, resetScheduled, chipVars, ledVars>>

FunctionPushed ==
    /\ event = Push
    /\ timerRuns' = TRUE
    /\ mFunction' = "FactoryReset"
    /\ Return
    /\ UNCHANGED <<stage, pressed, queue, lost, resetScheduled, chipVars, ledVars>>

\* UpdateStatusLED reads the flags the CHIP thread owns; ...
FunctionReleased ==
    /\ event = Release
    /\ mFunction = "FactoryReset"
    /\ resetLeds' = FALSE
    /\ event' = WriteStatusLed(StatusPattern(sNetworkReady, sHaveBLEConnections))
    /\ UNCHANGED <<stage, pressed, queue, lost, timerRuns, appVars, chipVars,
                   statusLed, ledTimerRuns>>

FunctionReleasedIdle ==
    /\ event = Release
    /\ mFunction = "NoneSelected"
    /\ Return
    /\ UNCHANGED <<stage, pressed, queue, lost, timerRuns, appVars, chipVars, ledVars>>

\* Mutations: the release does not stop the timer, or leaves the mode.
ReleaseTimerRuns(pattern) ==
    /\ event = WriteStatusLed(pattern)
    /\ Show(pattern)
    /\ mFunction' = "NoneSelected"
    /\ Return
    /\ UNCHANGED <<stage, pressed, queue, lost, timerRuns, resetScheduled, chipVars,
                   resetLeds>>
ReleaseArmed(pattern) ==
    /\ event = WriteStatusLed(pattern)
    /\ Show(pattern)
    /\ timerRuns' = FALSE
    /\ Return
    /\ UNCHANGED <<stage, pressed, queue, lost, appVars, chipVars, resetLeds>>

\* ... it then writes what they asked for, and the release handler goes on.
StatusLedWritten(pattern) ==
    /\ event = WriteStatusLed(pattern)
    /\ Show(pattern)
    /\ timerRuns' = FALSE
    /\ mFunction' = "NoneSelected"
    /\ Return
    /\ UNCHANGED <<stage, pressed, queue, lost, resetScheduled, chipVars, resetLeds>>

\* Mutation: the mode is not tested.
FunctionTimerUntested ==
    /\ event = Expired
    /\ mFunction' = "NoneSelected"
    /\ resetScheduled' = TRUE
    /\ Show("on")
    /\ resetLeds' = TRUE
    /\ Return
    /\ UNCHANGED <<stage, pressed, queue, lost, timerRuns, chipVars>>

FunctionTimerEventHandler ==
    /\ event = Expired
    /\ Return
    /\ IF mFunction = "FactoryReset"
       THEN /\ mFunction' = "NoneSelected"
            /\ resetScheduled' = TRUE
            /\ Show("on")
            /\ resetLeds' = TRUE
       ELSE UNCHANGED <<appVars, ledVars>>
    /\ UNCHANGED <<stage, pressed, queue, lost, timerRuns, chipVars>>

UpdateLedStateEventHandler ==
    /\ event = UpdateLed
    /\ ledTimerRuns' = (ledTimerRuns \/ statusLed \in Blinks)
    /\ Return
    /\ UNCHANGED <<stage, pressed, queue, lost, timerRuns, appVars, chipVars,
                   statusLed, resetLeds>>

DispatchEvent ==
    \/ FunctionPushed \/ FunctionReleased \/ FunctionReleasedIdle
    \/ \E p \in Pattern : StatusLedWritten(p)
    \/ FunctionTimerEventHandler \/ UpdateLedStateEventHandler

StartApp == InitPart \/ GetEvent \/ DispatchEvent

Next ==
    \/ StartApp \/ InitPartFails
    \/ ButtonEventHandler \/ FunctionTimerTimeoutCallback \/ LEDStateUpdateHandler
    \/ BLEAdvertisingChange \/ NetworkStateChange \/ Reboot

Spec == Init /\ [][Next]_vars

\* The application thread runs and an armed timer expires.
FairSpec == Spec /\ WF_vars(StartApp) /\ WF_vars(FunctionTimerTimeoutCallback)
----------------------------------------------------------------------------
TypeOK ==
    /\ stage \in 0..Running
    /\ pressed \in BOOLEAN
    /\ queue \in Seq(AppEvent) /\ Len(queue) <= QueueSize
    /\ lost \in BOOLEAN
    /\ event \in AppEvent \cup { WriteStatusLed(p) : p \in Pattern } \cup {NoEvent}
    /\ timerRuns \in BOOLEAN
    /\ mFunction \in {"NoneSelected", "FactoryReset"} /\ resetScheduled \in BOOLEAN
    /\ sNetworkReady \in BOOLEAN /\ sHaveBLEConnections \in BOOLEAN
    /\ statusLed \in Pattern /\ ledTimerRuns \in BOOLEAN /\ resetLeds \in BOOLEAN

Pending(e) == event = e \/ \E i \in DOMAIN queue : queue[i] = e
----------------------------------------------------------------------------
\* The device is armed only while something is left that disarms it: the
\* timer, or its expiry, which is still to be handled (or an event was dropped).
ArmedHasTimer ==
    mFunction = "FactoryReset" => timerRuns \/ Pending(Expired) \/ lost

\* The six seconds run for a device that is armed.  Only a stale expiry, which
\* has then started the reset, leaves the timer of the next press running.
TimerOnlyWhileArmed == timerRuns => mFunction = "FactoryReset" \/ resetScheduled

\* Once the program runs, a blinking status LED goes on blinking: each half
\* period is either being timed or waits in the queue.
BlinkKeepsGoing ==
    statusLed \in Blinks => ledTimerRuns \/ Pending(UpdateLed) \/ lost

\* The handler of a release, at both of its steps.
Releasing == event = Release \/ \E p \in Pattern : event = WriteStatusLed(p)

\* e is the event of the button that the application thread will handle next.
NextButtonEvent(e) ==
    \/ IF e = Release THEN Releasing ELSE event = e
    \/ /\ event # Push /\ ~Releasing
       /\ \E i \in DOMAIN queue : /\ queue[i] = e
                                  /\ \A j \in 1..(i - 1) : queue[j] \notin ButtonEvent

\* The button as the handled events tell it: where its next event is a release
\* it is still down for the application.
Down == IF NextButtonEvent(Release) THEN TRUE
        ELSE IF NextButtonEvent(Push) THEN FALSE
        ELSE pressed

HoldState == IF resetScheduled THEN "resetting"
             ELSE IF mFunction = "FactoryReset" THEN "armed" ELSE "normal"

Hold == INSTANCE ResetButton WITH down <- Down, state <- HoldState, failed <- lost

\* Through the queue, its overflows, stale expiries and restarts, the function
\* button is a button that resets when it is held: a reset starts only while it is
\* down or its release has not been handled, and a handled release cancels it.
ImplementsResetButton == Hold!Safety

\* A device that is armed resets, unless the button is let go or an event was lost.
HeldButtonIsAnswered == Hold!HoldingIsAnswered
============================================================================
