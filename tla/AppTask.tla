------------------------------ MODULE AppTask ------------------------------
(***************************************************************************)
(* The application task of the Matter light switch (TouchButton /          *)
(* light_switch / src / app_task.cpp).  The button scan, the kernel        *)
(* timers, the LED timers and the CHIP thread only post events into a      *)
(* bounded message queue; one thread, StartApp, takes them out in order    *)
(* and runs their handlers.                                                *)
(*                                                                         *)
(* The kernel, the LED widget and the CHIP stack are external code: they   *)
(* appear as the actions and values this file sees of them.  Time is       *)
(* abstract: a running timer may expire at any moment.                     *)
(***************************************************************************)
EXTENDS Integers, Sequences

CONSTANTS
    NumberOfButtons,  \* NUMBER_OF_BUTTONS of the board: 2 or 4
    NumberOfLeds,     \* NUMBER_OF_LEDS of the board: 2 or 4
    QueueSize,        \* kAppEventQueueSize
    StateLeds,        \* CONFIG_STATE_LEDS
    DfuOverSmp,       \* CONFIG_MCUMGR_TRANSPORT_BT
    UserPins,         \* the buttons the user touches
    ChipActivity      \* what the CHIP thread does meanwhile

Activities == {"fabric", "advertising", "network", "identify", "reboot"}

\* The buttons by function.  On a two button board one button does both jobs
\* (BLE_ADVERTISEMENT_START_AND_SWITCH_BUTTON); it is called "Switch" here.
Pin == IF NumberOfButtons = 2 THEN {"Function", "Switch"}
                              ELSE {"Function", "Switch", "BLEStart"}

Led == IF NumberOfLeds = 4 THEN {"status", "identify", "reset"}
                           ELSE {"status", "identify"}

ASSUME BoardAssumption == NumberOfButtons \in {2, 4} /\ NumberOfLeds \in {2, 4}
ASSUME QueueAssumption == QueueSize \in Nat \ {0}
ASSUME ConfigAssumption == StateLeds \in BOOLEAN /\ DfuOverSmp \in BOOLEAN
ASSUME ActorAssumption == UserPins \subseteq Pin /\ ChipActivity \subseteq Activities

VARIABLES
    pressed,              \* the buttons that are down, as the button scan last saw them
    queue,                \* sAppEventQueue
    lost,                 \* some k_msgq_put has failed (history)
    event,                \* what the application thread is working on
    running,              \* which of sFunctionTimer, sDimmerPressKeyTimer, sDimmerTimer run
    mFunction,
    sWasDimmerTriggered,
    request,              \* what the handler that ran last asked of another component
    resetScheduled,       \* ScheduleFactoryReset has been called
    commissioned,         \* GetFabricTable().FabricCount() # 0
    advertising,          \* ConnectivityMgr().IsBLEAdvertisingEnabled()
    sNetworkReady,        \* sIsNetworkProvisioned && sIsNetworkEnabled
    sHaveBLEConnections,
    leds,                 \* what each LED shows
    ledTimers             \* the LED widgets whose mLedTimer runs

appVars  == <<mFunction, sWasDimmerTriggered, resetScheduled>>
chipVars == <<commissioned, advertising, sNetworkReady, sHaveBLEConnections>>
ledVars  == <<leds, ledTimers>>
vars == <<pressed, queue, lost, event, running, request, appVars, chipVars, ledVars>>
----------------------------------------------------------------------------
\* enum class FunctionEvent: two of the three names have the same value.
NoneSelected   == 0
SoftwareUpdate == 0
FactoryReset   == 1

Timer == {"Function", "DimmerTrigger", "Dimmer"}

Blinks  == {"500/500", "100/100", "50/950"}   \* on / off time in ms
Pattern == {"off", "on"} \cup Blinks

\* An AppEvent: its handler, and the member of the union the handler reads.
Push(p)     == [handler |-> "ButtonPushHandler", of |-> p]
Release(p)  == [handler |-> "ButtonReleaseHandler", of |-> p]
StartBLE    == [handler |-> "StartBLEAdvertisementHandler", of |-> "none"]
Expired(t)  == [handler |-> "TimerEventHandler", of |-> t]
UpdateLed(l) == [handler |-> "UpdateLedStateEventHandler", of |-> l]
IdentifyStart == [handler |-> "IdentifyStart", of |-> "none"]
IdentifyStop  == [handler |-> "IdentifyStop", of |-> "none"]

AppEvent == { Push(p) : p \in Pin } \cup { Release(p) : p \in Pin }
            \cup { Expired(t) : t \in Timer } \cup { UpdateLed(l) : l \in Led }
            \cup {StartBLE, IdentifyStart, IdentifyStop}

\* What is left of a handler that other threads can overtake: the call that
\* opens the commissioning window, and the write of the status LED.
OpenWindow == [handler |-> "OpenBasicCommissioningWindow", of |-> "none"]
WriteStatusLed(pattern) == [handler |-> "WriteStatusLed", of |-> pattern]
Continuation == {OpenWindow} \cup { WriteStatusLed(p) : p \in Pattern }

NoEvent == [handler |-> "none", of |-> "none"]

Request == {"none", "Toggle", "On", "Level", "StartServer",
            "OpenWindow", "ScheduleFactoryReset"}
----------------------------------------------------------------------------
\* Mutation: the queue takes what it has no room for.
EnqueueUnbounded(es) == queue \o es

\* k_msgq_put with K_NO_WAIT, once for each element of es: what does not fit
\* is dropped and logged.
Enqueue(es) == IF Len(queue) + Len(es) <= QueueSize
               THEN queue \o es
               ELSE SubSeq(queue \o es, 1, QueueSize)

PostEvents(es) ==
    /\ queue' = Enqueue(es)
    /\ lost'  = (lost \/ Len(queue) + Len(es) > QueueSize)

PostEvent(e) == PostEvents(<<e>>)

\* Mutation: Blink does not start the timer of the LED.
ShowWithoutTimer(patterns) ==
    /\ leds' = [l \in Led |-> IF l \in DOMAIN patterns THEN patterns[l] ELSE leds[l]]
    /\ ledTimers' = ledTimers \ DOMAIN patterns

\* The LED widget: Set stops its timer, Blink starts it.
Show(patterns) ==
    /\ leds' = [l \in Led |-> IF l \in DOMAIN patterns THEN patterns[l] ELSE leds[l]]
    /\ ledTimers' = (ledTimers \ DOMAIN patterns)
                    \cup { l \in DOMAIN patterns : patterns[l] \in Blinks }

StatusPattern(networkReady, haveBLE) ==
    IF networkReady THEN "on" ELSE IF haveBLE THEN "100/100" ELSE "50/950"

\* UpdateStatusLED() where no other thread comes between.
UpdateStatusLED(networkReady, haveBLE) ==
    IF StateLeds
    THEN Show([l \in Led \ {"identify"} |->
                  IF l = "status" THEN StatusPattern(networkReady, haveBLE) ELSE "off"])
    ELSE UNCHANGED ledVars

\* UpdateStatusLED() on the application thread: it reads the flags the CHIP
\* thread owns, and writes the status LED in a second step.
BeginUpdateStatusLED ==
    IF StateLeds
    THEN /\ Show([l \in Led \cap {"reset"} |-> "off"])
         /\ event' = WriteStatusLed(StatusPattern(sNetworkReady, sHaveBLEConnections))
    ELSE event' = NoEvent /\ UNCHANGED ledVars

\* Mutations: a case of the switch in StartTimer is missing; a break is missing
\* in CancelTimer, or a case.
StartTimerNotFunction(t) == running \cup ({t} \ {"Function"})
StartTimerNotTrigger(t)  == running \cup ({t} \ {"DimmerTrigger"})
CancelTimersFallingThrough(T) == running \ (T \cup {"Dimmer"})
CancelTimersNotFunction(T) == running \ (T \ {"Function"})
CancelTimersNotTrigger(T)  == running \ (T \ {"DimmerTrigger"})

StartTimer(t)   == running \cup {t}
CancelTimers(T) == running \ T
----------------------------------------------------------------------------
\* What AppTask::Init leaves on the LEDs when StartApp enters its loop.
BootLeds == [l \in Led |-> IF l = "status" /\ StateLeds THEN "50/950" ELSE "off"]
BootLedTimers == IF StateLeds THEN {"status"} ELSE {}

\* Power-up, with AppTask::Init done: where one of its parts fails, StartApp
\* returns and never takes a step of this module.  A button may be held; the
\* button scan does not report it.
Init ==
    /\ pressed \in SUBSET UserPins
    /\ queue = <<>> /\ lost = FALSE /\ event = NoEvent
    /\ running = {}
    /\ mFunction = NoneSelected /\ sWasDimmerTriggered = FALSE
    /\ request = "none" /\ resetScheduled = FALSE
    /\ commissioned \in BOOLEAN
    /\ advertising = FALSE /\ sNetworkReady = FALSE /\ sHaveBLEConnections = FALSE
    /\ leds = BootLeds /\ ledTimers = BootLedTimers

\* The CHIP thread has carried out the factory reset and restarts the board.
Reboot ==
    /\ "reboot" \in ChipActivity
    /\ resetScheduled
    /\ queue' = <<>> /\ lost' = FALSE /\ event' = NoEvent
    /\ running' = {}
    /\ mFunction' = NoneSelected /\ sWasDimmerTriggered' = FALSE
    /\ request' = "none" /\ resetScheduled' = FALSE
    /\ commissioned' = FALSE
    /\ advertising' = FALSE /\ sNetworkReady' = FALSE /\ sHaveBLEConnections' = FALSE
    /\ leds' = BootLeds /\ ledTimers' = BootLedTimers
    /\ UNCHANGED pressed
----------------------------------------------------------------------------
\* Mutation: the two branches for a button are swapped.
ScanInverted(p, changed) ==
    IF p \notin changed THEN <<>>
    ELSE IF p \in pressed THEN <<Push(p)>> ELSE <<Release(p)>>

\* What one button scan posts for button p, and for the third button.
Scan(p, changed) ==
    IF p \notin changed THEN <<>>
    ELSE IF p \in pressed THEN <<Release(p)>> ELSE <<Push(p)>>

ScanBLEStart(changed) ==
    IF NumberOfButtons = 4 /\ "BLEStart" \in changed \ pressed THEN <<StartBLE>> ELSE <<>>

\* One button scan: the buttons in changed have changed.
ButtonEventHandler(changed) ==
    /\ pressed' = (pressed \ changed) \cup (changed \ pressed)
    /\ PostEvents(Scan("Function", changed) \o Scan("Switch", changed)
                  \o ScanBLEStart(changed))
    /\ UNCHANGED <<event, running, request, appVars, chipVars, ledVars>>

\* A kernel timer expires; only sDimmerTimer is periodic.
FunctionTimerTimeoutCallback(t) ==
    /\ t \in running
    /\ running' = running \ ({t} \ {"Dimmer"})
    /\ PostEvent(Expired(t))
    /\ UNCHANGED <<pressed, event, request, appVars, chipVars, ledVars>>

\* The timer of a LED widget expires; UpdateState will start it again.
LEDStateUpdateHandler(l) ==
    /\ l \in ledTimers
    /\ ledTimers' = ledTimers \ {l}
    /\ PostEvent(UpdateLed(l))
    /\ UNCHANGED <<pressed, event, running, request, appVars, chipVars, leds>>

IdentifyHandler(e) ==
    /\ "identify" \in ChipActivity
    /\ PostEvent(e)
    /\ UNCHANGED <<pressed, event, running, request, appVars, chipVars, ledVars>>

\* kCHIPoBLEAdvertisingChange.  UpdateStatusLED runs before and after the
\* connections are counted; the second call writes the same LEDs on the same
\* thread and leaves nothing of the first, so that one step stands for both.
BLEAdvertisingChange(connected) ==
    /\ "advertising" \in ChipActivity
    /\ advertising' \in BOOLEAN
    /\ sHaveBLEConnections' = connected
    /\ UpdateStatusLED(sNetworkReady, connected)
    /\ UNCHANGED <<pressed, queue, lost, event, running, request, appVars,
                   commissioned, sNetworkReady>>

\* kThreadStateChange or kWiFiConnectivityChange.
NetworkStateChange(ready) ==
    /\ "network" \in ChipActivity
    /\ sNetworkReady' = ready
    /\ UpdateStatusLED(ready, sHaveBLEConnections)
    /\ UNCHANGED <<pressed, queue, lost, event, running, request, appVars,
                   commissioned, advertising, sHaveBLEConnections>>

\* The CHIP thread adds the first fabric or removes the last one.
FabricChange ==
    /\ "fabric" \in ChipActivity
    /\ commissioned' = ~commissioned
    /\ UNCHANGED <<pressed, queue, lost, event, running, request, appVars,
                   advertising, sNetworkReady, sHaveBLEConnections, ledVars>>
----------------------------------------------------------------------------
(* The application thread. *)

\* k_msgq_get
GetEvent ==
    /\ event = NoEvent
    /\ queue # <<>>
    /\ event' = Head(queue)
    /\ queue' = Tail(queue)
    /\ request' = "none"
    /\ UNCHANGED <<pressed, lost, running, appVars, chipVars, ledVars>>

\* A handler returns to the loop of StartApp.
Return == event' = NoEvent

FunctionPushed ==
    /\ event = Push("Function")
    /\ running' = StartTimer("Function")
    /\ mFunction' = SoftwareUpdate
    /\ Return
    /\ UNCHANGED <<pressed, queue, lost, request, sWasDimmerTriggered, resetScheduled,
                   chipVars, ledVars>>

\* On a two button board the switch does not dim while the device waits to be commissioned.
ButtonStartsBLE == NumberOfButtons = 2 /\ ~advertising /\ ~commissioned

SwitchPushed ==
    /\ event = Push("Switch")
    /\ running' = IF ButtonStartsBLE THEN running ELSE StartTimer("DimmerTrigger")
    /\ Return
    /\ UNCHANGED <<pressed, queue, lost, request, appVars, chipVars, ledVars>>

\* Mutation: the timer is stopped, but mFunction stays as it was.
EndOfTimer == running' = CancelTimers({"Function"}) /\ UNCHANGED mFunction

EndOfFunction == running' = CancelTimers({"Function"}) /\ mFunction' = NoneSelected

FunctionReleased ==
    /\ event = Release("Function")
    /\ mFunction = SoftwareUpdate
    /\ EndOfFunction
    /\ request' = IF DfuOverSmp THEN "StartServer" ELSE request
    /\ IF DfuOverSmp THEN BeginUpdateStatusLED ELSE Return /\ UNCHANGED ledVars
    /\ UNCHANGED <<pressed, queue, lost, sWasDimmerTriggered, resetScheduled, chipVars>>

\* Cancelling the factory reset: the LEDs come first, the timer and the mode
\* after them, in StatusLedWritten where the board has state LEDs.
FunctionReleasedInReset ==
    /\ event = Release("Function")
    /\ mFunction = FactoryReset
    /\ BeginUpdateStatusLED
    /\ IF StateLeds THEN UNCHANGED <<running, mFunction>> ELSE EndOfFunction
    /\ UNCHANGED <<pressed, queue, lost, request, sWasDimmerTriggered, resetScheduled,
                   chipVars>>

\* Mutation: the timers of the dimmer are stopped, but its flag is not reset.
SwitchReleasedStopsTimers ==
    /\ event = Release("Switch")
    /\ ButtonStartsBLE
    /\ running' = CancelTimers({"Dimmer", "DimmerTrigger"})
    /\ PostEvent(StartBLE)
    /\ Return
    /\ UNCHANGED <<pressed, request, appVars, chipVars, ledVars>>

SwitchReleasedStartsBLE ==
    /\ event = Release("Switch")
    /\ ButtonStartsBLE
    /\ PostEvent(StartBLE)
    /\ Return
    /\ UNCHANGED <<pressed, running, request, appVars, chipVars, ledVars>>

SwitchReleased ==
    /\ event = Release("Switch")
    /\ ~ButtonStartsBLE
    /\ request' = IF sWasDimmerTriggered THEN request ELSE "Toggle"
    /\ running' = CancelTimers({"Dimmer", "DimmerTrigger"})
    /\ sWasDimmerTriggered' = FALSE
    /\ Return
    /\ UNCHANGED <<pressed, queue, lost, mFunction, resetScheduled, chipVars, ledVars>>

\* Timer::Function expired the first time: the cancel window opens.
FactoryResetTriggered ==
    /\ event = Expired("Function")
    /\ mFunction = SoftwareUpdate
    /\ running' = StartTimer("Function")
    /\ mFunction' = FactoryReset
    /\ IF StateLeds THEN Show([l \in Led |-> "500/500"]) ELSE UNCHANGED ledVars
    /\ Return
    /\ UNCHANGED <<pressed, queue, lost, request, sWasDimmerTriggered, resetScheduled,
                   chipVars>>

\* Timer::Function expired again: the window is over.
FactoryResetDone ==
    /\ event = Expired("Function")
    /\ mFunction = FactoryReset
    /\ mFunction' = NoneSelected
    /\ resetScheduled' = TRUE
    /\ request' = "ScheduleFactoryReset"
    /\ Return
    /\ UNCHANGED <<pressed, queue, lost, running, sWasDimmerTriggered, chipVars, ledVars>>

DimmingStarted ==
    /\ event = Expired("DimmerTrigger")
    /\ sWasDimmerTriggered' = TRUE
    /\ request' = "On"
    /\ running' = (running \cup {"Dimmer"}) \ {"DimmerTrigger"}
    /\ Return
    /\ UNCHANGED <<pressed, queue, lost, mFunction, resetScheduled, chipVars, ledVars>>

DimmerTick ==
    /\ event = Expired("Dimmer")
    /\ request' = "Level"
    /\ Return
    /\ UNCHANGED <<pressed, queue, lost, running, appVars, chipVars, ledVars>>

\* LEDWidget::UpdateState does nothing to an LED that is steady by now.
UpdateLedStateEventHandler(l) ==
    /\ event = UpdateLed(l)
    /\ ledTimers' = IF leds[l] \in Blinks THEN ledTimers \cup {l} ELSE ledTimers
    /\ Return
    /\ UNCHANGED <<pressed, queue, lost, running, request, appVars, chipVars, leds>>

IdentifyStarted ==
    /\ event = IdentifyStart
    /\ Show([l \in {"identify"} |-> "500/500"])
    /\ Return
    /\ UNCHANGED <<pressed, queue, lost, running, request, appVars, chipVars>>

IdentifyStopped ==
    /\ event = IdentifyStop
    /\ Show([l \in {"identify"} |-> "off"])
    /\ Return
    /\ UNCHANGED <<pressed, queue, lost, running, request, appVars, chipVars>>

\* Mutation: the test of the advertising state is inverted.
StartBLEUnlessIdle ==
    /\ event = StartBLE
    /\ event' = IF commissioned \/ ~advertising THEN NoEvent ELSE OpenWindow
    /\ UNCHANGED <<pressed, queue, lost, running, request, appVars, chipVars, ledVars>>

StartBLEAdvertisementHandler ==
    /\ event = StartBLE
    /\ event' = IF commissioned \/ advertising THEN NoEvent ELSE OpenWindow
    /\ UNCHANGED <<pressed, queue, lost, running, request, appVars, chipVars, ledVars>>

\* OpenBasicCommissioningWindow, called without the lock of the CHIP stack.
OpenBasicCommissioningWindow ==
    /\ event = OpenWindow
    /\ request' = "OpenWindow"
    /\ Return
    /\ UNCHANGED <<pressed, queue, lost, running, appVars, chipVars, ledVars>>

\* The rest of UpdateStatusLED and of the release handler: the mode is still
\* FactoryReset here only where that handler is cancelling it.
StatusLedWritten(pattern) ==
    /\ event = WriteStatusLed(pattern)
    /\ Show([l \in {"status"} |-> pattern])
    /\ IF mFunction = FactoryReset THEN EndOfFunction ELSE UNCHANGED <<running, mFunction>>
    /\ Return
    /\ UNCHANGED <<pressed, queue, lost, request, sWasDimmerTriggered, resetScheduled,
                   chipVars>>

DispatchEvent ==
    \/ FunctionPushed \/ SwitchPushed
    \/ FunctionReleased \/ FunctionReleasedInReset
    \/ SwitchReleasedStartsBLE \/ SwitchReleased
    \/ FactoryResetTriggered \/ FactoryResetDone \/ DimmingStarted \/ DimmerTick
    \/ \E l \in Led : UpdateLedStateEventHandler(l)
    \/ IdentifyStarted \/ IdentifyStopped
    \/ StartBLEAdvertisementHandler \/ OpenBasicCommissioningWindow
    \/ \E p \in Pattern : StatusLedWritten(p)

StartApp == GetEvent \/ DispatchEvent

ChipThread ==
    \/ IdentifyHandler(IdentifyStart) \/ IdentifyHandler(IdentifyStop)
    \/ \E c \in BOOLEAN : BLEAdvertisingChange(c)
    \/ \E r \in BOOLEAN : NetworkStateChange(r)
    \/ FabricChange
    \/ Reboot

Next ==
    \/ \E changed \in SUBSET UserPins : changed # {} /\ ButtonEventHandler(changed)
    \/ \E t \in Timer : FunctionTimerTimeoutCallback(t)
    \/ \E l \in Led : LEDStateUpdateHandler(l)
    \/ ChipThread
    \/ StartApp

Spec == Init /\ [][Next]_vars

\* The application thread runs and an armed kernel timer expires; nothing is
\* promised of the user, of the LED timers or of the CHIP thread.
FairSpec == /\ Spec
            /\ WF_vars(StartApp)
            /\ \A t \in Timer : WF_vars(FunctionTimerTimeoutCallback(t))
----------------------------------------------------------------------------
TypeOK ==
    /\ pressed \subseteq Pin
    /\ queue \in Seq(AppEvent) /\ Len(queue) <= QueueSize
    /\ lost \in BOOLEAN
    /\ event \in AppEvent \cup Continuation \cup {NoEvent}
    /\ running \subseteq Timer
    /\ mFunction \in {NoneSelected, SoftwareUpdate, FactoryReset}
    /\ sWasDimmerTriggered \in BOOLEAN
    /\ request \in Request /\ resetScheduled \in BOOLEAN
    /\ commissioned \in BOOLEAN /\ advertising \in BOOLEAN
    /\ sNetworkReady \in BOOLEAN /\ sHaveBLEConnections \in BOOLEAN
    /\ leds \in [Led -> Pattern] /\ ledTimers \subseteq Led
----------------------------------------------------------------------------
Pending(e) == event = e \/ \E i \in DOMAIN queue : queue[i] = e

\* The periodic dimmer timer runs exactly while sWasDimmerTriggered says that
\* it does, whatever stale expiries, releases and fabric changes come between:
\* the next release neither toggles a light being dimmed nor forgets the timer.
DimmerFlagMatchesTimer == sWasDimmerTriggered <=> "Dimmer" \in running

\* Once the cancel window is open it can only be left by a timer expiry that is
\* still to come: unless the queue overflowed, the task never sits in
\* FactoryReset with nothing left that would end it.
FactoryResetIsArmed ==
    mFunction = FactoryReset => "Function" \in running \/ Pending(Expired("Function")) \/ lost

\* Every press on its way to the application thread is followed by its release,
\* or the button is still down: what makes the two properties below inductive.
PushIsFollowed ==
    \A p \in {"Function", "Switch"} :
        \/ lost
        \/ /\ event = Push(p)
                => p \in pressed \/ \E j \in DOMAIN queue : queue[j] = Release(p)
           /\ \A i \in DOMAIN queue : queue[i] = Push(p)
                => p \in pressed \/ \E j \in DOMAIN queue : j > i /\ queue[j] = Release(p)

\* While the three seconds to the cancel window run, the function button is
\* down or its release is on the way to the application thread, which stops them,
\* or a reset is already under way.
FunctionTimerFollowsButton ==
    mFunction = SoftwareUpdate /\ "Function" \in running
        => "Function" \in pressed \/ Pending(Release("Function")) \/ resetScheduled \/ lost

\* The same for the half second after which a held switch starts dimming
\* (on the boards whose switch has no second job).
SwitchTriggerFollowsButton ==
    NumberOfButtons = 4 /\ "DimmerTrigger" \in running
        => "Switch" \in pressed \/ Pending(Release("Switch")) \/ lost

\* A blinking LED goes on blinking: each half period is either being timed or
\* waits in the queue, across Set, Blink and stale updates of the same LED.
BlinkKeepsGoing ==
    \A l \in Led : leds[l] \in Blinks => l \in ledTimers \/ Pending(UpdateLed(l)) \/ lost

\* A cancel window that has opened is closed, by the reset or by a release.
FactoryResetResolves == mFunction = FactoryReset ~> (mFunction # FactoryReset \/ lost)

\* A function button that stays down after its press was taken up ends in a factory reset.
HoldingResets ==
    event = Push("Function") ~> (resetScheduled \/ "Function" \notin pressed \/ lost)

\* A switch that stays down after its press was taken up starts dimming, and
\* the light is then sent a level, unless the button has its other job meanwhile.
HoldingDims ==
    event = Push("Switch")
        ~> (request = "Level" \/ "Switch" \notin pressed \/ ButtonStartsBLE \/ lost)

\* On a two button board, releasing the button of a device that waits to be
\* commissioned opens the commissioning window: the event that the release
\* handler posts to its own queue is taken up in turn.
ReleaseOpensWindow ==
    event = Release("Switch") /\ ButtonStartsBLE
        ~> (request = "OpenWindow" \/ commissioned \/ advertising \/ lost)
----------------------------------------------------------------------------
(* What the sample's documentation and messages say and the code does not do. *)

\* "Release button within %u ms to cancel" (app_task.cpp:322): no reset is
\* scheduled after the button went up and its release was handled.
ReleaseCancelsReset ==
    [][resetScheduled' /\ ~resetScheduled
          => "Function" \in pressed \/ Pending(Release("Function")) \/ lost]_vars

\* The brightness changes "as long as Button 2 is pressed" (README.rst:165).
DimsOnlyWhilePressed ==
    "Dimmer" \in running => "Switch" \in pressed \/ Pending(Release("Switch")) \/ lost
============================================================================
