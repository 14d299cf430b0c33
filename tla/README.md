# Verification of the energy and smart home utilities

This directory holds TLA+ specifications of the programs in this repository,
the TLC configurations that check them, and proofs that TLAPS checks.  The
specifications are written from the source; where they simplify it, this
document says so.

Short names used below for the directories of the repository:

| name | directory |
|---|---|
| LS  | `src/Gizmos/Matter/TouchButton/light_switch/src` |
| TP  | `src/Gizmos/Matter/TouchButton/nrfconnect/src` |
| ESP | `src/Matter/under-counter-switch/esp-matter/main` |
| UI  | `src/UI` |

## 1. The system

| part | source | state | operations | module |
|---|---|---|---|---|
| application task of the light switch | LS `app_task.cpp`, `app_event.h`, `app_config.h` | event queue, three kernel timers, `mFunction`, `sWasDimmerTriggered`, network and BLE flags, LEDs | button scan, timer and LED call-backs, one handler per event, CHIP events | `AppTask` |
| commands to bound lights | LS `light_switch.cpp`, `binding_handler.cpp` | `BindingData` objects, scheduled work, commands under way, `sBrightness`, `mCaseSessionRecovered` | toggle / on / level requests, the worker, the changed handler, success, failure, recovery, release | `BindingHandler` |
| shell commands | LS `shell_commands.cpp` | none | six handlers that send a command to a device or the group | `BindingHandler` |
| the light switch as a whole | the files above | the state of both, and the fabric that owns the bindings | handlers that call class `LightSwitch`; the last fabric goes | `LightSwitch` |
| touch button template | TP `app_task.cpp`, `app_event.h` | progress of `Init`, queue, one timer, `mFunction`, flags, LEDs | the parts of `Init`, button, timer, LED and CHIP handlers | `TemplateApp`, abstract: `ResetButton` |
| under-counter switch | ESP `app_driver.cpp`, `app_main.cpp` | progress of `app_main`, configured endpoints, scheduled lambdas, position, fabrics, window | press call-back, lambda, fabric event | `GenericSwitch` |
| generated command dispatch | LS and TP `zap-generated/IMClusterCommandHandler.cpp`, `endpoint_config.h` | none but the command being served | the switch on the cluster, the switch on the command, the accepted command lists | `CommandDispatch` |
| usage export | `src/myenergi/fetch.py` | totals, sums of the day, rows | one step per hourly record, the row after the loop | `UsageExport` |
| power flow display | UI `Inverter/standard.html`, `henley.html` | PV, battery, charger and grid power | `calculatePowerFlow` on an interval, the switches | not modelled |
| heating layout | UI `HeatingLayout` | two valves, flowing pipes | two toggles | not modelled |
| ESPHome and solar gain sensor | `src/ESPHome`, `src/Projects` | none | declarative YAML | not modelled |
| access lists, stubs, build files | other files of `zap-generated`, `*.zap`, Kconfig | none | constant tables | not modelled |

The first four parts are the light switch, the largest program of the
repository, and the one that runs on several threads:

* the **button scan** (`ButtonEventHandler`), the **kernel timers**
  (`FunctionTimerTimeoutCallback`) and the **LED timers**
  (`LEDStateUpdateHandler`) only post events into a message queue of ten places;
  what does not fit is dropped and logged;
* the **application thread** (`StartApp`) takes the events out in order and runs
  their handlers; a handler starts and stops timers, sets LEDs, may post to its
  own queue, and asks `LightSwitch` for a command;
* the **CHIP thread** runs the Matter stack: it posts Identify events, updates
  the status LED directly (`ChipEventHandler`), adds and removes fabrics, runs
  the work that `LightSwitch` and the shell schedule, opens sessions and calls
  back with the answers;
* the **shell thread** allocates and schedules as the application thread does.

What is hard about it, and what the properties are aimed at:

1. *Stale events.* Stopping a timer does not remove an expiry that is already
   queued; `NoneSelected` and `SoftwareUpdate` are the same value.
2. *A bounded queue.* A dropped release or LED update leaves a timer running or a LED frozen.
3. *State owned by another thread.* `UpdateStatusLED`, the fabric count, the
   advertising state and the binding table are used without the lock of the stack.
4. *One object for many call-backs.* A context waits for every bound device; it
   must be freed after the last one, once, whatever fails in between.
5. *Retries.* A recovery sends a command to every bound device, whether it was
   applied or not, and a single flag guards the recovery of all devices.
6. *Two owners.* The bindings belong to the fabric: they go when it goes, while
   requests of the buttons are scheduled, waiting or being recovered.
7. *Bring-up.* In the template and in the under-counter switch, buttons, timers
   and LEDs are live before the program that serves them runs, and `Init` or
   `app_main` may stop half way.
8. *A count read late.* The under-counter switch reads the number of fabrics when
   the event of a removal is handled, not when the fabric was removed.
9. *Two generated files* that must agree: a command is let through by one and
   served by the other.

`PROJECT.json` lists the hazards of 1 to 5, 7 and 8 line by line, with the properties
that cover them, and says of those without a property why there is none.  The sixth
rests with the SDK, which empties the table, and the ninth is settled once the two
files are generated: they are modelled, but no line of the code is exposed to them.

## 2. `AppTask`

| variable | code |
|---|---|
| `queue`, `lost` | `sAppEventQueue`; whether `k_msgq_put` has ever failed (history) |
| `event` | the event `StartApp` holds, or what is left of its handler |
| `running` | `sFunctionTimer`, `sDimmerPressKeyTimer`, `sDimmerTimer` |
| `mFunction`, `sWasDimmerTriggered` | the same names |
| `pressed` | the button state the last scan reported |
| `request` | the last call to another component: toggle, on, level, DFU server, commissioning window, factory reset |
| `resetScheduled` | `ScheduleFactoryReset` was called |
| `commissioned`, `advertising`, `sNetworkReady`, `sHaveBLEConnections` | what the CHIP thread owns and the application thread reads |
| `leds`, `ledTimers` | what each LED shows; the LED widgets whose timer runs |

Each handler is one action (`FunctionPushed`, `SwitchReleased`,
`FactoryResetTriggered`, ...), guarded by the event it serves and by the
conditions of the code.  `GetEvent` is `k_msgq_get`.  The button scan is one
action for any set of buttons that changed, because `ButtonEventHandler` posts
all of their events in one call.  `Init` is what is left when `AppTask::Init` has
succeeded: LEDs, buttons and timers.  Where a part of it fails, `StartApp` returns
and takes no event: in the model, a behaviour in which it never steps, and
safety speaks of that too.

*Atomicity.* A handler is one step, except where it calls into or reads from
state that another thread changes: `StartBLEAdvertisementHandler` tests the
fabric count and calls `OpenBasicCommissioningWindow` in a second step, and
`UpdateStatusLED` reads the network flags and writes the status LED in a second
step when it runs on the application thread.  Cancelling a factory reset
updates the LEDs before it stops the timer and leaves the mode, and so does the
model (`FunctionReleasedInReset`, `StatusLedWritten`).  On the CHIP thread, the two
updates of one BLE event are a single step: the second overwrites the first
before the next event.  For the remaining handlers a finer
grain shows nothing new: timers call back in interrupt context and only append
to the queue, whose order against the rest of one handler does not matter to the
handler.

*Time* is abstract: a running timer may expire at any moment after it was
started.  This over-approximates the 3 s, 500 ms and 300 ms of the code, so a
safety property that holds here holds for these times too.  For the properties
that fail, section 10 says why the behaviour fits the real times.

*Boards.* `NumberOfButtons` and `NumberOfLeds` select the variants of
`app_config.h`.  With two buttons the switch also starts commissioning.
`Led` has no fourth member because the code uses three.

*Reboot.* `ScheduleFactoryReset` returns at once; until the CHIP thread restarts
the board, the handlers go on.  `Reboot` puts everything back as `Init` does,
while the buttons keep their position.

*Left out:* NFC, OTA and the server set-up of `Init` (no state of this file),
and the effect of the DFU server.  Values of power-up that `Init` sets and
nothing reads are not variables.

## 3. `BindingHandler`

| variable | code |
|---|---|
| `heap` | the `BindingData` objects: slots, of which `Free` ones can be allocated |
| `work` | the calls `PlatformMgr().ScheduleWork` has queued |
| `pending` | the pairs of context and device for which `BindingManager` waits for a session |
| `inflight` | commands sent and not yet answered, with a copy of the data; `done` says that the device has applied it |
| `table` | the binding table: bound devices, and perhaps the group |
| `sBrightness`, `mCaseSessionRecovered` | the same names |
| `crashed` | a failed allocation was dereferenced |
| `requests`, `recoveries`, `applied` | history for the properties |

`BindingManager`, sessions, invokes and the devices belong to the SDK, which is
not in the repository.  They are modelled from how LS uses them and marked
external in `PROJECT.json`: a notification reaches the multicast binding at
once, a unicast one after its device is connected, and the release handler is
called when no device is left to wait for.

The faults are chosen by `Faults`: a request or a response lost
(`InvokeTimedOut`), another error (`InvokeFailed`), no session
(`ConnectionFailed`), `InvokeCommandRequest` or `NotifyBoundClusterChanged`
returning an error, memory or work queue exhausted, and the table
being rewritten meanwhile (`TableChanges`).  The id and the attempt in a
`BindingData` are history variables; the code does not have them.  The cluster
and endpoint follow from the command and are left out.

## 4. `LightSwitch`: the whole program

`LightSwitch` puts `AppTask` and `BindingHandler` into one state space.  The
handlers that call class `LightSwitch` (`SwitchReleased`, `DimmingStarted`,
`DimmerTick`) are joint steps: the handler of `AppTask` and, where the heap has
room, the request of `BindingHandler` (`Ask`).  A second tie is the fabric: when
the last one goes, the SDK removes the bindings and what waits for them
(`FabricChange`, external: an assumption, not a result), and only a commissioned
device has bindings.  `asked` and
`releases` are history.

Each property here needs both halves.  `TogglesAreReleases` says that no light is
toggled more often than the switch was let go: stale expiries, the dimmer,
recoveries and changing tables are all in between.  It counts the pairs of a request
and a time it was carried out (`CarriedOut`).  `RecoveriesWithinRequests` says that there
are no more recoveries than requests while the buttons, the table and the answers
interleave; it is about the total, and section 10 says what one request may see.

To keep the product of the two small, the composition leaves out the shell and
the reboot, the LED timers and the BLE and network events; they are checked with
the half they belong to, and none of them touches the state of the other half.

## 5. The touch button template: `TemplateApp` and `ResetButton`

The template is the older form of the application task, with one button and one
timer of six seconds.  `stage` follows `AppTask::Init` part by part; every part
that can return an error may fail (`InitPartFails`), and `StartApp` then returns,
while the button scan, the timer and the LEDs, as far as they were set up, go on
posting into a queue nobody reads.  `UpdateStatusLED` runs between the test of
`mFunction` and `CancelTimer`, and reads flags the CHIP thread owns, so the
release handler takes two steps (`FunctionReleased`, `StatusLedWritten`).

`ResetButton` says what such a button promises, without queue, timer and
threads: a reset starts only while the button is down, a release cancels it, and a
button that stays down is answered.  `TemplateApp` implements it under the
mapping

* `down`: what the application has been told of the button.  Where the next button
  event still to be handled is a release, the button is down; where it is a press,
  it is up; where none is left, it is what the scan last saw (`Down`);
* `state`: `"resetting"` once `ScheduleFactoryReset` was called, `"armed"` in
  mode `FactoryReset`, else `"normal"` (`HoldState`);
* `failed`: an event was dropped (`lost`).

`ImplementsResetButton` is the safety of `ResetButton` under this mapping,
`HeldButtonIsAnswered` its liveness.  Time is abstract here too, so the mapping
does not tell six seconds from none: see section 10.

The light switch itself does not implement `ResetButton`: there, a release does not
always cancel (run `AppTaskReleaseRace`).  The template tests the mode in
`FunctionTimerEventHandler`, and its `NoneSelected` is a value of its own.

## 6. `GenericSwitch`: the under-counter switch

Three threads: `app_main` goes through its parts in the order of the source
(`Stages`); the button task runs the press call-back as soon as the driver is up;
the Matter thread runs the lambdas and events of its queue.  A lambda keeps the
endpoint it captured, which is unknown until `app_main` has entered the button in
`button_list`.  The SDK is external: `ScheduleLambda`, whose result the code ignores,
drops a press before Matter is up or when the queue is full; a fabric may be
removed at any time, and the event of it is queued, or lost when the queue is full
(`dropped` says so of the last fabric); administrators open windows, and
windows expire.  A window that could not be opened (`OpenFails`), or that expired on a
device without fabrics, has its own value, because nothing opens another one then.  The supply may
fail at any moment (`PowerCycle`); only the fabrics are kept.

Four of the five call-backs of `app_driver.cpp` are not registered and never run;
they, and the count of presses only they use, are left out.

## 7. `CommandDispatch` and `UsageExport`

`CommandDispatch` follows one command from the engine, which asks the accepted
command lists of `endpoint_config.h`, through the switch on the cluster, the switch
on the command and the decoding of the fields, to the call-back and its answer.  The
lists and the cases are written out, cluster by cluster, for both programs: that
they agree is what is checked.  All paths over the clusters, commands and endpoints of
both programs are sent, the ones that do not exist included.  `Besides` puts the parts
of a switch together.

`UsageExport` is the loop of `fetch.py` over the records of one device.  Readings
stay in the unit of the service; the request to the service and the CSV file
are left out.

## 8. Runs

| run | bounds | shows |
|---|---|---|
| `AppTaskButtons` | 4-button board, 2 buttons pressed by the user, queue 3, reboot | `TypeOK`, `DimmerFlagMatchesTimer`, `FactoryResetIsArmed`, `PushIsFollowed`, `FunctionTimerFollowsButton`, `SwitchTriggerFollowsButton` |
| `AppTaskTwoButtons` | 2-button board, the switch, fabric and advertising changes, queue 3, fair | `DimmerFlagMatchesTimer`, `HoldingDims`, `ReleaseOpensWindow` |
| `AppTaskLeds` | network and Identify events, function button, queue 2, fair | `BlinkKeepsGoing`, `FactoryResetResolves`, `HoldingResets` |
| `LightSwitch` | one light, 2-button board, fabric comes and goes, 2 requests, 2 recoveries, 1 release, lost requests, failed connections and commands, fair | `TypeOK`, `TogglesAreReleases`, `NoLeak`, `AppliedAtMostOnce`, `RecoveriesWithinRequests`, `ContextsReleased` |
| `BindingTwoDevices` | 2 devices and a group, changing table, buttons and shell, lost requests, failed connections, errors of `BindingManager`, a work queue shorter than the heap | `TypeOK`, `NoUseAfterFree`, `NeverBothWays`, `AppliedAsSent` |
| `TemplateApp` | queue 3, `Init` may fail, advertising and network events, reboot, fair | `TypeOK`, `ArmedHasTimer`, `TimerOnlyWhileArmed`, `BlinkKeepsGoing`, `ImplementsResetButton`, `HeldButtonIsAnswered` |
| `GenericSwitch` | 4 presses, queue 3, 2 fabrics, removals that find the queue full, power failures, windows that open when asked to, fair | `TypeOK`, `NoUnknownEndpoint`, `EveryPressCounted`, `NeverForgotten`, `LastFabricReopens`, `PressSettled` |
| `CommandDispatch` | both programs, every command on endpoints 0 to 2 | `TypeOK`, `AdvertisedIsServed`, `NoDeadCase`, `AnsweredOnce`, `CalledWithGoodData` |
| `AppTaskReleaseRace`, `AppTaskDimRace`, `BindingToggleTwice`, `UsageExport` | | one promise of the documentation each that the code does not keep (section 10) |

*Why the bounds are enough.* The queue of ten places is cut to two or three.
That is enough for a stale expiry, a release and the next press to be queued
together, and for an overflow; `lost` records an overflow, and where a property
has the disjunct `lost`, an overflow really refutes it.  Most safety properties are
also proved for every queue length, board, set of devices and bound (section 11).
In `BindingHandler`, two devices make one
context wait for several sessions, two requests make a recovery overlap with
another request, and as many slots as contexts can be alive make both a full and
an empty heap occur.  `MaxRequests` and `MaxRecoveries` bound the history; the
third and later requests repeat what the second does with a used flag and a used heap.
In `LightSwitch`, one release and two requests let a toggle be followed or preceded
by a dimmer that started from a stale expiry, each with a recovery of its own.  In
`GenericSwitch`, two fabrics let one removal leave a fabric and the next leave none, and
four presses overflow a queue of three.

*Where the faults are restricted.*  `NoLeak` needs a `ScheduleWork` and a
`NotifyBoundClusterChanged` that report no error: LS ignores or only logs
those errors, and the object is then lost.  `AppliedAtMostOnce` holds for one device
where no response is lost, and fails otherwise (section 10).  `RecoveriesWithinRequests`
holds for one device and fails for two; for one it bounds the total, and a request may
still be recovered twice (section 10).  What is left of the promise with several
devices is `AppliedAsSent`: every recovery costs a device at most one repetition,
whatever is lost and however the table changes.  `GroupBlocksUnicast` holds only while
nobody writes the table and the shell is not used: `IsGroup` is a snapshot, and
the handlers of the shell do not look at the table.

`LastFabricReopens` needs a window that opens: with `OpenFails` it is false, because the
error of `OpenBasicCommissioningWindow` is only logged.  So the run sets `OpenFails` to
`FALSE`; `NeverForgotten`, which names the error as an exception, is proved for both
values.  Both properties also except an event that found no room, since nothing in the code
makes up for it.

*Deadlock* is checked wherever the system should go on.  It is not in the runs of
`BindingHandler` and `LightSwitch`, where the bounds or the user end the requests, in
`TemplateApp`, where a failed `Init` ends the program, nor in `CommandDispatch` and
`UsageExport`, which end with the command and the file.

## 9. Fairness

| specification | assumed | why |
|---|---|---|
| `AppTask`, `TemplateApp` | the application thread runs while there is something to do; a kernel timer that was armed expires | it is the `main` thread of Zephyr, which waits with `K_FOREVER`; the kernel runs its timers |
| `BindingHandler`, `LightSwitch` | the CHIP thread runs the work scheduled on it; an attempt to connect ends, in a session or in an error | `ScheduleWork` posts to the event loop of the stack; the stack limits the time of a session setup |
| `GenericSwitch` | `app_main` goes on; the Matter thread takes up what is scheduled | neither blocks in the modelled code; both are FreeRTOS tasks |

Nothing is assumed of the user, the LED timers, CHIP events, controllers, the supply
or the answers to commands.

## 10. Where documentation and code disagree

Each of the following has a run that expects a counterexample.

* **A release does not always cancel the factory reset** (`ReleaseCancelsReset`).
  The function timer expires while the release is in the queue, or before it is
  taken out.  The release handler sets `NoneSelected`, which equals
  `SoftwareUpdate`, and the stale expiry then opens the cancel window for a
  button that is up.  In real time: the button has to be let go about three
  seconds after the press, within the latency of the application thread.
* **Dimming after the release** (`DimsOnlyWhilePressed`).  In the same way a stale
  expiry of the trigger, 500 ms after the press, starts the periodic timer.
* **A Toggle twice** (`AppliedAtMostOnce`).  The request to one of two devices is
  lost; the recovery sends the command to both, and the other has applied it already.
  A lost response has the same effect with a single device.
* **A day's first record is exported with the day before** (`RowsAreDaily`).  The
  record is added to the sums before its day is compared (`fetch.py:108`, `111`), and
  the sums are then cleared.

These were met as well and have no run of their own; where a module covers the
code, the actions that cause them are part of it:

* the Identify LED blinks for a factory reset and goes on after it was cancelled:
  LS `app_task.cpp:280-284` updates the other LEDs only, while LS's
  `README.rst:146` lets it blink for the Identify command alone (`FunctionReleasedInReset`);
* one recovery flag serves all devices (LS `binding_handler.cpp:33-34`, "not try recover
  session multiple times"): with two, the one that answers clears it and the one that
  does not is tried again without end (`InvokeSucceeded`, `RecoverSession`);
* with a single device, too, one request can be recovered twice against that comment: the
  request times out and sets the flag, a later one succeeds and clears it
  (`binding_handler.cpp:63-64`), and the copy of the first times out and is recovered
  again.  `RecoveriesWithinRequests` and its theorem do not exclude it: each recovery is
  paid for by some request, not by its own;
* the under-counter switch opens a window after its last fabric was removed
  (`app_main.cpp:79-96`), but not where the event of the removal finds the queue full
  (`dropped`), and an error of opening is only logged (`OpenFails`): until the next
  power-up the device then has neither a fabric nor a window;
* the last row of an export has no year and no month (`fetch.py:141`; the heading at line
  83 has five columns), so that its values stand two columns to the left
  (`CloseExport`, which keeps what a row holds and not its columns);
* on two buttons, the release that finds the device without fabrics and
  advertising starts advertising and breaks out before it stops the dimmer (`SwitchReleasedStartsBLE`);
* "blink in unison" during a factory reset is broken by a network or Identify event;
* the status LED written by the application thread may show flags that were
  changed since (`StatusLedWritten`), until the next event;
* the commissioning window may be opened on a device that was commissioned
  between the test and the call (`OpenBasicCommissioningWindow`);
* a group binding written while a unicast command waits for its session does
  not block that command;
* in the template, an expiry that was queued before a release is taken up after the
  next press, in the mode that press has just set: the device resets at once
  instead of after six seconds (`FunctionTimerEventHandler`);
* the under-counter switch registers only the press (`app_driver.cpp:141`):
  `CurrentPosition` is set to 1 by the first press and never back to 0, and
  `GPIO_PIN_VALUE` is set to 21 while the button is created on `GPIO_NUM_0`;
* the level of the lights: LS's `README.rst:104` lets the switch control it, but endpoint 1
  has no Level Control client in `endpoint_config.h`; `callback-stub.cpp` and
  `PluginApplicationCallbacks.h` of LS were generated for other clusters than
  `endpoint_config.h`.

## 11. Proofs

The theorems hold for every value of the constants that satisfies the assumptions
named in the modules (a board of two or four buttons and LEDs; any queue length; any
finite set of devices; any bounds), and for the further assumptions a theorem states.

`AppTaskProofs`

| theorem | property | argument |
|---|---|---|
| `TypeCorrect` | `TypeOK` | inductive |
| `DimmerFlagCorrect` | `DimmerFlagMatchesTimer` | inductive with `TypeOK`: every handler that starts or stops the periodic timer sets the flag, and a reboot resets both |
| `FactoryResetArmed` | `FactoryResetIsArmed` | inductive with `TypeOK`: an expiry turns a running timer into an event; taking it out of the queue keeps it pending in `event` |
| `BlinkCorrect` | `BlinkKeepsGoing` | inductive with `TypeOK`: the same argument for each LED |
| `PushFollowed` | `PushIsFollowed` | inductive with `TypeOK`; needs that one scan posts at most one event per button and that an append keeps the order |
| `FunctionTimerCorrect`, `SwitchTriggerCorrect` | `FunctionTimerFollowsButton`, `SwitchTriggerFollowsButton` | not inductive alone: a press handled after its release was handled would start a timer nothing stops.  `PushIsFollowed` excludes it |

`BindingHandlerProofs`

| theorem | property | argument |
|---|---|---|
| `TypeCorrect`, `MemoryCorrect` | `TypeOK`, `NoUseAfterFree` | inductive only together (`Safe`): a freed context in the queue would make the worker use an ill-typed one |
| `WayCorrect` | `NeverBothWays` | strengthened to `OneWay`: all that lives of one request (contexts, commands sent) has the same `isGroup`; nothing lives of requests not made yet; what was applied agrees with it; commands in flight are unicast |
| `NothingLeaks` | `NoLeak`, where `NotifyBoundClusterChanged` reports no error and the work queue holds as much as the heap | inductive with `Safe`: scheduled objects are distinct (`NoUseAfterFree`), so with one slot free the queue has room (`WorkFits`, by counting) |
| `LevelsSent` | every level under way is one of 0, 3, ... 252, never 255, the null of a level | `LevelsKnown`: so is `sBrightness` and the value of every context on the heap, the copies of a recovery included.  A run that goes around once needs 85 steps of the dimmer |
| `GroupBlocks` | `GroupBlocksUnicast`, where nobody writes the table and the shell is not used | `GroupOnly`: while the group is bound, everything on the heap is for it and nothing is in flight |

`RetransmissionProofs` (any number of devices; the last two theorems: one bound device)

| theorem | property | argument |
|---|---|---|
| `AppliedSent` | `AppliedAsSent` | `Counted`: a command has a key, the request it stems from and the recovery that sent it again.  No device has two commands of one key ahead of it (a context scheduled or waiting for it, a command sent to it and not carried out).  For every set of requests, what a device has carried out of them and the keys it has ahead of them are together at most the requests made and the recoveries: a recovery makes one new key, carrying a command out uses one up, and a lost command, a failed connection or a removal from the table only takes away.  Cardinalities carry the count, without a sum |
| `AppliedOnce` | `AppliedAtMostOnce`, where no response is lost | `OneCarrier`: a request is carried by one object on the heap or by one command under way, never by two; `Unapplied`: what is still carried was not applied.  With two devices `OneCarrier` is false, as `BindingToggleTwice` shows |
| `RecoveriesBounded` | `RecoveriesWithinRequests`, a bound of the total | `Budget`: recoveries and requests still carried are together at most the requests, or one more while the flag is set.  A success clears the flag and gives up one carried request for it |

`LightSwitchProofs`

| theorem | property | argument |
|---|---|---|
| `RunsComponents` | the specifications of both components | every joint step is a step of each half or leaves it alone |
| `TypeCorrect`, `NothingLeaks`, `AppliedOnce`, `RecoveriesBounded` | `TypeOK`, `NoLeak`, `AppliedAtMostOnce`, `RecoveriesWithinRequests` | the theorems of the components, carried over by `RunsComponents`; the history is inductive |
| `TogglesAreSent` | a light is toggled at most as often as the switch was let go and a session was recovered, for any number of lights and any faults | `ReleasesCounted`: the toggles asked for, the releases still waiting in the queue and the one being handled are at most the releases; then `AppliedSent` for those requests |
| `TogglesReleased` | `TogglesAreReleases`, for one light and where no response is lost | `ReleasesCounted`, then `AppliedOnce` for those requests |

`TemplateAppProofs`

| theorem | property | argument |
|---|---|---|
| `TypeCorrect`, `ArmedTimer`, `TimerArmed`, `BlinkGoesOn` | `TypeOK`, `ArmedHasTimer`, `TimerOnlyWhileArmed`, `BlinkKeepsGoing` | inductive with `TypeOK`; what is pending stays pending until it is handled |
| `Implementation` | `ImplementsResetButton` | needs that, until one is dropped, presses and releases alternate in the queue, that the last of them agrees with the button, and the first with the mode.  Then each handler of the program is a step of `ResetButton`, and each scan, append and removal leaves its three variables alone |

`GenericSwitchProofs`

| theorem | property | argument |
|---|---|---|
| `TypeCorrect`, `KnownEndpoint` | `TypeOK`, `NoUnknownEndpoint` | together in `IndType`: nothing is queued before Matter is up, and the button is in the list by then |
| `NotForgotten` | `NeverForgotten` | inductive with `IndType`: the removal of the last fabric leaves its event in the queue or sets `dropped`, the event stays there until it is handled, and its handler looks at the count and the window; `"failed"` is an exception only where `OpenFails` |
| `PressesCounted` | `EveryPressCounted` | inductive with `IndType`: an append adds one waiting lambda, and a removal takes the first away |

`CommandDispatchProofs` (both programs)

| theorem | property | argument |
|---|---|---|
| `DispatchCorrect` | `Dispatched`, the inductive invariant | who has the command says whether it is accepted, has been called and has been answered |
| `TypeCorrect`, `Answered`, `GoodData` | `TypeOK`, `AnsweredOnce`, `CalledWithGoodData` | from `Dispatched` |
| `Served`, `AllReached` | `AdvertisedIsServed`, `NoDeadCase` | `TablesAgree`: every entry of a list has its case and every case its entry, cluster by cluster; `Dispatched` takes it to the answers |

`UsageExportProofs` (a zappi or an eddi; days are natural numbers, amounts integers)

| theorem | property | argument |
|---|---|---|
| `NothingIsLost` | the rows of the file and the records of the month add up to the same totals | `Balanced`: the rows written so far add up to the totals without the sums of the day.  "Adds up" is stated with the running sums themselves (`AddsUp`), so that one more term needs no induction |
| `DaysAscend` | no day has two rows, and the rows are in order | `Ascending`: every row is of an earlier day than the one being built, which is the day of the last record |

With these, every invariant that a run checks, and the refinement of `ResetButton`, is
also a theorem; where a run restricts the faults, the theorem states the same
restriction and nothing else.  Only checked by TLC:

* the liveness properties (`FactoryResetResolves`, `HoldingResets`, `HoldingDims`,
  `ReleaseOpensWindow`, `ContextsReleased`, `HeldButtonIsAnswered`, `LastFabricReopens`,
  `PressSettled`), since they rest on fairness;
* the runs of section 10, which are counterexamples.

What the totals of an export are as numbers (a sum over all records) is not proved: the
sum of a sequence of any length needs an induction over it, which the provers
cannot do.  That is why `AddsUp` speaks of running sums.

## 12. Not modelled

* *Power flow display.* A browser timer steps a simulation of panels, battery,
  charger and house for a demonstration; the sliders are its inputs.  One thread, one
  numeric function, no device behind it.  Its one edge, the battery that keeps its
  power for a step after it is full, is listed as a hazard.
* *Heating layout.* Two buttons set the classes of drawn elements.
* *ESPHome, solar gain sensor.* Declarative YAML for a runtime that is not in the repository.
* *Access lists, call-back stubs, attribute and event tables, build configuration.*
  Constants and empty functions that only the SDK and the compiler read.
* *Of the modelled programs*: NFC, OTA, the DFU server and the attestation set-up, which have
  no state of their own in this repository; the memory of `BindingTable`, whose
  unlocked reads are taken as atomic; the order of levels sent through
  different sessions.

## 13. What could come next

1. Levels: keep the level of a light instead of a count, and state what a late or
   repeated level does to it.
2. Two lights in `LightSwitch`, with symmetry, once its state space is cut further.
3. An abstract light switch (one toggle for a short press, a ramp for a long one) and the
   part of `LightSwitch` that implements it in spite of stale expiries.
