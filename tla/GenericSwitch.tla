--------------------------- MODULE GenericSwitch ---------------------------
(***************************************************************************)
(* The under-counter switch (under-counter-switch / esp-matter / main).    *)
(* The button task turns each press into a lambda for the Matter thread;   *)
(* app_main brings the node up on a third task; when the last fabric is    *)
(* removed, the Matter thread opens a commissioning window.                *)
(*                                                                         *)
(* Of the five call-backs of app_driver.cpp the build registers one,       *)
(* BUTTON_PRESS_DOWN; the others never run and are left out.  The event    *)
(* queue of the Matter thread, the fabric table, the commissioning window  *)
(* and the Switch cluster belong to the SDK and are external.              *)
(***************************************************************************)
EXTENDS Integers, Sequences, FiniteSets

CONSTANTS
    SwitchEndpoint,   \* the endpoint of the generic switch
    QueueSize,        \* length of the event queue of the Matter thread
    MaxFabrics,       \* CHIP_CONFIG_MAX_FABRICS
    OpenFails,        \* can OpenBasicCommissioningWindow return an error?
    MaxPresses        \* bound of the model: presses counted in one behaviour

NoEndpoint == -1      \* what get_endpoint answers for an unknown button

ASSUME EndpointAssumption == SwitchEndpoint \in Nat
ASSUME SizeAssumption == /\ QueueSize \in Nat \ {0} /\ MaxFabrics \in Nat \ {0}
                         /\ MaxPresses \in Nat
ASSUME OpenAssumption == OpenFails \in BOOLEAN

VARIABLES
    stage,            \* how far app_main has come
    button_list,      \* the endpoints that are configured (configured_buttons of them)
    queue,            \* what waits for the Matter thread
    CurrentPosition,  \* the attribute of the Switch cluster
    fabrics,          \* FabricCount()
    window,           \* the commissioning window: "closed", "open", "expired", "failed"
    presses,          \* presses the button task has seen (history)
    reported,         \* InitialPress events sent (history)
    missed,           \* presses no lambda could be scheduled for (history)
    dropped           \* the removal of the last fabric found the queue full (history)

counts == <<presses, reported, missed>>
vars == <<stage, button_list, queue, CurrentPosition, fabrics, window, counts, dropped>>
----------------------------------------------------------------------------
\* Mutation: Matter is started before the button is entered in the list.
StagesEarlyStart == <<"node", "driver", "start", "endpoint", "list", "features">>

Stages == <<"node", "driver", "endpoint", "list", "features", "start">>
Running == Len(Stages) + 1
Aborted == 0
Up(s) == \E k \in DOMAIN Stages : Stages[k] = s /\ k < stage

\* A lambda of the press call-back with what it has captured, and the event.
InitialPress(e) == [call |-> "InitialPress", endpoint |-> e]
FabricRemoved   == [call |-> "kFabricRemoved", endpoint |-> NoEndpoint]

Endpoint == {SwitchEndpoint, NoEndpoint}
Work == { InitialPress(e) : e \in Endpoint } \cup {FabricRemoved}

\* Power-up of a device that has kept its fabrics; the server opens a window
\* by itself where it has none, when the Matter thread starts.
Init ==
    /\ stage = 1
    /\ button_list = {}
    /\ queue = <<>>
    /\ CurrentPosition = 0
    /\ fabrics \in 0..MaxFabrics
    /\ window = "closed"
    /\ presses = 0 /\ reported = 0 /\ missed = 0
    /\ dropped = FALSE

Waiting == { i \in DOMAIN queue : queue[i] # FabricRemoved }

\* The supply fails; only the fabrics are kept.
PowerCycle ==
    /\ stage # 1
    /\ stage' = 1
    /\ button_list' = {} /\ queue' = <<>> /\ CurrentPosition' = 0 /\ window' = "closed"
    /\ missed' = missed + Cardinality(Waiting)
    /\ dropped' = FALSE
    /\ UNCHANGED <<fabrics, presses, reported>>

\* The next part of app_main.
AppMain ==
    /\ stage \in DOMAIN Stages
    /\ stage' = stage + 1
    /\ button_list' = IF Stages[stage] = "list" THEN {SwitchEndpoint} ELSE button_list
    /\ window' = IF Stages[stage] = "start" /\ fabrics = 0 THEN "open" ELSE window
    /\ UNCHANGED <<queue, CurrentPosition, fabrics, counts, dropped>>

\* ABORT_APP_ON_FAILURE
AppMainAborts ==
    /\ stage \in DOMAIN Stages /\ Stages[stage] \in {"node", "start"}
    /\ stage' = Aborted
    /\ UNCHANGED <<button_list, queue, CurrentPosition, fabrics, window, counts, dropped>>
----------------------------------------------------------------------------
(* The button task. *)
get_endpoint == IF SwitchEndpoint \in button_list THEN SwitchEndpoint ELSE NoEndpoint

\* Mutation: the queue takes what it has no room for.
ScheduleLambdaUnbounded(w) ==
    IF Up("start") THEN queue' = Append(queue, w) /\ UNCHANGED missed
                   ELSE missed' = missed + 1 /\ UNCHANGED queue

\* SystemLayer().ScheduleLambda, whose result is ignored: before Matter is up,
\* or where the queue is full, the press is lost.
ScheduleLambda(w) ==
    IF Up("start") /\ Len(queue) < QueueSize
    THEN queue' = Append(queue, w) /\ UNCHANGED missed
    ELSE missed' = missed + 1 /\ UNCHANGED queue

app_driver_button_initial_pressed ==
    /\ Up("driver")
    /\ presses < MaxPresses
    /\ presses' = presses + 1
    /\ ScheduleLambda(InitialPress(get_endpoint))
    /\ UNCHANGED <<stage, button_list, CurrentPosition, fabrics, window, reported, dropped>>
----------------------------------------------------------------------------
(* The Matter thread. *)

\* Mutation: a second press is not reported while the position is 1 already.
PressLambdaOnChange(e) ==
    /\ queue # <<>> /\ Head(queue) = InitialPress(e)
    /\ queue' = Tail(queue)
    /\ IF e = SwitchEndpoint /\ CurrentPosition = 0
       THEN CurrentPosition' = 1 /\ reported' = reported + 1
       ELSE UNCHANGED <<CurrentPosition, reported>>
    /\ UNCHANGED <<stage, button_list, fabrics, window, presses, missed, dropped>>

\* CurrentPosition::Set and send_initial_press; they fail for an endpoint
\* that does not exist.
PressLambda(e) ==
    /\ queue # <<>> /\ Head(queue) = InitialPress(e)
    /\ queue' = Tail(queue)
    /\ IF e = SwitchEndpoint
       THEN CurrentPosition' = 1 /\ reported' = reported + 1
       ELSE UNCHANGED <<CurrentPosition, reported>>
    /\ UNCHANGED <<stage, button_list, fabrics, window, presses, missed, dropped>>

\* Mutation: the event is taken to come before the fabric is gone.
FabricRemovedOneLeft ==
    /\ queue # <<>> /\ Head(queue) = FabricRemoved
    /\ queue' = Tail(queue)
    /\ IF fabrics = 1 /\ window # "open" THEN window' = "open" ELSE UNCHANGED window
    /\ UNCHANGED <<stage, button_list, CurrentPosition, fabrics, counts, dropped>>

\* Mutation: the event is kept until an open window has closed.
FabricRemovedWaits ==
    /\ queue # <<>> /\ Head(queue) = FabricRemoved
    /\ window # "open"
    /\ queue' = Tail(queue)
    /\ window' = IF fabrics = 0 THEN "open" ELSE window
    /\ UNCHANGED <<stage, button_list, CurrentPosition, fabrics, counts, dropped>>

\* app_event_cb with kFabricRemoved: the count is that of this moment, not
\* that of the removal.
FabricRemovedHandled ==
    /\ queue # <<>> /\ Head(queue) = FabricRemoved
    /\ queue' = Tail(queue)
    /\ IF fabrics = 0 /\ window # "open"
       THEN window' \in {"open"} \cup (IF OpenFails THEN {"failed"} ELSE {})
       ELSE UNCHANGED window
    /\ UNCHANGED <<stage, button_list, CurrentPosition, fabrics, counts, dropped>>

\* A controller commissions the device through the open window (external).
Commissioned ==
    /\ Up("start")
    /\ window = "open" /\ fabrics < MaxFabrics
    /\ fabrics' = fabrics + 1
    /\ window' = "closed"
    /\ dropped' = FALSE
    /\ UNCHANGED <<stage, button_list, queue, CurrentPosition, counts>>

\* A controller has removed a fabric (external); the SDK posts the event, which
\* is lost where the queue is full.
FabricLeaves ==
    /\ Up("start")
    /\ fabrics > 0
    /\ fabrics' = fabrics - 1
    /\ queue' = IF Len(queue) < QueueSize THEN Append(queue, FabricRemoved) ELSE queue
    /\ dropped' = (fabrics = 1 /\ Len(queue) = QueueSize)
    /\ UNCHANGED <<stage, button_list, CurrentPosition, window, counts>>

\* An administrator opens a window on a commissioned device (external).
WindowRequested ==
    /\ Up("start")
    /\ fabrics > 0 /\ window # "open"
    /\ window' = "open"
    /\ UNCHANGED <<stage, button_list, queue, CurrentPosition, fabrics, counts, dropped>>

\* k_timeout_seconds are over.
WindowExpires ==
    /\ window = "open"
    /\ window' = IF fabrics = 0 THEN "expired" ELSE "closed"
    /\ UNCHANGED <<stage, button_list, queue, CurrentPosition, fabrics, counts, dropped>>

MatterThread == (\E e \in Endpoint : PressLambda(e)) \/ FabricRemovedHandled

Next ==
    \/ PowerCycle \/ AppMain \/ AppMainAborts
    \/ app_driver_button_initial_pressed
    \/ MatterThread
    \/ Commissioned \/ FabricLeaves \/ WindowRequested \/ WindowExpires

Spec == Init /\ [][Next]_vars

\* app_main goes on, and the Matter thread takes up what is scheduled.
FairSpec == Spec /\ WF_vars(AppMain) /\ WF_vars(MatterThread)
----------------------------------------------------------------------------
TypeOK ==
    /\ stage \in 0..Running
    /\ button_list \subseteq {SwitchEndpoint}
    /\ queue \in Seq(Work) /\ Len(queue) <= QueueSize
    /\ CurrentPosition \in {0, 1}
    /\ fabrics \in 0..MaxFabrics
    /\ window \in {"closed", "open", "expired", "failed"}
    /\ presses \in 0..MaxPresses /\ reported \in Nat /\ missed \in Nat
    /\ dropped \in BOOLEAN
----------------------------------------------------------------------------
\* A press that reaches the Matter thread carries the endpoint of the switch:
\* presses that come while app_main still sets the node up never do.
NoUnknownEndpoint == \A i \in Waiting : queue[i].endpoint = SwitchEndpoint

\* Every press is reported by exactly one InitialPress event, waits to be, or
\* was lost because Matter was not up, the queue was full or the power failed.
EveryPressCounted == presses = reported + missed + Cardinality(Waiting)

\* A device without fabrics can be commissioned, or could for as long as its
\* window was open: when the last fabric goes, whatever windows open and expire
\* between the removal and its event, and across a power failure, a window
\* opens or the event that will open it is on its way.  Two things excuse it,
\* and nothing tries again after either: the queue had no room for that event,
\* or, where OpenFails, the window could not be opened and the error was logged.
NeverForgotten ==
    Up("start") /\ fabrics = 0
        => \/ window \in {"open", "expired"}
           \/ \E i \in DOMAIN queue : queue[i] = FabricRemoved
           \/ dropped
           \/ OpenFails /\ window = "failed"

\* Where OpenFails is FALSE the window does open for a device that has lost its
\* last fabric, unless the event found no room or the power fails first.
LastFabricReopens ==
    Up("start") /\ fabrics = 0 /\ window = "closed"
        ~> (window = "open" \/ dropped \/ ~Up("start"))

\* Every press is settled in the end: reported, or lost for one of these reasons.
PressSettled ==
    \A n \in 1..MaxPresses : presses = n ~> reported + missed >= n
============================================================================
