------------------------- MODULE LightSwitchProofs -------------------------
(***************************************************************************)
(* Theorems about LightSwitch: the whole program runs its two components   *)
(* as their own specifications say, so that what is proved about AppTask   *)
(* and BindingHandler holds in it; and no binding outlives its fabric.     *)
(***************************************************************************)
EXTENDS LightSwitch, FiniteSetTheorems, TLAPS

(***************************************************************************)
(* What a handler asks of class LightSwitch is a request of BindingHandler. *)
(***************************************************************************)
LEMMA AskStep ==
    ASSUME NEW action \in {"Toggle", "On", "Level"}, Ask(action), ~crashed
    PROVE  Binding!Next \/ UNCHANGED Binding!vars
<1>1. CASE ~Binding!HasRoom
  BY <1>1 DEF Ask, bindingVars, Binding!vars, Binding!history
<1>2. CASE Binding!HasRoom /\ action = "Level"
  BY <1>2 DEF Ask, Binding!Next
<1>3. CASE Binding!HasRoom /\ action # "Level"
  <2>1. Binding!InitiateActionSwitch(action) /\ action \in Binding!OnOff
    BY <1>3 DEF Ask, Binding!OnOff
  <2> QED BY <2>1 DEF Binding!Next
<1> QED BY <1>1, <1>2, <1>3

LEMMA BindingStep == [Next]_vars => [Binding!Next]_(Binding!vars)
<1> SUFFICES ASSUME [Next]_vars PROVE Binding!Next \/ UNCHANGED Binding!vars
  OBVIOUS
<1>1. ASSUME UNCHANGED bindingVars
      PROVE  UNCHANGED Binding!vars
  BY <1>1 DEF bindingVars, Binding!vars, Binding!history
<1>2. CASE UNCHANGED vars
  BY <1>1, <1>2 DEF vars
<1>3. CASE ~crashed /\ (SwitchReleased \/ DimmingStarted \/ DimmerTick)
  BY <1>1, <1>3, AskStep DEF SwitchReleased, DimmingStarted, DimmerTick
<1>4. CASE AppAlone \/ \E changed \in SUBSET UserPins : ButtonEventHandler(changed)
  BY <1>1, <1>4 DEF AppAlone, ButtonEventHandler
<1>5. CASE FabricChange
  <2>1. CASE Binding!BindingTableWritten({})
    BY <2>1 DEF Binding!Next
  <2> QED BY <1>1, <1>5, <2>1 DEF FabricChange
<1>6. CASE BindingAlone
  BY <1>6 DEF BindingAlone, Binding!Next
<1> QED BY <1>2, <1>3, <1>4, <1>5, <1>6 DEF Next

LEMMA AppStep == [Next]_vars => [App!Next]_(App!vars)
<1> SUFFICES ASSUME [Next]_vars PROVE App!Next \/ UNCHANGED App!vars
  OBVIOUS
<1>1. ASSUME UNCHANGED appVars
      PROVE  UNCHANGED App!vars
  BY <1>1 DEF appVars, App!vars, App!appVars, App!chipVars, App!ledVars
<1>2. CASE UNCHANGED vars \/ BindingAlone
  BY <1>1, <1>2 DEF vars, BindingAlone
<1>3. CASE SwitchReleased \/ DimmingStarted \/ DimmerTick
  BY <1>3 DEF SwitchReleased, DimmingStarted, DimmerTick, App!Next, App!StartApp,
              App!DispatchEvent
<1>4. CASE AppAlone
  BY <1>4 DEF AppAlone, App!Next, App!StartApp, App!DispatchEvent
<1>5. CASE \E changed \in SUBSET UserPins : changed # {} /\ ButtonEventHandler(changed)
  BY <1>5 DEF ButtonEventHandler, App!Next
<1>6. CASE FabricChange
  BY <1>6 DEF FabricChange, App!Next, App!ChipThread
<1> QED BY <1>2, <1>3, <1>4, <1>5, <1>6 DEF Next

\* The program is a behaviour of both components: a handler asks class LightSwitch
\* only for what BindingHandler takes, and a full heap drops the request.
THEOREM RunsComponents == Spec => App!Spec /\ Binding!Spec
<1>1. Init => App!Init /\ Binding!Init
  BY DEF Init
<1> QED BY <1>1, AppStep, BindingStep, PTL DEF Spec, App!Spec, Binding!Spec
----------------------------------------------------------------------------
(***************************************************************************)
(* What is proved about the components holds in the program.               *)
(***************************************************************************)
AppProved     == INSTANCE AppTaskProofs
BindingProved == INSTANCE RetransmissionProofs

LEMMA AppProvedSpec == App!Spec => AppProved!Spec
<1>1. App!Init => AppProved!Init
  BY DEF App!Init, App!BootLeds, App!BootLedTimers, App!Pin, App!Led,
         App!SoftwareUpdate, App!NoneSelected, App!FactoryReset, App!Timer,
         App!Blinks, App!Pattern, App!Push, App!Release, App!StartBLE, App!Expired,
         App!UpdateLed, App!IdentifyStart, App!IdentifyStop, App!AppEvent,
         App!OpenWindow, App!WriteStatusLed, App!Continuation, App!NoEvent,
         App!Request, AppProved!Init, AppProved!BootLeds, AppProved!BootLedTimers,
         AppProved!Pin, AppProved!Led, AppProved!SoftwareUpdate,
         AppProved!NoneSelected, AppProved!FactoryReset, AppProved!Timer,
         AppProved!Blinks, AppProved!Pattern, AppProved!Push, AppProved!Release,
         AppProved!StartBLE, AppProved!Expired, AppProved!UpdateLed,
         AppProved!IdentifyStart, AppProved!IdentifyStop, AppProved!AppEvent,
         AppProved!OpenWindow, AppProved!WriteStatusLed, AppProved!Continuation,
         AppProved!NoEvent, AppProved!Request
<1>2. [App!Next]_(App!vars) => [AppProved!Next]_(AppProved!vars)
  BY DEF App!Pin, App!Led, App!SoftwareUpdate, App!NoneSelected, App!FactoryReset,
         App!Timer, App!Blinks, App!Pattern, App!Push, App!Release, App!StartBLE,
         App!Expired, App!UpdateLed, App!IdentifyStart, App!IdentifyStop,
         App!AppEvent, App!OpenWindow, App!WriteStatusLed, App!Continuation,
         App!NoEvent, App!Request, App!vars, App!appVars, App!chipVars,
         App!ledVars, App!Next, App!Enqueue, App!PostEvents, App!PostEvent,
         App!Show, App!StatusPattern, App!UpdateStatusLED,
         App!BeginUpdateStatusLED, App!StartTimer, App!CancelTimers, App!BootLeds,
         App!BootLedTimers, App!Reboot, App!Scan, App!ScanBLEStart,
         App!ButtonEventHandler, App!FunctionTimerTimeoutCallback,
         App!LEDStateUpdateHandler, App!IdentifyHandler, App!BLEAdvertisingChange,
         App!NetworkStateChange, App!FabricChange, App!GetEvent, App!Return,
         App!FunctionPushed, App!ButtonStartsBLE, App!SwitchPushed,
         App!EndOfFunction, App!FunctionReleased, App!FunctionReleasedInReset,
         App!SwitchReleasedStartsBLE, App!SwitchReleased,
         App!FactoryResetTriggered, App!FactoryResetDone, App!DimmingStarted,
         App!DimmerTick, App!UpdateLedStateEventHandler, App!IdentifyStarted,
         App!IdentifyStopped, App!StartBLEAdvertisementHandler,
         App!OpenBasicCommissioningWindow, App!StatusLedWritten, App!DispatchEvent,
         App!StartApp, App!ChipThread, AppProved!Pin, AppProved!Led,
         AppProved!SoftwareUpdate, AppProved!NoneSelected, AppProved!FactoryReset,
         AppProved!Timer, AppProved!Blinks, AppProved!Pattern, AppProved!Push,
         AppProved!Release, AppProved!StartBLE, AppProved!Expired,
         AppProved!UpdateLed, AppProved!IdentifyStart, AppProved!IdentifyStop,
         AppProved!AppEvent, AppProved!OpenWindow, AppProved!WriteStatusLed,
         AppProved!Continuation, AppProved!NoEvent, AppProved!Request,
         AppProved!vars, AppProved!appVars, AppProved!chipVars, AppProved!ledVars,
         AppProved!Next, AppProved!Enqueue, AppProved!PostEvents,
         AppProved!PostEvent, AppProved!Show, AppProved!StatusPattern,
         AppProved!UpdateStatusLED, AppProved!BeginUpdateStatusLED,
         AppProved!StartTimer, AppProved!CancelTimers, AppProved!BootLeds,
         AppProved!BootLedTimers, AppProved!Reboot, AppProved!Scan,
         AppProved!ScanBLEStart, AppProved!ButtonEventHandler,
         AppProved!FunctionTimerTimeoutCallback, AppProved!LEDStateUpdateHandler,
         AppProved!IdentifyHandler, AppProved!BLEAdvertisingChange,
         AppProved!NetworkStateChange, AppProved!FabricChange, AppProved!GetEvent,
         AppProved!Return, AppProved!FunctionPushed, AppProved!ButtonStartsBLE,
         AppProved!SwitchPushed, AppProved!EndOfFunction, AppProved!FunctionReleased,
         AppProved!FunctionReleasedInReset,
         AppProved!SwitchReleasedStartsBLE, AppProved!SwitchReleased,
         AppProved!FactoryResetTriggered, AppProved!FactoryResetDone,
         AppProved!DimmingStarted, AppProved!DimmerTick,
         AppProved!UpdateLedStateEventHandler, AppProved!IdentifyStarted,
         AppProved!IdentifyStopped, AppProved!StartBLEAdvertisementHandler,
         AppProved!OpenBasicCommissioningWindow, AppProved!StatusLedWritten,
         AppProved!DispatchEvent, AppProved!StartApp, AppProved!ChipThread
<1> QED BY <1>1, <1>2, PTL DEF App!Spec, AppProved!Spec

LEMMA BindingProvedSpec == Binding!Spec => BindingProved!Spec
<1>1. Binding!Init => BindingProved!Init
  BY DEF Binding!Init, Binding!Slot, Binding!Free, Binding!Group,
         BindingProved!Init, BindingProved!Slot, BindingProved!Free,
         BindingProved!Group
<1>2. [Binding!Next]_(Binding!vars) => [BindingProved!Next]_(BindingProved!vars)
  BY DEF Binding!vars, Binding!history, Binding!Slot, Binding!Free, Binding!OnOff,
         Binding!Group, Binding!Step, Binding!MaximumBrightness, Binding!Next,
         Binding!Request, Binding!HasRoom, Binding!FreeSlots, Binding!NewSlot,
         Binding!IsGroupBound, Binding!ScheduleWork, Binding!InitiateActionSwitch,
         Binding!NextBrightness, Binding!DimmerChangeBrightness,
         Binding!ShellCommandHandler, Binding!Release,
         Binding!NotifyBoundClusterChanged, Binding!SwitchWorkerHandler,
         Binding!WaitingFor, Binding!Invokes, Binding!DeviceConnected,
         Binding!ConnectionFailed, Binding!ConnectOutcome, Binding!InvokeSucceeded,
         Binding!MarkRecovered, Binding!RecoverSession, Binding!GiveUp,
         Binding!InvokeTimedOut, Binding!InvokeFailed, Binding!InvokeOutcome,
         Binding!DeviceApplies, Binding!BindingTableWritten, BindingProved!vars,
         BindingProved!history, BindingProved!Slot, BindingProved!Free,
         BindingProved!OnOff, BindingProved!Group, BindingProved!Step,
         BindingProved!MaximumBrightness, BindingProved!Next,
         BindingProved!Request, BindingProved!HasRoom, BindingProved!FreeSlots,
         BindingProved!NewSlot, BindingProved!IsGroupBound,
         BindingProved!ScheduleWork, BindingProved!InitiateActionSwitch,
         BindingProved!NextBrightness, BindingProved!DimmerChangeBrightness,
         BindingProved!ShellCommandHandler, BindingProved!Release,
         BindingProved!NotifyBoundClusterChanged,
         BindingProved!SwitchWorkerHandler, BindingProved!WaitingFor,
         BindingProved!Invokes, BindingProved!DeviceConnected,
         BindingProved!ConnectionFailed, BindingProved!ConnectOutcome,
         BindingProved!InvokeSucceeded, BindingProved!MarkRecovered,
         BindingProved!RecoverSession, BindingProved!GiveUp,
         BindingProved!InvokeTimedOut, BindingProved!InvokeFailed,
         BindingProved!InvokeOutcome, BindingProved!DeviceApplies,
         BindingProved!BindingTableWritten
<1> QED BY <1>1, <1>2, PTL DEF Binding!Spec, BindingProved!Spec

LEMMA AppProvedAssumptions ==
    /\ AppProved!BoardAssumption /\ AppProved!QueueAssumption
    /\ AppProved!ConfigAssumption /\ AppProved!ActorAssumption
BY AppAssumption
DEF AppAssumption, App!BoardAssumption, App!QueueAssumption, App!ConfigAssumption,
    App!ActorAssumption, App!Pin, App!Activities, AppProved!BoardAssumption,
    AppProved!QueueAssumption, AppProved!ConfigAssumption,
    AppProved!ActorAssumption, AppProved!Pin, AppProved!Activities

LEMMA BindingProvedAssumptions ==
    /\ BindingProved!DeviceAssumption /\ BindingProved!RequestAssumption
    /\ BindingProved!FaultAssumption /\ BindingProved!BoundAssumption
<1>1. BindingProved!DeviceAssumption /\ BindingProved!RequestAssumption
  BY BindingAssumption
  DEF BindingAssumption, Binding!DeviceAssumption, Binding!RequestAssumption, Binding!Group,
      Binding!OnOff, Binding!IsFiniteSet, BindingProved!DeviceAssumption,
      BindingProved!RequestAssumption, BindingProved!Group, BindingProved!OnOff,
      BindingProved!IsFiniteSet
<1>2. BindingProved!FaultAssumption /\ BindingProved!BoundAssumption
  BY BindingAssumption
  DEF BindingAssumption, Binding!FaultAssumption, Binding!BoundAssumption, Binding!AllFaults,
      BindingProved!FaultAssumption, BindingProved!BoundAssumption,
      BindingProved!AllFaults
<1> QED BY <1>1, <1>2

\* Every context is on its way to the CHIP thread or waits for a device, whatever
\* the buttons, the fabric and the devices do, where nothing reports an error.
THEOREM NothingLeaks ==
    ASSUME "notify" \notin Faults, MaxData <= WorkSize
    PROVE  Spec => []NoLeak
<1>1. BindingProved!Spec => []BindingProved!NoLeak
  BY BindingProvedAssumptions, BindingProved!NothingLeaks
<1>2. BindingProved!NoLeak => NoLeak
  BY DEF NoLeak, Binding!NoLeak, Binding!Slot, Binding!Free, Binding!Scheduled,
         Binding!Awaited, BindingProved!NoLeak, BindingProved!Slot,
         BindingProved!Free, BindingProved!Scheduled, BindingProved!Awaited
<1> QED BY <1>1, <1>2, RunsComponents, BindingProvedSpec, PTL

\* With one light, and where no response is lost, no command is carried out twice.
THEOREM AppliedOnce ==
    ASSUME \A d, e \in Device : d = e, "response" \notin Faults
    PROVE  Spec => []AppliedAtMostOnce
<1>1. BindingProved!SameDevice
  BY DEF BindingProved!SameDevice
<1>2. BindingProved!Spec => []BindingProved!AppliedAtMostOnce
  BY <1>1, BindingProvedAssumptions, BindingProved!AppliedOnce
<1>3. BindingProved!AppliedAtMostOnce => AppliedAtMostOnce
  BY DEF AppliedAtMostOnce, Binding!AppliedAtMostOnce, BindingProved!AppliedAtMostOnce
<1> QED BY <1>2, <1>3, RunsComponents, BindingProvedSpec, PTL

\* With one light, there are never more recoveries than requests of the buttons,
\* whatever is lost and whenever the fabric goes.
THEOREM RecoveriesBounded ==
    ASSUME \A d, e \in Device : d = e
    PROVE  Spec => []RecoveriesWithinRequests
<1>1. BindingProved!SameDevice
  BY DEF BindingProved!SameDevice
<1>2. BindingProved!Spec => []BindingProved!RecoveriesWithinRequests
  BY <1>1, BindingProvedAssumptions, BindingProved!RecoveriesBounded
<1>3. BindingProved!RecoveriesWithinRequests => RecoveriesWithinRequests
  BY DEF RecoveriesWithinRequests, Binding!RecoveriesWithinRequests,
         BindingProved!RecoveriesWithinRequests
<1> QED BY <1>2, <1>3, RunsComponents, BindingProvedSpec, PTL

LEMMA ComponentTypes == Spec => [](App!TypeOK /\ Binding!TypeOK)
<1>1. AppProved!Spec => []AppProved!TypeOK
  BY AppProvedAssumptions, AppProved!TypeCorrect
<1>2. AppProved!TypeOK => App!TypeOK
  BY DEF App!TypeOK, App!Pin, App!Led, App!SoftwareUpdate, App!NoneSelected,
         App!FactoryReset, App!Timer, App!Blinks, App!Pattern, App!Push,
         App!Release, App!StartBLE, App!Expired, App!UpdateLed, App!IdentifyStart,
         App!IdentifyStop, App!AppEvent, App!OpenWindow, App!WriteStatusLed,
         App!Continuation, App!NoEvent, App!Request, AppProved!TypeOK,
         AppProved!Pin, AppProved!Led, AppProved!SoftwareUpdate,
         AppProved!NoneSelected, AppProved!FactoryReset, AppProved!Timer,
         AppProved!Blinks, AppProved!Pattern, AppProved!Push, AppProved!Release,
         AppProved!StartBLE, AppProved!Expired, AppProved!UpdateLed,
         AppProved!IdentifyStart, AppProved!IdentifyStop, AppProved!AppEvent,
         AppProved!OpenWindow, AppProved!WriteStatusLed, AppProved!Continuation,
         AppProved!NoEvent, AppProved!Request
<1>3. BindingProved!Spec => []BindingProved!TypeOK
  BY BindingProvedAssumptions, BindingProved!TypeCorrect
<1>4. BindingProved!TypeOK => Binding!TypeOK
  BY DEF Binding!TypeOK, Binding!Slot, Binding!BindingData, Binding!Free,
         Binding!OnOff, Binding!UInt8, Binding!Invoke, Binding!Group,
         Binding!MaximumBrightness, BindingProved!TypeOK, BindingProved!Slot,
         BindingProved!BindingData, BindingProved!Free, BindingProved!OnOff,
         BindingProved!UInt8, BindingProved!Invoke, BindingProved!Group,
         BindingProved!MaximumBrightness
<1> QED BY <1>1, <1>2, <1>3, <1>4, RunsComponents, AppProvedSpec, BindingProvedSpec, PTL

\* The history of the whole program agrees with what BindingHandler counts.
HistoryOK ==
    /\ asked \in Seq({"Toggle", "On", "Level"}) /\ Len(asked) = requests
    /\ releases \in 0..MaxReleases

LEMMA AskRecords ==
    ASSUME NEW action \in {"Toggle", "On", "Level"}, Ask(action), HistoryOK
    PROVE  asked' \in Seq({"Toggle", "On", "Level"}) /\ Len(asked') = requests'
<1>1. CASE asked' = asked /\ requests' = requests
  BY <1>1 DEF HistoryOK
<1>2. CASE asked' = Append(asked, action) /\ requests' = requests + 1
  BY <1>2 DEF HistoryOK
<1> QED BY <1>1, <1>2 DEF Ask, bindingVars, Binding!DimmerChangeBrightness,
                          Binding!InitiateActionSwitch, Binding!Request

LEMMA HistoryStep ==
    Binding!TypeOK /\ HistoryOK /\ [Next]_vars => HistoryOK'
<1> SUFFICES ASSUME HistoryOK, [Next]_vars PROVE HistoryOK'
  OBVIOUS
<1>1. CASE SwitchReleased \/ DimmingStarted \/ DimmerTick
  BY <1>1, AskRecords
  DEF SwitchReleased, DimmingStarted, DimmerTick, HistoryOK, bindingVars
<1>2. CASE AppAlone \/ UNCHANGED vars
  BY <1>2 DEF AppAlone, vars, history, bindingVars, HistoryOK
<1>3. ASSUME NEW changed, ButtonEventHandler(changed)
      PROVE  HistoryOK'
  <2> DEFINE n == Cardinality({"Switch"} \cap changed \cap pressed)
  <2>1. n \in Nat
    <3>1. IsFiniteSet({"Switch"} \cap changed \cap pressed)
      BY FS_Singleton, FS_Intersection
    <3> QED BY <3>1, FS_CardinalityType
  <2>2. releases' = releases + n /\ releases' <= MaxReleases
    BY <1>3 DEF ButtonEventHandler
  <2> HIDE DEF n
  <2>3. releases' \in 0..MaxReleases
    BY <2>1, <2>2, ReleaseAssumption DEF HistoryOK
  <2> QED BY <1>3, <2>3 DEF ButtonEventHandler, bindingVars, HistoryOK
<1>4. CASE FabricChange
  BY <1>4 DEF FabricChange, Binding!BindingTableWritten, Binding!history, history,
              bindingVars, HistoryOK
<1>5. CASE BindingAlone
  <2>1. asked' = asked /\ releases' = releases
    BY <1>5 DEF BindingAlone, history
  <2>2. requests' = requests
    BY <1>5
    DEF BindingAlone, Binding!SwitchWorkerHandler, Binding!ConnectOutcome,
        Binding!DeviceConnected, Binding!ConnectionFailed, Binding!InvokeOutcome,
        Binding!InvokeSucceeded, Binding!InvokeTimedOut, Binding!InvokeFailed,
        Binding!RecoverSession, Binding!GiveUp, Binding!DeviceApplies,
        Binding!BindingTableWritten, Binding!history
  <2> QED BY <2>1, <2>2 DEF HistoryOK
<1> QED BY <1>1, <1>2, <1>3, <1>4, <1>5 DEF Next

\* The whole program is well typed, and every request of a button is recorded.
THEOREM TypeCorrect == Spec => []TypeOK
<1>1. Init => HistoryOK
  BY ReleaseAssumption DEF Init, HistoryOK, Binding!Init
<1>2. App!TypeOK /\ Binding!TypeOK /\ HistoryOK => TypeOK
  BY DEF TypeOK, HistoryOK
<1> QED BY <1>1, <1>2, HistoryStep, ComponentTypes, PTL DEF Spec
----------------------------------------------------------------------------
(***************************************************************************)
(* The toggles.  Every release of the switch is in one place: in the queue, *)
(* in the hands of the application thread, among the requests to toggle,   *)
(* or gone (dropped by a full queue or heap, spent on the dimmer or on the *)
(* commissioning window).                                                  *)
(***************************************************************************)
Awaiting == { k \in DOMAIN queue : queue[k] = App!Release("Switch") }
Held     == IF event = App!Release("Switch") THEN 1 ELSE 0

ReleasesCounted == Cardinality(Toggles) + Cardinality(Awaiting) + Held <= releases

\* What the program keeps anyway, and what the count rests on.
Typed == App!TypeOK /\ Binding!TypeOK /\ HistoryOK

LEMMA Posted ==
    ASSUME App!TypeOK, NEW es \in Seq(App!AppEvent), App!PostEvents(es),
           NEW k \in DOMAIN queue'
    PROVE  \/ k \in DOMAIN queue /\ queue'[k] = queue[k]
           \/ \E j \in DOMAIN es : k = Len(queue) + j /\ queue'[k] = es[j]
<1> DEFINE all == queue \o es
<1>1. /\ queue \in Seq(App!AppEvent) /\ all \in Seq(App!AppEvent)
      /\ Len(all) = Len(queue) + Len(es)
      /\ DOMAIN queue = 1..Len(queue) /\ DOMAIN es = 1..Len(es) /\ DOMAIN all = 1..Len(all)
  BY DEF App!TypeOK
<1>2. ASSUME NEW j \in DOMAIN all
      PROVE  \/ j \in DOMAIN queue /\ all[j] = queue[j]
             \/ \E i \in DOMAIN es : j = Len(queue) + i /\ all[j] = es[i]
  <2>1. CASE j \in 1..Len(queue)
    BY <1>1, <2>1
  <2>2. CASE j \notin 1..Len(queue)
    <3>1. j - Len(queue) \in 1..Len(es) /\ all[j] = es[j - Len(queue)]
          /\ j = Len(queue) + (j - Len(queue))
      BY <1>1, <2>2
    <3> QED BY <1>1, <3>1
  <2> QED BY <2>1, <2>2
<1>3. k \in DOMAIN all /\ queue'[k] = all[k]
  <2>1. \/ queue' = all
        \/ queue' = SubSeq(all, 1, QueueSize) /\ Len(all) > QueueSize
    BY <1>1, AppAssumption DEF AppAssumption, App!QueueAssumption, App!PostEvents, App!Enqueue
  <2>2. CASE queue' = all
    BY <2>2
  <2>3. CASE queue' = SubSeq(all, 1, QueueSize) /\ Len(all) > QueueSize
    <3>1. QueueSize \in Nat /\ QueueSize <= Len(all)
      BY <1>1, <2>3, AppAssumption DEF AppAssumption, App!QueueAssumption
    <3>2. DOMAIN queue' = 1..QueueSize /\ \A j \in 1..QueueSize : queue'[j] = all[j]
      BY <1>1, <2>3, <3>1
    <3> QED BY <1>1, <3>1, <3>2
  <2> QED BY <2>1, <2>2, <2>3
<1> QED BY <1>2, <1>3

LEMMA PostsOther ==
    ASSUME App!TypeOK, NEW e \in App!AppEvent, e # App!Release("Switch"), App!PostEvent(e)
    PROVE  Awaiting' \subseteq Awaiting
<1>1. <<e>> \in Seq(App!AppEvent) /\ \A j \in DOMAIN <<e>> : <<e>>[j] = e
  OBVIOUS
<1>2. App!PostEvents(<<e>>)
  BY DEF App!PostEvent
<1> QED BY <1>1, <1>2, Posted DEF Awaiting

\* A button scan posts at most one release of the switch, and only then counts one.
LEMMA ScanPosts ==
    ASSUME App!TypeOK, NEW changed \in SUBSET UserPins, App!ButtonEventHandler(changed)
    PROVE  IF "Switch" \in changed \cap pressed
           THEN \E k : Awaiting' \subseteq Awaiting \cup {k}
           ELSE Awaiting' \subseteq Awaiting
<1> DEFINE f == App!Scan("Function", changed)
           s == App!Scan("Switch", changed)
           b == App!ScanBLEStart(changed)
           es == f \o s \o b
           r == App!Release("Switch")
<1>1. /\ f \in Seq(App!AppEvent) /\ s \in Seq(App!AppEvent) /\ b \in Seq(App!AppEvent)
  <2>1. /\ "Function" \in App!Pin /\ "Switch" \in App!Pin /\ App!StartBLE \in App!AppEvent
        /\ \A p \in App!Pin : App!Push(p) \in App!AppEvent /\ App!Release(p) \in App!AppEvent
    BY DEF App!AppEvent, App!Pin
  <2> QED BY <2>1 DEF App!Scan, App!ScanBLEStart
<1>2. /\ \A j \in DOMAIN f : f[j] # r
      /\ \A j \in DOMAIN b : b[j] # r
      /\ Len(s) <= 1
      /\ "Switch" \notin changed \cap pressed => \A j \in DOMAIN s : s[j] # r
  BY DEF App!Scan, App!ScanBLEStart, App!Push, App!Release, App!StartBLE
<1>3. App!PostEvents(es)
  BY DEF App!ButtonEventHandler
<1> HIDE DEF f, s, b, r
<1>4. es \in Seq(App!AppEvent) /\ Len(es) = Len(f) + Len(s) + Len(b)
  BY <1>1
<1>5. ASSUME NEW j \in DOMAIN es, es[j] = r
      PROVE  j = Len(f) + 1 /\ "Switch" \in changed \cap pressed
  <2>1. CASE j \in 1..Len(f)
    <3>1. es[j] = f[j]
      BY <1>1, <2>1
    <3> QED BY <1>1, <1>2, <1>5, <2>1, <3>1
  <2>2. CASE j \in (Len(f) + 1)..(Len(f) + Len(s))
    <3>1. es[j] = s[j - Len(f)] /\ j - Len(f) \in DOMAIN s
      BY <1>1, <2>2
    <3> QED BY <1>1, <1>2, <1>5, <2>2, <3>1
  <2>3. CASE j \in (Len(f) + Len(s) + 1)..(Len(f) + Len(s) + Len(b))
    <3>1. es[j] = b[j - (Len(f) + Len(s))] /\ j - (Len(f) + Len(s)) \in DOMAIN b
      BY <1>1, <2>3
    <3> QED BY <1>2, <1>5, <3>1
  <2>4. Len(f) \in Nat /\ Len(s) \in Nat /\ Len(b) \in Nat /\ j \in 1..Len(es)
    BY <1>1, <1>4
  <2> QED BY <1>4, <2>1, <2>2, <2>3, <2>4
<1> HIDE DEF es
<1>6. ASSUME NEW k \in Awaiting'
      PROVE  \/ k \in Awaiting
             \/ k = Len(queue) + (Len(f) + 1) /\ "Switch" \in changed \cap pressed
  <2>1. k \in DOMAIN queue' /\ queue'[k] = r
    BY DEF Awaiting, r
  <2> QED BY <1>3, <1>4, <1>5, <2>1, Posted DEF Awaiting, r
<1> QED BY <1>6

\* The event that is taken moves from the queue into the hands of the thread.
LEMMA GetsRelease ==
    ASSUME App!TypeOK, App!GetEvent
    PROVE  IF event' = App!Release("Switch")
           THEN Cardinality(Awaiting') + 1 <= Cardinality(Awaiting)
           ELSE Cardinality(Awaiting') <= Cardinality(Awaiting)
<1> DEFINE A == IF event' = App!Release("Switch") THEN Awaiting \ {1} ELSE Awaiting
           f == [k \in Awaiting' |-> k + 1]
<1>1. /\ queue \in Seq(App!AppEvent) /\ queue # <<>>
      /\ queue' = Tail(queue) /\ event' = Head(queue)
  BY DEF App!TypeOK, App!GetEvent
<1>2. /\ 1 \in DOMAIN queue /\ event' = queue[1]
      /\ \A k \in DOMAIN queue' : /\ k \in Nat /\ k + 1 \in DOMAIN queue /\ k + 1 # 1
                                  /\ queue'[k] = queue[k + 1]
  BY <1>1
<1>3. IsFiniteSet(Awaiting) /\ Cardinality(Awaiting) \in Nat
  <2>1. Len(queue) \in Int /\ Awaiting \subseteq 1..Len(queue)
    BY <1>1 DEF Awaiting
  <2>2. IsFiniteSet(1..Len(queue))
    BY <2>1, FS_Interval
  <2> QED BY <2>1, <2>2, FS_Subset, FS_CardinalityType
<1>4. f \in Injection(Awaiting', A)
  <2>1. \A k \in Awaiting' : k \in Nat /\ f[k] = k + 1 /\ f[k] \in A
    BY <1>2 DEF Awaiting
  <2> QED BY <2>1 DEF Injection, IsInjective
<1>5. IsFiniteSet(A) /\ Cardinality(A) =
          IF event' = App!Release("Switch") THEN Cardinality(Awaiting) - 1
                                            ELSE Cardinality(Awaiting)
  <2>1. event' = App!Release("Switch") => 1 \in Awaiting
    BY <1>2 DEF Awaiting
  <2> QED BY <1>3, <2>1, FS_RemoveElement
<1>6. Cardinality(Awaiting') <= Cardinality(A) /\ Cardinality(Awaiting') \in Nat
  BY <1>4, <1>5, FS_Injection, FS_CardinalityType
<1> QED BY <1>3, <1>5, <1>6

LEMMA AskToggles ==
    ASSUME Typed, NEW action \in {"Toggle", "On", "Level"}, Ask(action)
    PROVE  /\ Toggles' \subseteq Toggles \cup {requests + 1}
           /\ action # "Toggle" => Toggles' \subseteq Toggles
<1>1. requests \in Nat /\ asked \in Seq({"Toggle", "On", "Level"}) /\ Len(asked) = requests
  BY DEF Typed, HistoryOK, Binding!TypeOK
<1>2. \/ asked' = asked /\ requests' = requests
      \/ asked' = Append(asked, action) /\ requests' = requests + 1
  BY DEF Ask, bindingVars, Binding!DimmerChangeBrightness, Binding!InitiateActionSwitch,
         Binding!Request
<1>3. CASE asked' = asked /\ requests' = requests
  BY <1>3 DEF Toggles
<1>4. CASE asked' = Append(asked, action) /\ requests' = requests + 1
  <2>1. \A i \in 1..requests' : \/ i \in 1..requests /\ asked'[i] = asked[i]
                                \/ i = requests + 1 /\ asked'[i] = action
    BY <1>1, <1>4
  <2> QED BY <2>1 DEF Toggles
<1> QED BY <1>2, <1>3, <1>4

LEMMA CountTypes ==
    ASSUME Typed
    PROVE  /\ IsFiniteSet(Toggles) /\ Cardinality(Toggles) \in Nat
           /\ IsFiniteSet(Awaiting) /\ Cardinality(Awaiting) \in Nat
           /\ Held \in {0, 1} /\ releases \in Nat
<1>1. requests \in Int /\ Len(queue) \in Int /\ releases \in Nat
      /\ Toggles \subseteq 1..requests /\ Awaiting \subseteq 1..Len(queue)
  BY ReleaseAssumption DEF Typed, HistoryOK, Binding!TypeOK, App!TypeOK, Toggles, Awaiting
<1>2. IsFiniteSet(1..requests) /\ IsFiniteSet(1..Len(queue))
  BY <1>1, FS_Interval
<1> QED BY <1>1, <1>2, FS_Subset, FS_CardinalityType DEF Held

\* S grows by at most one element.
LEMMA AddsOne ==
    ASSUME NEW S, IsFiniteSet(S), NEW T, NEW x, T \subseteq S \cup {x}
    PROVE  /\ Cardinality(S) \in Nat /\ Cardinality(T) \in Nat
           /\ Cardinality(T) <= Cardinality(S) + 1
           /\ T \subseteq S => Cardinality(T) <= Cardinality(S)
<1>1. /\ IsFiniteSet(S \cup {x}) /\ Cardinality(S) \in Nat
      /\ Cardinality(S \cup {x}) \in {Cardinality(S), Cardinality(S) + 1}
  BY FS_AddElement, FS_CardinalityType
<1>2. /\ IsFiniteSet(T) /\ Cardinality(T) \in Nat
      /\ Cardinality(T) <= Cardinality(S \cup {x})
  BY <1>1, FS_Subset, FS_CardinalityType
<1>3. T \subseteq S => Cardinality(T) <= Cardinality(S)
  BY FS_Subset
<1> QED BY <1>1, <1>2, <1>3

\* A step that takes no request to toggle and no release.
LEMMA CountKept ==
    ASSUME Typed, Typed', ReleasesCounted, Toggles' \subseteq Toggles,
           Awaiting' \subseteq Awaiting, releases' = releases,
           event' = event \/ event' # App!Release("Switch")
    PROVE  ReleasesCounted'
<1>1. Cardinality(Toggles') <= Cardinality(Toggles)
      /\ Cardinality(Awaiting') <= Cardinality(Awaiting)
  BY CountTypes, FS_Subset
<1>2. Held' <= Held
  BY CountTypes DEF Held
<1>3. /\ Cardinality(Toggles) \in Nat /\ Cardinality(Awaiting) \in Nat /\ Held \in {0, 1}
      /\ releases \in Nat
  BY CountTypes
<1>4. /\ Cardinality(Toggles') \in Nat /\ Cardinality(Awaiting') \in Nat /\ Held' \in {0, 1}
  <2>1. /\ IsFiniteSet(Toggles') /\ IsFiniteSet(Awaiting')
    BY CountTypes, FS_Subset
  <2> QED BY <2>1, FS_CardinalityType DEF Held
<1> QED BY <1>1, <1>2, <1>3, <1>4 DEF ReleasesCounted

\* The handlers that ask for nothing leave the releases where they are.
LEMMA HandlersKeep ==
    ASSUME App!TypeOK, event \notin Asking,
           App!DispatchEvent
    PROVE  queue' = queue /\ event' # App!Release("Switch")
<1>1. event # App!Release("Switch") /\ event # App!Expired("DimmerTrigger")
      /\ event # App!Expired("Dimmer")
  BY DEF Asking
<1> USE DEF App!NoEvent, App!Release, App!OpenWindow, App!WriteStatusLed, App!Return
<1>2. CASE App!FunctionReleased \/ App!FunctionReleasedInReset
  BY <1>2 DEF App!FunctionReleased, App!FunctionReleasedInReset, App!BeginUpdateStatusLED
<1>3. CASE App!StartBLEAdvertisementHandler
  BY <1>3 DEF App!StartBLEAdvertisementHandler
<1>4. CASE \/ App!FunctionPushed \/ App!SwitchPushed \/ App!FactoryResetTriggered
           \/ App!FactoryResetDone \/ \E l \in App!Led : App!UpdateLedStateEventHandler(l)
           \/ App!IdentifyStarted \/ App!IdentifyStopped \/ App!OpenBasicCommissioningWindow
           \/ \E p \in App!Pattern : App!StatusLedWritten(p)
  BY <1>4
  DEF App!FunctionPushed, App!SwitchPushed, App!FactoryResetTriggered, App!FactoryResetDone,
      App!UpdateLedStateEventHandler, App!IdentifyStarted, App!IdentifyStopped,
      App!OpenBasicCommissioningWindow, App!StatusLedWritten
<1>5. CASE App!SwitchReleasedStartsBLE \/ App!SwitchReleased
  BY <1>1, <1>5 DEF App!SwitchReleasedStartsBLE, App!SwitchReleased
<1>6. CASE App!DimmingStarted \/ App!DimmerTick
  BY <1>1, <1>6 DEF App!DimmingStarted, App!DimmerTick
<1> QED BY <1>2, <1>3, <1>4, <1>5, <1>6 DEF App!DispatchEvent

LEMMA CountStep ==
    ASSUME Typed, Typed', ReleasesCounted, [Next]_vars
    PROVE  ReleasesCounted'
<1>0. /\ IsFiniteSet(Toggles) /\ Cardinality(Toggles) \in Nat
      /\ IsFiniteSet(Awaiting) /\ Cardinality(Awaiting) \in Nat
      /\ Held \in {0, 1} /\ releases \in Nat /\ App!TypeOK
  BY CountTypes DEF Typed
<1>1. CASE SwitchReleased
  <2>1. event = App!Release("Switch") /\ event' # App!Release("Switch")
        /\ queue' = queue /\ releases' = releases
    BY <1>1 DEF SwitchReleased, App!SwitchReleased, App!Return, App!NoEvent, App!Release
  <2>2. Toggles' \subseteq Toggles \cup {requests + 1}
    BY <1>1, AskToggles DEF SwitchReleased, bindingVars, Toggles
  <2>3. Cardinality(Toggles') \in Nat /\ Cardinality(Toggles') <= Cardinality(Toggles) + 1
    BY <1>0, <2>2, AddsOne
  <2>4. Held = 1 /\ Held' = 0 /\ Awaiting' = Awaiting
    BY <2>1 DEF Held, Awaiting
  <2> QED BY <1>0, <2>1, <2>3, <2>4 DEF ReleasesCounted
<1>2. CASE DimmingStarted \/ DimmerTick
  <2>1. event' # App!Release("Switch") /\ queue' = queue /\ releases' = releases
    BY <1>2 DEF DimmingStarted, DimmerTick, App!DimmingStarted, App!DimmerTick, App!Return,
                App!NoEvent, App!Release
  <2>2. Toggles' \subseteq Toggles
    BY <1>2, AskToggles DEF DimmingStarted, DimmerTick
  <2> QED BY <2>1, <2>2, CountKept DEF Awaiting
<1>3. CASE App!GetEvent /\ UNCHANGED <<bindingVars, history>>
  <2>1. Toggles' = Toggles /\ releases' = releases
    BY <1>3 DEF bindingVars, history, Toggles
  <2>2. Held = 0
    BY <1>3 DEF App!GetEvent, App!NoEvent, App!Release, Held
  <2>3. Cardinality(Awaiting') + Held' <= Cardinality(Awaiting) /\ Cardinality(Awaiting') \in Nat
        /\ Held' \in {0, 1}
    <3>1. Cardinality(Awaiting') \in Nat
      <4>1. IsFiniteSet(Awaiting')
        <5>1. Len(queue') \in Int /\ Awaiting' \subseteq 1..Len(queue')
          BY DEF Typed, App!TypeOK, Awaiting
        <5>2. IsFiniteSet(1..Len(queue'))
          BY <5>1, FS_Interval
        <5> QED BY <5>1, <5>2, FS_Subset
      <4> QED BY <4>1, FS_CardinalityType
    <3> QED BY <1>0, <1>3, <3>1, GetsRelease DEF Held
  <2> QED BY <1>0, <2>1, <2>2, <2>3 DEF ReleasesCounted
<1>4. CASE /\ event \notin Asking /\ App!DispatchEvent
           /\ UNCHANGED <<bindingVars, history>>
  <2>1. Toggles' = Toggles /\ releases' = releases
    BY <1>4 DEF bindingVars, history, Toggles
  <2> QED BY <1>0, <1>4, <2>1, HandlersKeep, CountKept DEF Awaiting
<1>5. CASE App!SwitchReleasedStartsBLE /\ UNCHANGED <<bindingVars, history>>
  <2>1. Toggles' = Toggles /\ releases' = releases /\ event' # App!Release("Switch")
    BY <1>5 DEF bindingVars, history, Toggles, App!SwitchReleasedStartsBLE, App!Return,
                App!NoEvent, App!Release
  <2>2. App!StartBLE \in App!AppEvent /\ App!StartBLE # App!Release("Switch")
    BY DEF App!AppEvent, App!StartBLE, App!Release
  <2>3. Awaiting' \subseteq Awaiting
    BY <1>0, <1>5, <2>2, PostsOther DEF App!SwitchReleasedStartsBLE
  <2> QED BY <2>1, <2>3, CountKept
<1>6. ASSUME NEW t \in App!Timer, App!FunctionTimerTimeoutCallback(t),
             UNCHANGED <<bindingVars, history>>
      PROVE  ReleasesCounted'
  <2>1. Toggles' = Toggles /\ releases' = releases /\ event' = event
    BY <1>6 DEF bindingVars, history, Toggles, App!FunctionTimerTimeoutCallback
  <2>2. App!Expired(t) \in App!AppEvent /\ App!Expired(t) # App!Release("Switch")
    BY DEF App!AppEvent, App!Expired, App!Release
  <2>3. Awaiting' \subseteq Awaiting
    BY <1>0, <1>6, <2>2, PostsOther DEF App!FunctionTimerTimeoutCallback
  <2> QED BY <2>1, <2>3, CountKept
<1>7. ASSUME NEW changed \in SUBSET UserPins, ButtonEventHandler(changed)
      PROVE  ReleasesCounted'
  <2>1. App!ButtonEventHandler(changed) /\ event' = event /\ Toggles' = Toggles
        /\ releases' = releases + Cardinality({"Switch"} \cap changed \cap pressed)
    BY <1>7 DEF ButtonEventHandler, App!ButtonEventHandler, bindingVars, Toggles
  <2>2. CASE "Switch" \in changed \cap pressed
    <3>1. PICK k : Awaiting' \subseteq Awaiting \cup {k}
      BY <1>0, <2>1, <2>2, ScanPosts
    <3>2. {"Switch"} \cap changed \cap pressed = {"Switch"}
      BY <2>2
    <3>3. releases' = releases + 1
      BY <2>1, <3>2, FS_Singleton
    <3>4. Cardinality(Awaiting') \in Nat /\ Cardinality(Awaiting') <= Cardinality(Awaiting) + 1
      BY <1>0, <3>1, AddsOne
    <3> QED BY <1>0, <2>1, <3>3, <3>4 DEF ReleasesCounted, Held
  <2>3. CASE "Switch" \notin changed \cap pressed
    <3>1. Awaiting' \subseteq Awaiting
      BY <1>0, <2>1, <2>3, ScanPosts
    <3>2. {"Switch"} \cap changed \cap pressed = {}
      BY <2>3
    <3>3. releases' = releases
      BY <1>0, <2>1, <3>2, FS_EmptySet
    <3> QED BY <2>1, <3>1, <3>3, CountKept
  <2> QED BY <2>2, <2>3
<1>8. CASE FabricChange \/ BindingAlone \/ UNCHANGED vars
  <2>1. queue' = queue /\ event' = event /\ asked' = asked /\ releases' = releases
    BY <1>8 DEF FabricChange, App!FabricChange, BindingAlone, vars, appVars, history
  <2>2. requests' = requests
    BY <2>1 DEF Typed, HistoryOK
  <2> QED BY <2>1, <2>2, CountKept DEF Awaiting, Toggles
<1> QED BY <1>1, <1>2, <1>3, <1>4, <1>5, <1>6, <1>7, <1>8 DEF Next, AppAlone

LEMMA CountInit == Init => ReleasesCounted
<1> SUFFICES ASSUME Init PROVE ReleasesCounted
  OBVIOUS
<1>1. queue = <<>> /\ event = App!NoEvent /\ requests = 0 /\ releases = 0
  BY DEF Init, App!Init, Binding!Init
<1>2. Awaiting = {} /\ Toggles = {} /\ Held = 0
  BY <1>1 DEF Awaiting, Toggles, Held, App!NoEvent, App!Release
<1> QED BY <1>1, <1>2, FS_EmptySet DEF ReleasesCounted

LEMMA Counted == Spec => [](Typed /\ ReleasesCounted)
<1>1. Spec => []Typed
  <2>1. TypeOK => Typed
    BY DEF TypeOK, Typed, HistoryOK
  <2> QED BY <2>1, TypeCorrect, PTL
<1>2. Typed /\ Typed' /\ ReleasesCounted /\ [Next]_vars => ReleasesCounted'
  BY CountStep
<1> QED BY <1>1, <1>2, CountInit, PTL DEF Spec
----------------------------------------------------------------------------
(***************************************************************************)
(* What is proved about the retransmission, in the words of this module.   *)
(***************************************************************************)
LEMMA SameCardinality ==
    \A S : BindingProved!Cardinality(S) = Cardinality(S)
           /\ Binding!Cardinality(S) = Cardinality(S)
BY DEF BindingProved!Cardinality, Binding!Cardinality, Cardinality

\* However many lights are bound and whatever is lost, no light is told to toggle
\* more often than the switch was let go and a session was recovered.
THEOREM TogglesAreSent ==
    Spec => [](\A d \in Device : Toggled(d) <= releases + recoveries)
<1> DEFINE Sent == \A d \in Device : Toggled(d) <= releases + recoveries
<1>1. BindingProved!Spec => []BindingProved!AppliedAsSent
  BY BindingProvedAssumptions, BindingProved!AppliedSent
<1>2. BindingProved!Spec => []BindingProved!CarriedIsFinite
  BY BindingProvedAssumptions, BindingProved!CarriedOutFinite
<1>3. ASSUME Typed, ReleasesCounted, BindingProved!AppliedAsSent,
             BindingProved!CarriedIsFinite, NEW d \in Device
      PROVE  Toggled(d) <= releases + recoveries
  <2>1. BindingProved!CarriedOut(d, Toggles) = Binding!CarriedOut(d, Toggles)
    BY DEF BindingProved!CarriedOut, Binding!CarriedOut
  <2>2. Toggles \in SUBSET (1..requests)
    BY DEF Toggles
  <2>3. Toggled(d) <= Cardinality(Toggles) + recoveries
    BY <1>3, <2>1, <2>2, SameCardinality DEF BindingProved!AppliedAsSent, Toggled
  <2>4. /\ Cardinality(Toggles) \in Nat /\ Cardinality(Awaiting) \in Nat /\ Held \in {0, 1}
        /\ releases \in Nat /\ recoveries \in Nat
    BY <1>3, CountTypes DEF Typed, Binding!TypeOK
  <2>5. Cardinality(Toggles) <= releases
    BY <1>3, <2>4 DEF ReleasesCounted
  <2>6. Toggled(d) \in Nat
    <3>1. \A S : BindingProved!IsFiniteSet(S) <=> IsFiniteSet(S)
      BY DEF BindingProved!IsFiniteSet, IsFiniteSet
    <3>2. IsFiniteSet(Binding!CarriedOut(d, Toggles))
      BY <1>3, <2>1, <2>2, <3>1 DEF BindingProved!CarriedIsFinite
    <3> QED BY <3>2, SameCardinality, FS_CardinalityType DEF Toggled
  <2> QED BY <2>3, <2>4, <2>5, <2>6
<1>4. Typed /\ ReleasesCounted /\ BindingProved!AppliedAsSent
        /\ BindingProved!CarriedIsFinite => Sent
  BY <1>3
<1> HIDE DEF Sent
<1>5. Spec => []Sent
  BY <1>1, <1>2, <1>4, Counted, RunsComponents, BindingProvedSpec, PTL
<1> QED BY <1>5 DEF Sent

\* With one light, and where no response is lost, the light is told to toggle no
\* more often than the switch was let go.
THEOREM TogglesReleased ==
    ASSUME \A d, e \in Device : d = e, "response" \notin Faults
    PROVE  Spec => []TogglesAreReleases
<1>1. ASSUME Typed, ReleasesCounted, AppliedAtMostOnce, NEW d \in Device
      PROVE  Toggled(d) <= releases
  <2> DEFINE P == { <<i, 1>> : i \in Toggles }
             f == [i \in Toggles |-> <<i, 1>>]
  <2>1. f \in Surjection(Toggles, P)
    BY DEF Surjection
  <2>2. IsFiniteSet(P) /\ Cardinality(P) <= Cardinality(Toggles)
    BY <1>1, <2>1, CountTypes, FS_Surjection
  <2>3. Binding!CarriedOut(d, Toggles) \subseteq P
    <3>1. ASSUME NEW i \in Toggles, NEW n \in 1..applied[d][i]
          PROVE  n = 1
      <4>1. i \in 1..MaxRequests
        BY <1>1, BindingAssumption
        DEF Typed, Binding!TypeOK, Toggles, BindingAssumption, Binding!BoundAssumption
      <4>2. applied[d][i] \in Nat /\ applied[d][i] <= 1
        BY <1>1, <4>1 DEF Typed, Binding!TypeOK, AppliedAtMostOnce, Binding!AppliedAtMostOnce
      <4> QED BY <4>2
    <3> QED BY <3>1 DEF Binding!CarriedOut
  <2> HIDE DEF P
  <2>4. Cardinality(Binding!CarriedOut(d, Toggles)) <= Cardinality(P)
        /\ Cardinality(Binding!CarriedOut(d, Toggles)) \in Nat
        /\ Cardinality(P) \in Nat
    BY <2>2, <2>3, FS_Subset, FS_CardinalityType
  <2>5. Toggled(d) = Cardinality(Binding!CarriedOut(d, Toggles))
    BY SameCardinality DEF Toggled
  <2> QED BY <1>1, <2>2, <2>4, <2>5, CountTypes DEF ReleasesCounted
<1>2. Typed /\ ReleasesCounted /\ AppliedAtMostOnce => TogglesAreReleases
  BY <1>1 DEF TogglesAreReleases
<1>3. Spec => []AppliedAtMostOnce
  BY AppliedOnce
<1> QED BY <1>2, <1>3, Counted, PTL
============================================================================
