--------------------------- MODULE AppTaskProofs ---------------------------
(***************************************************************************)
(* Theorems about AppTask, for every board, configuration, queue size and  *)
(* behaviour of the user, the timers and the CHIP thread.                  *)
(***************************************************************************)
EXTENDS AppTask, SequenceTheorems, TLAPS

(***************************************************************************)
(* The message queue.  What was queued stays where it was, the bound       *)
(* holds, and what is posted is in the queue unless something was lost.    *)
(***************************************************************************)
LEMMA EnqueueType ==
    ASSUME queue \in Seq(AppEvent), Len(queue) <= QueueSize, NEW es \in Seq(AppEvent)
    PROVE  Enqueue(es) \in Seq(AppEvent) /\ Len(Enqueue(es)) <= QueueSize
<1> DEFINE all == queue \o es
<1>1. all \in Seq(AppEvent) /\ Len(all) = Len(queue) + Len(es)
  OBVIOUS
<1>2. CASE Len(queue) + Len(es) <= QueueSize
  BY <1>1, <1>2 DEF Enqueue
<1>3. CASE ~(Len(queue) + Len(es) <= QueueSize)
  <2>1. Len(all) \in Nat /\ QueueSize \in Nat /\ Len(all) > QueueSize
    BY <1>1, <1>3, QueueAssumption
  <2>2. SubSeq(all, 1, QueueSize) \in Seq(AppEvent) /\ Len(SubSeq(all, 1, QueueSize)) = QueueSize
    BY <1>1, <2>1, SubSeqProperties
  <2> QED BY <1>3, <2>1, <2>2 DEF Enqueue
<1> QED BY <1>2, <1>3

LEMMA EnqueueKeeps ==
    ASSUME queue \in Seq(AppEvent), Len(queue) <= QueueSize, NEW es \in Seq(AppEvent),
           NEW i \in DOMAIN queue
    PROVE  i \in DOMAIN Enqueue(es) /\ Enqueue(es)[i] = queue[i]
<1> DEFINE all == queue \o es
<1>1. /\ all \in Seq(AppEvent) /\ Len(all) = Len(queue) + Len(es)
      /\ i \in 1..Len(queue) /\ all[i] = queue[i]
  OBVIOUS
<1>2. CASE Len(queue) + Len(es) <= QueueSize
  BY <1>1, <1>2 DEF Enqueue
<1>3. CASE ~(Len(queue) + Len(es) <= QueueSize)
  <2>1. Len(all) \in Nat /\ QueueSize \in Nat /\ Len(all) > QueueSize /\ i \in 1..QueueSize
    BY <1>1, <1>3, QueueAssumption
  <2>2. /\ DOMAIN SubSeq(all, 1, QueueSize) = 1..QueueSize
        /\ SubSeq(all, 1, QueueSize)[i] = all[i]
    BY <1>1, <2>1, SubSeqProperties
  <2> QED BY <1>1, <1>3, <2>1, <2>2 DEF Enqueue
<1> QED BY <1>2, <1>3

LEMMA EnqueuePosts ==
    ASSUME queue \in Seq(AppEvent), NEW e \in AppEvent,
           Len(queue) + Len(<<e>>) <= QueueSize
    PROVE  \E i \in DOMAIN Enqueue(<<e>>) : Enqueue(<<e>>)[i] = e
<1>1. Enqueue(<<e>>) = Append(queue, e)
  BY DEF Enqueue
<1>2. Len(queue) + 1 \in DOMAIN Append(queue, e) /\ Append(queue, e)[Len(queue) + 1] = e
  OBVIOUS
<1> QED BY <1>1, <1>2
----------------------------------------------------------------------------
(***************************************************************************)
(* Type correctness.                                                       *)
(***************************************************************************)
LEMMA EventTypes ==
    /\ StartBLE \in AppEvent /\ IdentifyStart \in AppEvent /\ IdentifyStop \in AppEvent
    /\ \A t \in Timer : Expired(t) \in AppEvent
    /\ \A l \in Led : UpdateLed(l) \in AppEvent
    /\ \A p \in Pin : Push(p) \in AppEvent /\ Release(p) \in AppEvent
    /\ "Function" \in Pin /\ "Switch" \in Pin
BY DEF AppEvent, Pin

LEMMA PostEventType ==
    ASSUME queue \in Seq(AppEvent), Len(queue) <= QueueSize, lost \in BOOLEAN,
           NEW e \in AppEvent, PostEvent(e)
    PROVE  queue' \in Seq(AppEvent) /\ Len(queue') <= QueueSize /\ lost' \in BOOLEAN
<1>1. <<e>> \in Seq(AppEvent)
  OBVIOUS
<1> QED BY <1>1, EnqueueType DEF PostEvent, PostEvents

LEMMA ShowType ==
    ASSUME leds \in [Led -> Pattern], ledTimers \subseteq Led,
           NEW patterns, \A l \in DOMAIN patterns : l \in Led /\ patterns[l] \in Pattern,
           Show(patterns)
    PROVE  leds' \in [Led -> Pattern] /\ ledTimers' \subseteq Led
BY DEF Show

LEMMA LedNames == "status" \in Led /\ "identify" \in Led
BY DEF Led

LEMMA UpdateStatusLEDType ==
    ASSUME leds \in [Led -> Pattern], ledTimers \subseteq Led,
           NEW r \in BOOLEAN, NEW b \in BOOLEAN, UpdateStatusLED(r, b)
    PROVE  leds' \in [Led -> Pattern] /\ ledTimers' \subseteq Led
<1>1. StatusPattern(r, b) \in Pattern /\ "off" \in Pattern
  BY DEF StatusPattern, Pattern, Blinks
<1>2. CASE StateLeds
  BY <1>1, <1>2, ShowType DEF UpdateStatusLED
<1>3. CASE ~StateLeds
  BY <1>3 DEF UpdateStatusLED, ledVars
<1> QED BY <1>2, <1>3

LEMMA BootTypes ==
    BootLeds \in [Led -> Pattern] /\ BootLedTimers \subseteq Led
BY DEF BootLeds, BootLedTimers, Led, Pattern, Blinks

LEMMA EmptyQueueType == <<>> \in Seq(AppEvent) /\ Len(<<>>) <= QueueSize
BY QueueAssumption

LEMMA TypeInit == Init => TypeOK
BY BootTypes, EmptyQueueType, ActorAssumption
DEF Init, TypeOK, Request, NoneSelected, SoftwareUpdate, FactoryReset

LEMMA TypeStep == TypeOK /\ [Next]_vars => TypeOK'
<1> SUFFICES ASSUME TypeOK, [Next]_vars PROVE TypeOK'
  OBVIOUS
<1> USE DEF vars, appVars, chipVars, ledVars
<1>1. ASSUME NEW changed \in SUBSET UserPins, ButtonEventHandler(changed)
      PROVE  TypeOK'
  <2> DEFINE es == Scan("Function", changed) \o Scan("Switch", changed) \o ScanBLEStart(changed)
  <2>1. \A p \in {"Function", "Switch"} : Scan(p, changed) \in Seq(AppEvent)
    BY EventTypes DEF Scan
  <2>2. ScanBLEStart(changed) \in Seq(AppEvent)
    BY EventTypes DEF ScanBLEStart
  <2>3. es \in Seq(AppEvent)
    BY <2>1, <2>2
  <2>4. PostEvents(es)
    BY <1>1 DEF ButtonEventHandler
  <2>5. queue' \in Seq(AppEvent) /\ Len(queue') <= QueueSize /\ lost' \in BOOLEAN
    BY <2>3, <2>4, EnqueueType DEF PostEvents, TypeOK
  <2>6. pressed' \subseteq Pin
    BY <1>1, ActorAssumption DEF ButtonEventHandler, TypeOK
  <2> QED BY <1>1, <2>5, <2>6 DEF ButtonEventHandler, TypeOK
<1>2. ASSUME NEW t \in Timer, FunctionTimerTimeoutCallback(t)
      PROVE  TypeOK'
  BY <1>2, EventTypes, PostEventType DEF FunctionTimerTimeoutCallback, TypeOK
<1>3. ASSUME NEW l \in Led, LEDStateUpdateHandler(l)
      PROVE  TypeOK'
  BY <1>3, EventTypes, PostEventType DEF LEDStateUpdateHandler, TypeOK
<1>4. ASSUME NEW e \in {IdentifyStart, IdentifyStop}, IdentifyHandler(e)
      PROVE  TypeOK'
  BY <1>4, EventTypes, PostEventType DEF IdentifyHandler, TypeOK
<1>5. ASSUME NEW c \in BOOLEAN, BLEAdvertisingChange(c)
      PROVE  TypeOK'
  BY <1>5, UpdateStatusLEDType DEF BLEAdvertisingChange, TypeOK
<1>6. ASSUME NEW r \in BOOLEAN, NetworkStateChange(r)
      PROVE  TypeOK'
  BY <1>6, UpdateStatusLEDType DEF NetworkStateChange, TypeOK
<1>7. CASE FabricChange
  BY <1>7 DEF FabricChange, TypeOK
<1>8. CASE Reboot
  BY <1>8, BootTypes, EmptyQueueType
  DEF Reboot, TypeOK, Request, NoneSelected, SoftwareUpdate, FactoryReset
<1>9. CASE GetEvent
  <2>1. Head(queue) \in AppEvent /\ Tail(queue) \in Seq(AppEvent)
        /\ Len(Tail(queue)) <= QueueSize
    BY <1>9, QueueAssumption DEF GetEvent, TypeOK
  <2> QED BY <1>9, <2>1 DEF GetEvent, TypeOK, Request
<1>10. CASE FunctionPushed
  BY <1>10 DEF FunctionPushed, TypeOK, StartTimer, Timer, Return
<1>11. CASE SwitchPushed
  BY <1>11 DEF SwitchPushed, TypeOK, StartTimer, Timer, Return
<1>12. CASE FunctionReleased \/ FunctionReleasedInReset
  <2>1. StatusPattern(sNetworkReady, sHaveBLEConnections) \in Pattern /\ "off" \in Pattern
    BY DEF TypeOK, StatusPattern, Pattern, Blinks
  <2>2. ASSUME BeginUpdateStatusLED
        PROVE  /\ event' \in Continuation \cup {NoEvent}
               /\ leds' \in [Led -> Pattern] /\ ledTimers' \subseteq Led
    <3>1. CASE StateLeds
      BY <2>1, <2>2, <3>1, ShowType DEF BeginUpdateStatusLED, TypeOK, Continuation
    <3>2. CASE ~StateLeds
      BY <2>2, <3>2 DEF BeginUpdateStatusLED, TypeOK
    <3> QED BY <3>1, <3>2
  <2>3. /\ event' \in Continuation \cup {NoEvent}
        /\ leds' \in [Led -> Pattern] /\ ledTimers' \subseteq Led
    BY <1>12, <2>2 DEF FunctionReleased, FunctionReleasedInReset, Return, TypeOK
  <2> QED BY <1>12, <2>3 DEF FunctionReleased, FunctionReleasedInReset, EndOfFunction,
                             TypeOK, CancelTimers, Request
<1>13. CASE SwitchReleasedStartsBLE
  BY <1>13, EventTypes, PostEventType DEF SwitchReleasedStartsBLE, TypeOK, Return
<1>14. CASE SwitchReleased
  BY <1>14 DEF SwitchReleased, TypeOK, CancelTimers, Request, Return
<1>15. CASE FactoryResetTriggered
  <2>1. "500/500" \in Pattern
    BY DEF Pattern, Blinks
  <2>2. leds' \in [Led -> Pattern] /\ ledTimers' \subseteq Led
    BY <1>15, <2>1, ShowType DEF FactoryResetTriggered, TypeOK
  <2> QED BY <1>15, <2>2 DEF FactoryResetTriggered, TypeOK, StartTimer, Timer, Return
<1>16. CASE FactoryResetDone
  BY <1>16 DEF FactoryResetDone, TypeOK, Request, Return
<1>17. CASE DimmingStarted
  BY <1>17 DEF DimmingStarted, TypeOK, Request, Timer, Return
<1>18. CASE DimmerTick
  BY <1>18 DEF DimmerTick, TypeOK, Request, Return
<1>19. ASSUME NEW l \in Led, UpdateLedStateEventHandler(l)
       PROVE  TypeOK'
  BY <1>19 DEF UpdateLedStateEventHandler, TypeOK, Return
<1>20. CASE IdentifyStarted
  <2>1. "500/500" \in Pattern
    BY DEF Pattern, Blinks
  <2> QED BY <1>20, <2>1, ShowType, LedNames DEF IdentifyStarted, TypeOK, Return
<1>21. CASE IdentifyStopped
  <2>1. "off" \in Pattern
    BY DEF Pattern
  <2> QED BY <1>21, <2>1, ShowType, LedNames DEF IdentifyStopped, TypeOK, Return
<1>22. CASE StartBLEAdvertisementHandler
  BY <1>22 DEF StartBLEAdvertisementHandler, TypeOK, Continuation
<1>23. CASE OpenBasicCommissioningWindow
  BY <1>23 DEF OpenBasicCommissioningWindow, TypeOK, Request, Return
<1>24. ASSUME NEW p \in Pattern, StatusLedWritten(p)
       PROVE  TypeOK'
  BY <1>24, ShowType, LedNames DEF StatusLedWritten, EndOfFunction, CancelTimers, TypeOK, Return
<1>25. CASE UNCHANGED vars
  BY <1>25 DEF TypeOK
<1> QED
  BY <1>1, <1>2, <1>3, <1>4, <1>5, <1>6, <1>7, <1>8, <1>9, <1>10, <1>11, <1>12, <1>13,
     <1>14, <1>15, <1>16, <1>17, <1>18, <1>19, <1>20, <1>21, <1>22, <1>23, <1>24, <1>25
  DEF Next, ChipThread, StartApp, DispatchEvent

\* The task's variables keep their types and its queue never holds more than
\* QueueSize events, whatever is posted.
THEOREM TypeCorrect == Spec => []TypeOK
BY TypeInit, TypeStep, PTL DEF Spec
----------------------------------------------------------------------------
(***************************************************************************)
(* The dimmer.                                                             *)
(***************************************************************************)
LEMMA DimmerFlagStep == TypeOK /\ DimmerFlagMatchesTimer /\ [Next]_vars => DimmerFlagMatchesTimer'
<1> SUFFICES ASSUME TypeOK, DimmerFlagMatchesTimer, [Next]_vars
             PROVE  DimmerFlagMatchesTimer'
  OBVIOUS
<1> USE DEF vars, appVars, chipVars, ledVars
<1>1. CASE UNCHANGED <<running, sWasDimmerTriggered>>
  BY <1>1 DEF DimmerFlagMatchesTimer
<1>2. ASSUME NEW t \in Timer, FunctionTimerTimeoutCallback(t)
      PROVE  DimmerFlagMatchesTimer'
  BY <1>2 DEF FunctionTimerTimeoutCallback, DimmerFlagMatchesTimer
<1>3. CASE Reboot
  BY <1>3 DEF Reboot, DimmerFlagMatchesTimer
<1>4. CASE \/ FunctionPushed \/ SwitchPushed \/ FunctionReleased \/ FunctionReleasedInReset
           \/ FactoryResetTriggered \/ \E p \in Pattern : StatusLedWritten(p)
  BY <1>4 DEF FunctionPushed, SwitchPushed, FunctionReleased, FunctionReleasedInReset,
     EndOfFunction, FactoryResetTriggered, StatusLedWritten, StartTimer, CancelTimers,
     DimmerFlagMatchesTimer
<1>5. CASE SwitchReleased
  BY <1>5 DEF SwitchReleased, CancelTimers, DimmerFlagMatchesTimer
<1>6. CASE DimmingStarted
  BY <1>6 DEF DimmingStarted, DimmerFlagMatchesTimer
<1>7. CASE \/ \E changed \in SUBSET UserPins : ButtonEventHandler(changed)
           \/ \E l \in Led : LEDStateUpdateHandler(l) \/ UpdateLedStateEventHandler(l)
           \/ \E e \in {IdentifyStart, IdentifyStop} : IdentifyHandler(e)
           \/ \E b \in BOOLEAN : BLEAdvertisingChange(b) \/ NetworkStateChange(b)
           \/ FabricChange \/ GetEvent
  BY <1>1, <1>7 DEF ButtonEventHandler, LEDStateUpdateHandler, UpdateLedStateEventHandler,
     IdentifyHandler, BLEAdvertisingChange, NetworkStateChange, FabricChange, GetEvent
<1>8. CASE \/ SwitchReleasedStartsBLE \/ FactoryResetDone \/ DimmerTick
           \/ IdentifyStarted \/ IdentifyStopped \/ StartBLEAdvertisementHandler
           \/ OpenBasicCommissioningWindow
  BY <1>1, <1>8 DEF SwitchReleasedStartsBLE, FactoryResetDone, DimmerTick, IdentifyStarted,
     IdentifyStopped, StartBLEAdvertisementHandler, OpenBasicCommissioningWindow
<1>9. CASE UNCHANGED vars
  BY <1>1, <1>9
<1> QED
  BY <1>2, <1>3, <1>4, <1>5, <1>6, <1>7, <1>8, <1>9 DEF Next, ChipThread, StartApp, DispatchEvent

\* The dimmer timer runs exactly while sWasDimmerTriggered says so: no order of
\* presses, releases, stale expiries and fabric changes leaves a timer that the
\* next release would not stop, or makes it toggle a light that is dimming.
THEOREM DimmerFlagCorrect == Spec => []DimmerFlagMatchesTimer
<1>1. Init => DimmerFlagMatchesTimer
  BY DEF Init, DimmerFlagMatchesTimer
<1> QED BY <1>1, DimmerFlagStep, TypeCorrect, PTL DEF Spec
----------------------------------------------------------------------------
(***************************************************************************)
(* What happens to an event that is waiting: it goes on waiting until it   *)
(* is dispatched or the board restarts.                                    *)
(***************************************************************************)
Queued(e) == \E i \in DOMAIN queue : queue[i] = e

LEMMA PostKeepsQueued ==
    ASSUME TypeOK, NEW es \in Seq(AppEvent), PostEvents(es), NEW e, Queued(e)
    PROVE  Queued(e)'
BY EnqueueKeeps DEF TypeOK, PostEvents, Queued

LEMMA PostMakesPending ==
    ASSUME TypeOK, NEW e \in AppEvent, PostEvent(e)
    PROVE  Pending(e)' \/ lost'
<1>1. CASE Len(queue) + Len(<<e>>) <= QueueSize
  <2>1. \E i \in DOMAIN Enqueue(<<e>>) : Enqueue(<<e>>)[i] = e
    BY <1>1, EnqueuePosts DEF TypeOK
  <2> QED BY <2>1 DEF PostEvent, PostEvents, Pending
<1>2. CASE ~(Len(queue) + Len(<<e>>) <= QueueSize)
  <2>1. Len(queue) + Len(<<e>>) > QueueSize
    BY <1>2, QueueAssumption DEF TypeOK
  <2> QED BY <2>1 DEF PostEvent, PostEvents
<1> QED BY <1>1, <1>2

LEMMA ConcatElements ==
    ASSUME NEW S, NEW s \in Seq(S), NEW t \in Seq(S), NEW e
    PROVE  (\E i \in DOMAIN (s \o t) : (s \o t)[i] = e)
              <=> (\E i \in DOMAIN s : s[i] = e) \/ (\E i \in DOMAIN t : t[i] = e)
<1>1. /\ DOMAIN (s \o t) = 1..(Len(s) + Len(t)) /\ Len(s) \in Nat /\ Len(t) \in Nat
      /\ DOMAIN s = 1..Len(s) /\ DOMAIN t = 1..Len(t)
      /\ \A i \in 1..Len(s) : (s \o t)[i] = s[i]
      /\ \A i \in 1..Len(t) : (s \o t)[Len(s) + i] = t[i]
  OBVIOUS
<1>2. ASSUME NEW i \in DOMAIN (s \o t), (s \o t)[i] = e
      PROVE  (\E j \in DOMAIN s : s[j] = e) \/ (\E j \in DOMAIN t : t[j] = e)
  <2>1. CASE i <= Len(s)
    BY <1>1, <1>2, <2>1
  <2>2. CASE i > Len(s)
    <3>1. i - Len(s) \in 1..Len(t) /\ i = Len(s) + (i - Len(s))
      BY <1>1, <2>2
    <3> QED BY <1>1, <1>2, <3>1
  <2> QED BY <1>1, <2>1, <2>2
<1>3. ASSUME NEW i \in DOMAIN t, t[i] = e
      PROVE  \E j \in DOMAIN (s \o t) : (s \o t)[j] = e
  <2>1. Len(s) + i \in 1..(Len(s) + Len(t)) /\ (s \o t)[Len(s) + i] = e
    BY <1>1, <1>3
  <2> QED BY <1>1, <2>1
<1>4. ASSUME NEW i \in DOMAIN s, s[i] = e
      PROVE  \E j \in DOMAIN (s \o t) : (s \o t)[j] = e
  <2>1. i \in 1..(Len(s) + Len(t)) /\ (s \o t)[i] = e
    BY <1>1, <1>4
  <2> QED BY <1>1, <2>1
<1> QED BY <1>2, <1>3, <1>4

LEMMA ConcatLeft ==
    ASSUME NEW S, NEW s \in Seq(S), NEW t \in Seq(S), NEW i \in DOMAIN s
    PROVE  i \in DOMAIN (s \o t) /\ (s \o t)[i] = s[i]
OBVIOUS

LEMMA ConcatRight ==
    ASSUME NEW S, NEW s \in Seq(S), NEW t \in Seq(S), NEW i \in DOMAIN t
    PROVE  Len(s) + i \in DOMAIN (s \o t) /\ (s \o t)[Len(s) + i] = t[i]
OBVIOUS

\* What a scan posts: the release of a button that was down, and the press of
\* no button but those that are down now.
LEMMA ScanPosts ==
    ASSUME TypeOK, NEW changed, ButtonEventHandler(changed)
    PROVE  \E es \in Seq(AppEvent) :
             /\ PostEvents(es)
             /\ \A p \in {"Function", "Switch"} :
                   /\ p \in pressed \cap changed => \E j \in DOMAIN es : es[j] = Release(p)
                   /\ \A j \in DOMAIN es : es[j] = Push(p) => p \in pressed'
<1> DEFINE f  == Scan("Function", changed)
           s  == Scan("Switch", changed)
           b  == ScanBLEStart(changed)
<1>1. f \in Seq(AppEvent) /\ s \in Seq(AppEvent)
  BY EventTypes DEF Scan
<1>2. b \in Seq(AppEvent)
  BY EventTypes DEF ScanBLEStart
<1>3. (f \o s) \in Seq(AppEvent) /\ (f \o s) \o b \in Seq(AppEvent)
  BY <1>1, <1>2
<1>4. PostEvents((f \o s) \o b)
  BY DEF ButtonEventHandler
<1>5. ASSUME NEW p \in {"Function", "Switch"}, p \in pressed \cap changed
      PROVE  \E j \in DOMAIN ((f \o s) \o b) : ((f \o s) \o b)[j] = Release(p)
  <2>1. Scan(p, changed) = <<Release(p)>>
    BY <1>5 DEF Scan
  <2>2. 1 \in DOMAIN <<Release(p)>> /\ <<Release(p)>>[1] = Release(p)
    OBVIOUS
  <2>3. (\E j \in DOMAIN f : f[j] = Release(p)) \/ (\E j \in DOMAIN s : s[j] = Release(p))
    BY <2>1, <2>2
  <2>4. PICK k : k \in DOMAIN (f \o s) /\ (f \o s)[k] = Release(p)
    <3>1. ASSUME NEW j \in DOMAIN f, f[j] = Release(p)
          PROVE  j \in DOMAIN (f \o s) /\ (f \o s)[j] = Release(p)
      BY <1>1, <3>1, ConcatLeft
    <3>2. ASSUME NEW j \in DOMAIN s, s[j] = Release(p)
          PROVE  Len(f) + j \in DOMAIN (f \o s) /\ (f \o s)[Len(f) + j] = Release(p)
      BY <1>1, <3>2, ConcatRight
    <3> HIDE DEF f, s
    <3> QED BY <2>3, <3>1, <3>2
  <2>5. k \in DOMAIN ((f \o s) \o b) /\ ((f \o s) \o b)[k] = Release(p)
    BY <1>2, <1>3, <2>4, ConcatLeft
  <2> QED BY <2>5
<1>6. ASSUME NEW p \in {"Function", "Switch"}, NEW j \in DOMAIN ((f \o s) \o b),
             ((f \o s) \o b)[j] = Push(p)
      PROVE  p \in pressed'
  <2>1. \/ \E k \in DOMAIN f : f[k] = Push(p)
        \/ \E k \in DOMAIN s : s[k] = Push(p)
        \/ \E k \in DOMAIN b : b[k] = Push(p)
    BY <1>1, <1>2, <1>3, <1>6, ConcatElements
  <2>2. \A k \in DOMAIN b : b[k] # Push(p)
    BY DEF ScanBLEStart, StartBLE, Push
  <2>3. \A q \in {"Function", "Switch"} : \A k \in DOMAIN Scan(q, changed) :
          Scan(q, changed)[k] = Push(p) => q = p /\ p \in changed \ pressed
    BY DEF Scan, Push, Release
  <2>4. p \in changed \ pressed
    BY <2>1, <2>2, <2>3
  <2> QED BY <2>4 DEF ButtonEventHandler
<1> QED BY <1>3, <1>4, <1>5, <1>6

LEMMA PostEventKeepsQueued ==
    ASSUME TypeOK, NEW f \in AppEvent, PostEvent(f), NEW e, Queued(e)
    PROVE  Queued(e)'
<1>1. <<f>> \in Seq(AppEvent)
  OBVIOUS
<1> QED BY <1>1, PostKeepsQueued DEF PostEvent

LEMMA PendingStays ==
    ASSUME TypeOK, [Next]_vars, NEW e \in AppEvent, Pending(e)
    PROVE  Pending(e)' \/ Reboot \/ (event = e /\ DispatchEvent)
<1> USE DEF vars, appVars, chipVars, ledVars
<1>1. ASSUME Queued(e) => Queued(e)', event' = event
      PROVE  Pending(e)'
  BY <1>1 DEF Pending, Queued
<1>2. ASSUME NEW changed \in SUBSET UserPins, ButtonEventHandler(changed)
      PROVE  Pending(e)'
  BY <1>1, <1>2, ScanPosts, PostKeepsQueued DEF ButtonEventHandler
<1>3. ASSUME NEW t \in Timer, FunctionTimerTimeoutCallback(t)
      PROVE  Pending(e)'
  BY <1>1, <1>3, EventTypes, PostEventKeepsQueued DEF FunctionTimerTimeoutCallback
<1>4. ASSUME NEW l \in Led, LEDStateUpdateHandler(l)
      PROVE  Pending(e)'
  BY <1>1, <1>4, EventTypes, PostEventKeepsQueued DEF LEDStateUpdateHandler
<1>5. ASSUME NEW f \in {IdentifyStart, IdentifyStop}, IdentifyHandler(f)
      PROVE  Pending(e)'
  BY <1>1, <1>5, EventTypes, PostEventKeepsQueued DEF IdentifyHandler
<1>6. CASE UNCHANGED <<queue, event>>
  BY <1>6 DEF Pending
<1>7. CASE \/ \E b \in BOOLEAN : BLEAdvertisingChange(b) \/ NetworkStateChange(b)
           \/ FabricChange \/ UNCHANGED vars
  BY <1>6, <1>7 DEF BLEAdvertisingChange, NetworkStateChange, FabricChange
<1>8. CASE GetEvent
  <2>1. event = NoEvent /\ e # NoEvent
    BY <1>8 DEF GetEvent, AppEvent, NoEvent, Push, Release, Expired, UpdateLed, StartBLE,
       IdentifyStart, IdentifyStop
  <2>2. PICK i \in DOMAIN queue : queue[i] = e
    BY <2>1 DEF Pending
  <2>3. /\ queue # <<>> /\ queue \in Seq(AppEvent) /\ i \in 1..Len(queue)
        /\ event' = queue[1] /\ queue' = Tail(queue)
    BY <1>8, <2>2 DEF GetEvent, TypeOK
  <2>4. CASE i = 1
    BY <2>2, <2>3, <2>4 DEF Pending
  <2>5. CASE i # 1
    <3>1. i - 1 \in DOMAIN queue' /\ queue'[i - 1] = queue[i]
      BY <2>3, <2>5
    <3> QED BY <2>2, <3>1 DEF Pending
  <2> QED BY <2>4, <2>5
<1>9. CASE event # e /\ DispatchEvent
  <2>1. Queued(e)
    BY <1>9 DEF Pending, Queued
  <2>2. CASE SwitchReleasedStartsBLE
    BY <2>1, <2>2, EventTypes, PostEventKeepsQueued
    DEF SwitchReleasedStartsBLE, Pending, Queued
  <2>3. CASE queue' = queue
    BY <2>1, <2>3 DEF Pending, Queued
  <2> QED
    BY <1>9, <2>2, <2>3 DEF DispatchEvent, FunctionPushed, SwitchPushed, FunctionReleased,
       FunctionReleasedInReset, SwitchReleased, FactoryResetTriggered, FactoryResetDone,
       DimmingStarted, DimmerTick,
       UpdateLedStateEventHandler, IdentifyStarted, IdentifyStopped,
       StartBLEAdvertisementHandler, OpenBasicCommissioningWindow, StatusLedWritten
<1> QED
  BY <1>2, <1>3, <1>4, <1>5, <1>7, <1>8, <1>9 DEF Next, ChipThread, StartApp

LEMMA LostStays ==
    ASSUME [Next]_vars, lost
    PROVE  lost' \/ Reboot
<1> USE DEF vars, appVars, chipVars, ledVars
<1>1. CASE \/ \E changed \in SUBSET UserPins : ButtonEventHandler(changed)
           \/ \E t \in Timer : FunctionTimerTimeoutCallback(t)
           \/ \E l \in Led : LEDStateUpdateHandler(l)
           \/ \E f \in {IdentifyStart, IdentifyStop} : IdentifyHandler(f)
           \/ SwitchReleasedStartsBLE
  BY <1>1 DEF ButtonEventHandler, FunctionTimerTimeoutCallback, LEDStateUpdateHandler,
     IdentifyHandler, SwitchReleasedStartsBLE, PostEvent, PostEvents
<1>2. CASE UNCHANGED lost
  BY <1>2
<1> QED
  BY <1>1, <1>2 DEF Next, ChipThread, StartApp, DispatchEvent, BLEAdvertisingChange,
     NetworkStateChange, FabricChange, GetEvent, FunctionPushed, SwitchPushed,
     FunctionReleased, FunctionReleasedInReset, SwitchReleased, FactoryResetTriggered,
     FactoryResetDone, DimmingStarted, DimmerTick, UpdateLedStateEventHandler, IdentifyStarted,
     IdentifyStopped, StartBLEAdvertisementHandler, OpenBasicCommissioningWindow,
     StatusLedWritten
----------------------------------------------------------------------------
(***************************************************************************)
(* The factory reset.                                                      *)
(***************************************************************************)
LEMMA FactoryResetStep == TypeOK /\ FactoryResetIsArmed /\ [Next]_vars => FactoryResetIsArmed'
<1> SUFFICES ASSUME TypeOK, FactoryResetIsArmed, [Next]_vars, mFunction' = FactoryReset
             PROVE  "Function" \in running' \/ Pending(Expired("Function"))' \/ lost'
  BY DEF FactoryResetIsArmed
<1> USE DEF vars, appVars, chipVars, ledVars
<1>1. CASE FactoryResetTriggered
  BY <1>1 DEF FactoryResetTriggered, StartTimer
<1>2. CASE FunctionTimerTimeoutCallback("Function")
  BY <1>2, EventTypes, PostMakesPending DEF FunctionTimerTimeoutCallback, Timer
<1>3. CASE FunctionPushed \/ FunctionReleased \/ FactoryResetDone \/ Reboot
  BY <1>3 DEF FunctionPushed, FunctionReleased, EndOfFunction, FactoryResetDone, Reboot,
     FactoryReset, NoneSelected, SoftwareUpdate
<1>4. CASE /\ ~FactoryResetTriggered /\ ~FunctionTimerTimeoutCallback("Function")
           /\ ~FunctionPushed /\ ~FunctionReleased /\ ~FactoryResetDone /\ ~Reboot
  <2>1. mFunction = FactoryReset /\ ("Function" \in running => "Function" \in running')
    BY <1>4 DEF Next, ChipThread, StartApp, DispatchEvent, ButtonEventHandler,
       FunctionTimerTimeoutCallback, LEDStateUpdateHandler, IdentifyHandler,
       BLEAdvertisingChange, NetworkStateChange, FabricChange, GetEvent, SwitchPushed,
       SwitchReleasedStartsBLE, SwitchReleased, DimmingStarted, DimmerTick,
       UpdateLedStateEventHandler, IdentifyStarted, IdentifyStopped,
       StartBLEAdvertisementHandler, OpenBasicCommissioningWindow, StatusLedWritten,
       FunctionReleasedInReset, EndOfFunction, StartTimer, CancelTimers, NoneSelected,
       FactoryReset
  <2>2. ~(event = Expired("Function") /\ DispatchEvent)
    BY <1>4, <2>1 DEF DispatchEvent, FactoryResetTriggered, FactoryResetDone, FunctionPushed,
       FunctionReleased, FunctionReleasedInReset, SwitchPushed, SwitchReleasedStartsBLE,
       SwitchReleased, DimmingStarted, DimmerTick, UpdateLedStateEventHandler, IdentifyStarted,
       IdentifyStopped, StartBLEAdvertisementHandler, OpenBasicCommissioningWindow,
       StatusLedWritten, Expired, Push, Release, UpdateLed, IdentifyStart, IdentifyStop,
       StartBLE, OpenWindow, WriteStatusLed
  <2>3. Pending(Expired("Function")) => Pending(Expired("Function"))'
    BY <1>4, <2>2, PendingStays, EventTypes DEF Timer
  <2> QED BY <1>4, <2>1, <2>3, LostStays DEF FactoryResetIsArmed
<1> QED BY <1>1, <1>2, <1>3, <1>4

\* The task is never stuck in its factory reset mode: the expiry that ends the
\* mode is timed, queued or being handled, unless an event has been dropped.
THEOREM FactoryResetArmed == Spec => []FactoryResetIsArmed
<1>1. Init => FactoryResetIsArmed
  BY DEF Init, FactoryResetIsArmed, NoneSelected, FactoryReset
<1> QED BY <1>1, FactoryResetStep, TypeCorrect, PTL DEF Spec
----------------------------------------------------------------------------
(***************************************************************************)
(* The LEDs.                                                               *)
(***************************************************************************)
LEMMA ShowKeepsBlinking ==
    ASSUME TypeOK, NEW patterns, Show(patterns), NEW l \in Led, leds'[l] \in Blinks
    PROVE  \/ l \in ledTimers'
           \/ leds[l] \in Blinks /\ l \notin DOMAIN patterns
              /\ (l \in ledTimers => l \in ledTimers')
BY DEF Show, TypeOK

LEMMA BlinkStep == TypeOK /\ BlinkKeepsGoing /\ [Next]_vars => BlinkKeepsGoing'
<1> SUFFICES ASSUME TypeOK, BlinkKeepsGoing, [Next]_vars, NEW l \in Led, leds'[l] \in Blinks
             PROVE  l \in ledTimers' \/ Pending(UpdateLed(l))' \/ lost'
  BY DEF BlinkKeepsGoing
<1> USE DEF vars, appVars, chipVars, ledVars
<1>1. CASE Reboot
  BY <1>1 DEF Reboot, BootLeds, BootLedTimers, Blinks
<1>2. CASE LEDStateUpdateHandler(l)
  BY <1>2, EventTypes, PostMakesPending DEF LEDStateUpdateHandler
<1>3. CASE UpdateLedStateEventHandler(l)
  BY <1>3 DEF UpdateLedStateEventHandler
<1>4. CASE ~Reboot /\ ~LEDStateUpdateHandler(l) /\ ~UpdateLedStateEventHandler(l)
  <2> DEFINE Kept == \/ l \in ledTimers'
                     \/ leds[l] \in Blinks /\ (l \in ledTimers => l \in ledTimers')
  <2>1. Kept
    <3>1. ASSUME NEW r \in BOOLEAN, NEW b \in BOOLEAN, UpdateStatusLED(r, b)
          PROVE  Kept
      BY <3>1, ShowKeepsBlinking DEF UpdateStatusLED
    <3>2. CASE FunctionReleased \/ FunctionReleasedInReset
      BY <3>2, ShowKeepsBlinking DEF FunctionReleased, FunctionReleasedInReset,
                                     BeginUpdateStatusLED
    <3>3. CASE FactoryResetTriggered
      BY <3>3, ShowKeepsBlinking DEF FactoryResetTriggered
    <3>4. CASE IdentifyStarted \/ IdentifyStopped \/ \E p \in Pattern : StatusLedWritten(p)
      BY <3>4, ShowKeepsBlinking DEF IdentifyStarted, IdentifyStopped, StatusLedWritten
    <3>5. CASE \E b \in BOOLEAN : BLEAdvertisingChange(b) \/ NetworkStateChange(b)
      BY <3>1, <3>5 DEF BLEAdvertisingChange, NetworkStateChange, TypeOK
    <3>6. ASSUME NEW m \in Led, LEDStateUpdateHandler(m) \/ UpdateLedStateEventHandler(m)
          PROVE  Kept
      BY <1>4, <3>6 DEF LEDStateUpdateHandler, UpdateLedStateEventHandler
    <3>7. CASE UNCHANGED ledVars
      BY <3>7
    <3> QED
      BY <1>4, <3>2, <3>3, <3>4, <3>5, <3>6, <3>7 DEF Next, ChipThread, StartApp,
         DispatchEvent, ButtonEventHandler, FunctionTimerTimeoutCallback, IdentifyHandler,
         FabricChange, GetEvent, FunctionPushed, SwitchPushed, SwitchReleasedStartsBLE,
         SwitchReleased, FactoryResetDone, DimmingStarted, DimmerTick,
         StartBLEAdvertisementHandler, OpenBasicCommissioningWindow
  <2>2. ~(event = UpdateLed(l) /\ DispatchEvent)
    BY <1>4 DEF DispatchEvent, FactoryResetTriggered, FactoryResetDone, FunctionPushed,
       FunctionReleased, FunctionReleasedInReset, SwitchPushed, SwitchReleasedStartsBLE,
       SwitchReleased, DimmingStarted, DimmerTick, UpdateLedStateEventHandler, IdentifyStarted,
       IdentifyStopped, StartBLEAdvertisementHandler, OpenBasicCommissioningWindow,
       StatusLedWritten, Expired, Push, Release, UpdateLed, IdentifyStart, IdentifyStop,
       StartBLE, OpenWindow, WriteStatusLed
  <2>3. Pending(UpdateLed(l)) => Pending(UpdateLed(l))'
    BY <1>4, <2>2, PendingStays, EventTypes
  <2> QED BY <1>4, <2>1, <2>3, LostStays DEF BlinkKeepsGoing
<1> QED BY <1>1, <1>2, <1>3, <1>4

\* No order of Set, Blink, timer expiries and stale updates freezes a blinking
\* LED, as long as the queue has had room for its updates.
THEOREM BlinkCorrect == Spec => []BlinkKeepsGoing
<1>1. Init => BlinkKeepsGoing
  BY DEF Init, BlinkKeepsGoing, BootLeds, BootLedTimers, Blinks
<1> QED BY <1>1, BlinkStep, TypeCorrect, PTL DEF Spec
----------------------------------------------------------------------------
(***************************************************************************)
(* Buttons and timers.  A timer started by a press is stopped by the       *)
(* release; what makes that inductive is that a press on its way to the    *)
(* application thread is followed by its release or the button is down.    *)
(***************************************************************************)
Follows(p) ==
    /\ event = Push(p) => p \in pressed \/ Queued(Release(p))
    /\ \A i \in DOMAIN queue : queue[i] = Push(p)
         => p \in pressed \/ \E j \in DOMAIN queue : j > i /\ queue[j] = Release(p)

LEMMA PostAppends ==
    ASSUME TypeOK, ~lost', NEW es \in Seq(AppEvent), PostEvents(es)
    PROVE  queue' = queue \o es
<1>1. Len(queue) \in Nat /\ Len(es) \in Nat
  BY DEF TypeOK
<1>2. CASE Len(queue) + Len(es) <= QueueSize
  BY <1>1, <1>2 DEF PostEvents, Enqueue
<1>3. CASE Len(queue) + Len(es) > QueueSize
  BY <1>3 DEF PostEvents
<1> QED BY <1>1, <1>2, <1>3, QueueAssumption

LEMMA PostFollows ==
    ASSUME TypeOK, NEW p \in {"Function", "Switch"}, Follows(p), ~lost',
           NEW es \in Seq(AppEvent), PostEvents(es),
           p \in pressed => p \in pressed' \/ \E j \in DOMAIN es : es[j] = Release(p),
           \A j \in DOMAIN es : es[j] = Push(p) => p \in pressed',
           event' = event \/ event' = NoEvent
    PROVE  Follows(p)'
<1>1. /\ queue' = queue \o es /\ queue \in Seq(AppEvent)
      /\ Len(queue) \in Nat /\ Len(es) \in Nat
  BY PostAppends DEF TypeOK
<1>2. /\ DOMAIN queue' = 1..(Len(queue) + Len(es))
      /\ DOMAIN queue = 1..Len(queue) /\ DOMAIN es = 1..Len(es)
      /\ \A i \in 1..Len(queue) : queue'[i] = queue[i]
      /\ \A i \in 1..Len(es) : queue'[Len(queue) + i] = es[i]
  BY <1>1
<1>3. ASSUME p \in pressed, p \notin pressed'
      PROVE  \E j \in DOMAIN queue' : j > Len(queue) /\ queue'[j] = Release(p)
  <2>1. PICK k \in DOMAIN es : es[k] = Release(p)
    BY <1>3
  <2>2. /\ Len(queue) + k \in DOMAIN queue' /\ Len(queue) + k > Len(queue)
        /\ queue'[Len(queue) + k] = Release(p)
    BY <1>1, <1>2, <2>1
  <2> QED BY <2>2
<1>4. ASSUME event' = Push(p)
      PROVE  p \in pressed' \/ Queued(Release(p))'
  <2>1. event = Push(p)
    BY <1>4 DEF Push, NoEvent
  <2>2. CASE p \in pressed
    BY <1>3, <2>2 DEF Queued
  <2>3. CASE Queued(Release(p))
    <3>1. PICK j \in DOMAIN queue : queue[j] = Release(p)
      BY <2>3 DEF Queued
    <3>2. j \in DOMAIN queue' /\ queue'[j] = Release(p)
      BY <1>1, <1>2, <3>1
    <3> QED BY <3>2 DEF Queued
  <2> QED BY <2>1, <2>2, <2>3 DEF Follows
<1>5. ASSUME NEW i \in DOMAIN queue', queue'[i] = Push(p), p \notin pressed'
      PROVE  \E j \in DOMAIN queue' : j > i /\ queue'[j] = Release(p)
  <2>1. i \in 1..Len(queue) /\ queue[i] = Push(p)
    <3>1. CASE i <= Len(queue)
      BY <1>1, <1>2, <1>5, <3>1
    <3>2. CASE i > Len(queue)
      <4>1. i - Len(queue) \in 1..Len(es) /\ i = Len(queue) + (i - Len(queue))
        BY <1>1, <1>2, <3>2
      <4>2. es[i - Len(queue)] = Push(p)
        BY <1>2, <1>5, <4>1
      <4> QED BY <1>2, <1>5, <4>1, <4>2
    <3> QED BY <1>1, <1>2, <3>1, <3>2
  <2>2. CASE p \in pressed
    <3>1. PICK j \in DOMAIN queue' : j > Len(queue) /\ queue'[j] = Release(p)
      BY <1>3, <1>5, <2>2
    <3>2. j > i
      BY <1>1, <1>2, <2>1, <3>1
    <3> QED BY <3>1, <3>2
  <2>3. CASE p \notin pressed
    <3>1. PICK j \in DOMAIN queue : j > i /\ queue[j] = Release(p)
      BY <1>2, <2>1, <2>3 DEF Follows
    <3>2. j \in DOMAIN queue' /\ queue'[j] = Release(p)
      BY <1>1, <1>2, <3>1
    <3> QED BY <3>1, <3>2
  <2> QED BY <2>2, <2>3
<1> QED BY <1>4, <1>5 DEF Follows

LEMMA PostEventFollows ==
    ASSUME TypeOK, NEW p \in {"Function", "Switch"}, Follows(p), ~lost',
           NEW e \in AppEvent, PostEvent(e), e # Push(p),
           pressed' = pressed, event' = event \/ event' = NoEvent
    PROVE  Follows(p)'
<1>1. /\ <<e>> \in Seq(AppEvent) /\ PostEvents(<<e>>)
      /\ \A j \in DOMAIN <<e>> : <<e>>[j] # Push(p)
  BY DEF PostEvent
<1> QED BY <1>1, PostFollows

LEMMA FollowsStep == TypeOK /\ PushIsFollowed /\ [Next]_vars => PushIsFollowed'
<1> SUFFICES ASSUME TypeOK, PushIsFollowed, [Next]_vars,
                    NEW p \in {"Function", "Switch"}, ~lost'
             PROVE  Follows(p)'
  BY DEF PushIsFollowed, Follows, Queued
<1> USE DEF vars, appVars, chipVars, ledVars
<1>1. CASE Reboot
  BY <1>1 DEF Reboot, Follows, NoEvent, Push
<1>2. ASSUME ~Reboot PROVE Follows(p)
  BY <1>2, LostStays DEF PushIsFollowed, Follows, Queued
<1>3. ASSUME NEW changed \in SUBSET UserPins, ButtonEventHandler(changed)
      PROVE  Follows(p)'
  <2>1. event' = event /\ pressed' = (pressed \ changed) \cup (changed \ pressed)
    BY <1>3 DEF ButtonEventHandler
  <2>2. ~Reboot \/ Follows(p)'
    BY <1>1
  <2>3. PICK es \in Seq(AppEvent) :
          /\ PostEvents(es)
          /\ p \in pressed \cap changed => \E j \in DOMAIN es : es[j] = Release(p)
          /\ \A j \in DOMAIN es : es[j] = Push(p) => p \in pressed'
    BY <1>3, ScanPosts
  <2> QED BY <1>2, <2>1, <2>2, <2>3, PostFollows
<1>4. ASSUME NEW t \in Timer, FunctionTimerTimeoutCallback(t)
      PROVE  Follows(p)'
  <2>1. Expired(t) # Push(p)
    BY DEF Expired, Push
  <2> QED BY <1>1, <1>2, <1>4, <2>1, EventTypes, PostEventFollows
      DEF FunctionTimerTimeoutCallback
<1>5. ASSUME NEW l \in Led, LEDStateUpdateHandler(l)
      PROVE  Follows(p)'
  <2>1. UpdateLed(l) # Push(p)
    BY DEF UpdateLed, Push
  <2> QED BY <1>1, <1>2, <1>5, <2>1, EventTypes, PostEventFollows DEF LEDStateUpdateHandler
<1>6. ASSUME NEW f \in {IdentifyStart, IdentifyStop}, IdentifyHandler(f)
      PROVE  Follows(p)'
  <2>1. f # Push(p)
    BY DEF IdentifyStart, IdentifyStop, Push
  <2> QED BY <1>1, <1>2, <1>6, <2>1, EventTypes, PostEventFollows DEF IdentifyHandler
<1>7. CASE SwitchReleasedStartsBLE
  <2>1. StartBLE # Push(p)
    BY DEF StartBLE, Push
  <2> QED BY <1>1, <1>2, <1>7, <2>1, EventTypes, PostEventFollows
      DEF SwitchReleasedStartsBLE, Return
<1>8. CASE UNCHANGED <<pressed, queue, event>>
  BY <1>1, <1>2, <1>8 DEF Follows, Queued
<1>9. CASE GetEvent
  <2>1. /\ queue # <<>> /\ queue \in Seq(AppEvent) /\ pressed' = pressed
        /\ event' = queue[1] /\ queue' = Tail(queue)
    BY <1>9 DEF GetEvent, TypeOK
  <2>2. /\ Len(queue) \in Nat \ {0} /\ DOMAIN queue = 1..Len(queue)
        /\ DOMAIN queue' = 1..(Len(queue) - 1)
        /\ \A i \in DOMAIN queue' : i + 1 \in DOMAIN queue /\ queue'[i] = queue[i + 1]
    BY <2>1
  <2>3. ASSUME NEW j \in DOMAIN queue, j > 1
        PROVE  j - 1 \in DOMAIN queue' /\ queue'[j - 1] = queue[j]
    <3>1. j - 1 \in DOMAIN queue' /\ (j - 1) + 1 = j
      BY <2>2, <2>3
    <3> QED BY <2>2, <3>1
  <2>4. Follows(p) \/ Follows(p)'
    BY <1>1, <1>2
  <2>5. ASSUME Follows(p), event' = Push(p), p \notin pressed'
        PROVE  Queued(Release(p))'
    <3>0. 1 \in DOMAIN queue
      BY <2>2
    <3>1. queue[1] = Push(p) /\ p \notin pressed
      BY <2>1, <2>5
    <3>2. PICK j \in DOMAIN queue : j > 1 /\ queue[j] = Release(p)
      BY <2>5, <3>0, <3>1 DEF Follows
    <3> QED BY <2>3, <3>2 DEF Queued
  <2>6. ASSUME Follows(p), NEW i \in DOMAIN queue', queue'[i] = Push(p), p \notin pressed'
        PROVE  \E j \in DOMAIN queue' : j > i /\ queue'[j] = Release(p)
    <3>1. PICK j \in DOMAIN queue : j > i + 1 /\ queue[j] = Release(p)
      BY <2>1, <2>2, <2>6 DEF Follows
    <3>2. j - 1 \in DOMAIN queue' /\ queue'[j - 1] = Release(p) /\ j - 1 > i
      BY <2>2, <2>3, <3>1
    <3> QED BY <3>2
  <2> QED BY <2>4, <2>5, <2>6 DEF Follows
<1>10. CASE \/ UNCHANGED vars \/ FabricChange
            \/ \E b \in BOOLEAN : BLEAdvertisingChange(b) \/ NetworkStateChange(b)
  BY <1>8, <1>10 DEF FabricChange, BLEAdvertisingChange, NetworkStateChange
<1>11. CASE DispatchEvent /\ ~SwitchReleasedStartsBLE
  <2>1. UNCHANGED <<pressed, queue>>
    BY <1>11 DEF DispatchEvent, FunctionPushed, SwitchPushed, FunctionReleased,
       FunctionReleasedInReset, SwitchReleased, FactoryResetTriggered, FactoryResetDone,
       DimmingStarted, DimmerTick,
       UpdateLedStateEventHandler, IdentifyStarted, IdentifyStopped,
       StartBLEAdvertisementHandler, OpenBasicCommissioningWindow, StatusLedWritten
  <2>2. event' # Push(p)
    BY <1>11 DEF DispatchEvent, FunctionPushed, SwitchPushed, FunctionReleased,
       FunctionReleasedInReset, SwitchReleased, FactoryResetTriggered, FactoryResetDone,
       DimmingStarted, DimmerTick,
       UpdateLedStateEventHandler, IdentifyStarted, IdentifyStopped,
       StartBLEAdvertisementHandler, OpenBasicCommissioningWindow, StatusLedWritten,
       BeginUpdateStatusLED, Return, NoEvent, OpenWindow, WriteStatusLed, Push
  <2> QED BY <1>1, <1>2, <2>1, <2>2 DEF Follows
<1> QED
  BY <1>1, <1>3, <1>4, <1>5, <1>6, <1>7, <1>9, <1>10, <1>11 DEF Next, ChipThread, StartApp

\* A press is never handled with its release missing: unless an event was
\* dropped, it is behind the press in the queue or the button is still down.
THEOREM PushFollowed == Spec => []PushIsFollowed
<1>1. Init => PushIsFollowed
  BY DEF Init, PushIsFollowed, NoEvent, Push
<1> QED BY <1>1, FollowsStep, TypeCorrect, PTL DEF Spec
\* A button that is down, or whose release is on its way, stays so until the
\* application thread handles the release.
LEMMA ReleaseIsDelivered ==
    ASSUME TypeOK, [Next]_vars, ~Reboot, ~lost', NEW p \in {"Function", "Switch"},
           p \in pressed \/ Pending(Release(p)), ~(event = Release(p) /\ DispatchEvent)
    PROVE  p \in pressed' \/ Pending(Release(p))'
<1> USE DEF vars, appVars, chipVars, ledVars
<1>1. CASE Pending(Release(p))
  <2>1. p \in Pin
    BY DEF Pin
  <2> QED BY <1>1, <2>1, PendingStays, EventTypes
<1>2. ASSUME NEW changed \in SUBSET UserPins, ButtonEventHandler(changed), p \in pressed
      PROVE  p \in pressed' \/ Pending(Release(p))'
  <2>1. CASE p \notin changed
    BY <1>2, <2>1 DEF ButtonEventHandler
  <2>2. CASE p \in changed
    <3>1. PICK es \in Seq(AppEvent) :
            PostEvents(es) /\ \E j \in DOMAIN es : es[j] = Release(p)
      BY <1>2, <2>2, ScanPosts
    <3>2. PICK j \in DOMAIN es : es[j] = Release(p)
      BY <3>1
    <3>3. queue' = queue \o es /\ queue \in Seq(AppEvent)
      BY <3>1, PostAppends DEF TypeOK
    <3>4. Len(queue) + j \in DOMAIN queue' /\ queue'[Len(queue) + j] = Release(p)
      BY <3>2, <3>3, ConcatRight
    <3> QED BY <3>4 DEF Pending
  <2> QED BY <2>1, <2>2
<1>3. CASE pressed' = pressed
  BY <1>1, <1>3
<1> QED
  BY <1>1, <1>2, <1>3 DEF Next, ChipThread, StartApp, DispatchEvent, LEDStateUpdateHandler,
     FunctionTimerTimeoutCallback, IdentifyHandler, BLEAdvertisingChange,
     NetworkStateChange, FabricChange, GetEvent, FunctionPushed, SwitchPushed,
     FunctionReleased, FunctionReleasedInReset, SwitchReleasedStartsBLE, SwitchReleased,
     FactoryResetTriggered, FactoryResetDone, DimmingStarted, DimmerTick, UpdateLedStateEventHandler,
     IdentifyStarted, IdentifyStopped, StartBLEAdvertisementHandler,
     OpenBasicCommissioningWindow, StatusLedWritten

LEMMA FunctionTimerStep ==
    TypeOK /\ PushIsFollowed /\ FunctionTimerFollowsButton /\ [Next]_vars
        => FunctionTimerFollowsButton'
<1> SUFFICES ASSUME TypeOK, PushIsFollowed, FunctionTimerFollowsButton, [Next]_vars,
                    mFunction' = SoftwareUpdate, "Function" \in running',
                    ~resetScheduled', ~lost'
             PROVE  "Function" \in pressed' \/ Pending(Release("Function"))'
  BY DEF FunctionTimerFollowsButton
<1> USE DEF vars, appVars, chipVars, ledVars
<1>1. /\ ~Reboot /\ ~FunctionReleased /\ ~FunctionReleasedInReset
      /\ ~FactoryResetTriggered /\ ~FactoryResetDone
  BY DEF Reboot, FunctionReleased, FunctionReleasedInReset, EndOfFunction,
     FactoryResetTriggered, FactoryResetDone, CancelTimers, SoftwareUpdate, FactoryReset
<1>2. ~lost
  BY <1>1, LostStays
<1>3. CASE FunctionPushed
  BY <1>2, <1>3 DEF FunctionPushed, PushIsFollowed, Pending
<1>4. CASE ~FunctionPushed
  <2>1. mFunction = SoftwareUpdate /\ "Function" \in running /\ ~resetScheduled
    BY <1>1, <1>4 DEF Next, ChipThread, StartApp, DispatchEvent, ButtonEventHandler,
       FunctionTimerTimeoutCallback, LEDStateUpdateHandler, IdentifyHandler,
       BLEAdvertisingChange, NetworkStateChange, FabricChange, GetEvent, SwitchPushed,
       SwitchReleasedStartsBLE, SwitchReleased, DimmingStarted, DimmerTick,
       UpdateLedStateEventHandler, IdentifyStarted, IdentifyStopped,
       StartBLEAdvertisementHandler, OpenBasicCommissioningWindow, StatusLedWritten,
       EndOfFunction, StartTimer, CancelTimers
  <2>2. ~(event = Release("Function") /\ DispatchEvent)
    BY <1>1 DEF DispatchEvent, FactoryResetTriggered, FactoryResetDone, FunctionPushed,
       SwitchPushed, SwitchReleasedStartsBLE, SwitchReleased,
       DimmingStarted, DimmerTick, UpdateLedStateEventHandler, IdentifyStarted,
       IdentifyStopped, StartBLEAdvertisementHandler, OpenBasicCommissioningWindow,
       StatusLedWritten, Expired, Push, Release, UpdateLed, IdentifyStart, IdentifyStop,
       StartBLE, OpenWindow, WriteStatusLed
  <2>3. "Function" \in pressed \/ Pending(Release("Function"))
    BY <1>2, <2>1 DEF FunctionTimerFollowsButton
  <2> QED BY <1>1, <2>2, <2>3, ReleaseIsDelivered
<1> QED BY <1>3, <1>4

\* The three seconds to the cancel window never run on for a button that has
\* been released and whose release has been handled.
THEOREM FunctionTimerCorrect == Spec => []FunctionTimerFollowsButton
<1>1. Init => FunctionTimerFollowsButton
  BY DEF Init, FunctionTimerFollowsButton
<1> QED BY <1>1, FunctionTimerStep, PushFollowed, TypeCorrect, PTL DEF Spec

LEMMA SwitchTriggerStep ==
    TypeOK /\ PushIsFollowed /\ SwitchTriggerFollowsButton /\ [Next]_vars
        => SwitchTriggerFollowsButton'
<1> SUFFICES ASSUME TypeOK, PushIsFollowed, SwitchTriggerFollowsButton, [Next]_vars,
                    NumberOfButtons = 4, "DimmerTrigger" \in running', ~lost'
             PROVE  "Switch" \in pressed' \/ Pending(Release("Switch"))'
  BY DEF SwitchTriggerFollowsButton
<1> USE DEF vars, appVars, chipVars, ledVars
<1>1. ~Reboot /\ ~SwitchReleased /\ ~SwitchReleasedStartsBLE
  BY DEF Reboot, SwitchReleased, SwitchReleasedStartsBLE, CancelTimers, ButtonStartsBLE
<1>2. ~lost
  BY <1>1, LostStays
<1>3. CASE SwitchPushed
  BY <1>2, <1>3 DEF SwitchPushed, PushIsFollowed, Pending
<1>4. CASE ~SwitchPushed
  <2>1. "DimmerTrigger" \in running
    BY <1>1, <1>4 DEF Next, ChipThread, StartApp, DispatchEvent, ButtonEventHandler,
       FunctionTimerTimeoutCallback, LEDStateUpdateHandler, IdentifyHandler,
       BLEAdvertisingChange, NetworkStateChange, FabricChange, GetEvent, FunctionPushed,
       FunctionReleased, FunctionReleasedInReset, EndOfFunction, FactoryResetTriggered,
       FactoryResetDone, DimmingStarted, DimmerTick, UpdateLedStateEventHandler,
       IdentifyStarted, IdentifyStopped,
       StartBLEAdvertisementHandler, OpenBasicCommissioningWindow, StatusLedWritten,
       StartTimer, CancelTimers
  <2>2. ~(event = Release("Switch") /\ DispatchEvent)
    BY <1>1 DEF DispatchEvent, FactoryResetTriggered, FactoryResetDone, FunctionPushed,
       FunctionReleased, FunctionReleasedInReset, SwitchPushed, DimmingStarted,
       DimmerTick, UpdateLedStateEventHandler, IdentifyStarted,
       IdentifyStopped, StartBLEAdvertisementHandler, OpenBasicCommissioningWindow,
       StatusLedWritten, Expired, Push, Release, UpdateLed, IdentifyStart, IdentifyStop,
       StartBLE, OpenWindow, WriteStatusLed
  <2>3. "Switch" \in pressed \/ Pending(Release("Switch"))
    BY <1>2, <2>1 DEF SwitchTriggerFollowsButton
  <2> QED BY <1>1, <2>2, <2>3, ReleaseIsDelivered
<1> QED BY <1>3, <1>4

\* On a board whose switch has no second job, the half second to dimming never
\* runs on for a switch whose release has been handled.
THEOREM SwitchTriggerCorrect == Spec => []SwitchTriggerFollowsButton
<1>1. Init => SwitchTriggerFollowsButton
  BY DEF Init, SwitchTriggerFollowsButton
<1> QED BY <1>1, SwitchTriggerStep, PushFollowed, TypeCorrect, PTL DEF Spec
============================================================================
