------------------------- MODULE TemplateAppProofs -------------------------
(***************************************************************************)
(* Theorems about TemplateApp, for every size of the queue, every network  *)
(* and every behaviour of the button, the timer, the LED, the CHIP thread  *)
(* and the parts of Init.                                                  *)
(***************************************************************************)
EXTENDS TemplateApp, TLAPS

(***************************************************************************)
(* The message queue.                                                      *)
(***************************************************************************)
LEMMA EventsDiffer ==
    /\ Push # Release /\ Push # Expired /\ Push # UpdateLed
    /\ Release # Expired /\ Release # UpdateLed /\ Expired # UpdateLed
    /\ NoEvent \notin AppEvent
    /\ \A p : WriteStatusLed(p) \notin AppEvent /\ WriteStatusLed(p) # NoEvent
    /\ Push \in AppEvent /\ Release \in AppEvent /\ Expired \in AppEvent
    /\ UpdateLed \in AppEvent
BY DEF Push, Release, Expired, UpdateLed, AppEvent, WriteStatusLed, NoEvent

Queued(e) == \E i \in DOMAIN queue : queue[i] = e

LEMMA PostKeeps ==
    ASSUME TypeOK, NEW e \in AppEvent, PostEvent(e)
    PROVE  /\ \A i \in DOMAIN queue : i \in DOMAIN queue' /\ queue'[i] = queue[i]
           /\ lost' \/ (~lost /\ queue' = Append(queue, e))
<1>1. CASE Len(queue) < QueueSize
  <2>1. queue' = Append(queue, e) /\ ~(Len(queue) >= QueueSize)
    BY <1>1, QueueAssumption DEF PostEvent, TypeOK
  <2>2. lost' \/ ~lost
    BY <2>1 DEF PostEvent, TypeOK
  <2>3. \A i \in DOMAIN queue : i \in DOMAIN queue' /\ queue'[i] = queue[i]
    BY <2>1 DEF TypeOK
  <2> QED BY <2>1, <2>2, <2>3
<1>2. CASE ~(Len(queue) < QueueSize)
  <2>1. queue' = queue /\ Len(queue) >= QueueSize
    BY <1>2, QueueAssumption DEF PostEvent, TypeOK
  <2> QED BY <2>1 DEF PostEvent
<1> QED BY <1>1, <1>2

LEMMA PostType ==
    ASSUME TypeOK, NEW e \in AppEvent, PostEvent(e)
    PROVE  queue' \in Seq(AppEvent) /\ Len(queue') <= QueueSize /\ lost' \in BOOLEAN
<1>1. CASE Len(queue) < QueueSize
  BY <1>1, QueueAssumption DEF PostEvent, TypeOK
<1>2. CASE ~(Len(queue) < QueueSize)
  BY <1>2, QueueAssumption DEF PostEvent, TypeOK
<1> QED BY <1>1, <1>2

LEMMA PostPends ==
    ASSUME TypeOK, NEW e \in AppEvent, PostEvent(e)
    PROVE  Pending(e)' \/ lost'
<1>1. CASE queue' = Append(queue, e)
  <2>1. Len(queue) + 1 \in DOMAIN queue' /\ queue'[Len(queue) + 1] = e
    BY <1>1 DEF TypeOK
  <2> QED BY <2>1 DEF Pending
<1> QED BY <1>1, PostKeeps
----------------------------------------------------------------------------
(***************************************************************************)
(* Type correctness.                                                       *)
(***************************************************************************)
LEMMA TypeInit == Init => TypeOK
<1>1. <<>> \in Seq(AppEvent) /\ Len(<<>>) <= QueueSize
  BY QueueAssumption
<1>2. Running = 9
  BY DEF Running, Stages
<1>3. "off" \in Pattern
  BY DEF Pattern
<1> SUFFICES ASSUME Init PROVE TypeOK
  OBVIOUS
<1>4. stage \in 0..Running
  BY <1>2 DEF Init
<1> QED BY <1>1, <1>3, <1>4 DEF Init, TypeOK

LEMMA PatternType ==
    \A r, b : StatusPattern(r, b) \in Pattern
BY DEF StatusPattern, Pattern, Blinks

LEMMA ShowType ==
    ASSUME NEW p \in Pattern, Show(p)
    PROVE  statusLed' \in Pattern /\ ledTimerRuns' \in BOOLEAN
BY DEF Show

LEMMA TypeStep == TypeOK /\ [Next]_vars => TypeOK'
<1> SUFFICES ASSUME TypeOK, [Next]_vars PROVE TypeOK'
  OBVIOUS
<1> USE DEF vars, appVars, chipVars, ledVars
<1>0. Running = 9 /\ DOMAIN Stages = 1..8 /\ Failed = 0
  BY DEF Running, Stages, Failed
<1>1. CASE InitPart
  <2>1. stage' \in 0..Running
    BY <1>0, <1>1 DEF InitPart
  <2>2. statusLed' \in Pattern /\ ledTimerRuns' \in BOOLEAN /\ resetLeds' \in BOOLEAN
    BY <1>1, PatternType, ShowType DEF InitPart, UpdateStatusLED, TypeOK
  <2> QED BY <1>1, <2>1, <2>2 DEF InitPart, TypeOK
<1>2. CASE InitPartFails
  BY <1>0, <1>2 DEF InitPartFails, TypeOK
<1>3. CASE Reboot
  <2>1. queue' \in Seq(AppEvent) /\ Len(queue') <= QueueSize /\ stage' \in 0..Running
    BY <1>0, <1>3, QueueAssumption DEF Reboot, PowerUp
  <2> QED BY <1>3, <2>1 DEF Reboot, PowerUp, TypeOK, Pattern
<1>4. CASE ButtonEventHandler
  BY <1>4, EventsDiffer, PostType DEF ButtonEventHandler, TypeOK
<1>5. CASE FunctionTimerTimeoutCallback
  BY <1>5, EventsDiffer, PostType DEF FunctionTimerTimeoutCallback, TypeOK
<1>6. CASE LEDStateUpdateHandler
  BY <1>6, EventsDiffer, PostType DEF LEDStateUpdateHandler, TypeOK
<1>7. CASE \E r, b \in BOOLEAN : ChipEventHandler(r, b)
  BY <1>7, PatternType, ShowType DEF ChipEventHandler, UpdateStatusLED, TypeOK
<1>8. CASE GetEvent
  <2>1. Head(queue) \in AppEvent /\ Tail(queue) \in Seq(AppEvent)
        /\ Len(Tail(queue)) <= QueueSize
    BY <1>8, QueueAssumption DEF GetEvent, TypeOK
  <2> QED BY <1>8, <2>1 DEF GetEvent, TypeOK
<1>9. CASE FunctionPushed
  BY <1>9 DEF FunctionPushed, Return, TypeOK
<1>10. CASE FunctionReleased
  BY <1>10, PatternType DEF FunctionReleased, TypeOK
<1>11. CASE FunctionReleasedIdle
  BY <1>11 DEF FunctionReleasedIdle, Return, TypeOK
<1>12. ASSUME NEW p \in Pattern, StatusLedWritten(p)
       PROVE  TypeOK'
  BY <1>12, ShowType DEF StatusLedWritten, Return, TypeOK
<1>13. CASE FunctionTimerEventHandler
  <2>1. "on" \in Pattern
    BY DEF Pattern
  <2> QED BY <1>13, <2>1, ShowType DEF FunctionTimerEventHandler, Return, TypeOK
<1>14. CASE UpdateLedStateEventHandler
  BY <1>14 DEF UpdateLedStateEventHandler, Return, TypeOK
<1>15. CASE UNCHANGED vars
  BY <1>15 DEF TypeOK
<1> QED
  BY <1>1, <1>2, <1>3, <1>4, <1>5, <1>6, <1>7, <1>8, <1>9, <1>10, <1>11, <1>12, <1>13,
     <1>14, <1>15
  DEF Next, StartApp, DispatchEvent, BLEAdvertisingChange, NetworkStateChange, TypeOK

\* The state is well typed, and no step puts more into the queue than it holds,
\* for every size of the queue.
THEOREM TypeCorrect == Spec => []TypeOK
BY TypeInit, TypeStep, PTL DEF Spec
----------------------------------------------------------------------------
(***************************************************************************)
(* What is pending stays pending.                                          *)
(***************************************************************************)
\* The steps as the queue sees them.
LEMMA QueueSteps ==
    ASSUME TypeOK, [Next]_vars
    PROVE  \/ Reboot
           \/ GetEvent
           \/ UNCHANGED <<queue, lost>>
           \/ \E e \in AppEvent : PostEvent(e) /\ UNCHANGED event
<1> USE DEF vars, appVars, chipVars, ledVars
<1>1. CASE ButtonEventHandler
  <2>1. (IF pressed THEN Release ELSE Push) \in AppEvent
    BY EventsDiffer
  <2> QED BY <1>1, <2>1 DEF ButtonEventHandler
<1>2. CASE FunctionTimerTimeoutCallback
  BY <1>2, EventsDiffer DEF FunctionTimerTimeoutCallback
<1>3. CASE LEDStateUpdateHandler
  BY <1>3, EventsDiffer DEF LEDStateUpdateHandler
<1>4. CASE InitPart \/ InitPartFails \/ BLEAdvertisingChange \/ NetworkStateChange
  BY <1>4 DEF InitPart, InitPartFails, BLEAdvertisingChange, NetworkStateChange,
              ChipEventHandler
<1>5. CASE DispatchEvent
  BY <1>5 DEF DispatchEvent, FunctionPushed, FunctionReleased, FunctionReleasedIdle,
              StatusLedWritten, FunctionTimerEventHandler, UpdateLedStateEventHandler
<1>6. CASE UNCHANGED vars
  BY <1>6
<1> QED BY <1>1, <1>2, <1>3, <1>4, <1>5, <1>6 DEF Next, StartApp

LEMMA PendingStays ==
    ASSUME TypeOK, [Next]_vars, ~Reboot, NEW e \in AppEvent, Pending(e),
           event # e \/ event' = event
    PROVE  Pending(e)' \/ lost'
<1>1. CASE event = e
  BY <1>1 DEF Pending
<1>2. CASE event # e
  <2>1. PICK i \in DOMAIN queue : queue[i] = e
    BY <1>2 DEF Pending
  <2>2. CASE GetEvent
    <3>1. CASE i = 1
      BY <2>1, <2>2, <3>1 DEF GetEvent, Pending, TypeOK
    <3>2. CASE i # 1
      <4>1. i - 1 \in DOMAIN queue' /\ queue'[i - 1] = queue[i]
        BY <2>1, <2>2, <3>2 DEF GetEvent, TypeOK
      <4> QED BY <2>1, <4>1 DEF Pending
    <3> QED BY <3>1, <3>2
  <2>3. CASE UNCHANGED <<queue, lost>>
    BY <2>1, <2>3 DEF Pending
  <2>4. ASSUME NEW f \in AppEvent, PostEvent(f)
        PROVE  Pending(e)' \/ lost'
    BY <2>1, <2>4, PostKeeps DEF Pending
  <2> QED BY <2>2, <2>3, <2>4, QueueSteps
<1> QED BY <1>1, <1>2

LEMMA LostStays ==
    ASSUME TypeOK, [Next]_vars, ~Reboot, lost
    PROVE  lost'
<1>1. CASE GetEvent
  BY <1>1 DEF GetEvent
<1>2. ASSUME NEW f \in AppEvent, PostEvent(f)
      PROVE  lost'
  BY <1>2, PostKeeps
<1> QED BY <1>1, <1>2, QueueSteps
----------------------------------------------------------------------------
(***************************************************************************)
(* The timer of the function button and the timer of the LED.              *)
(***************************************************************************)
LEMMA ArmedInit == Init => ArmedHasTimer
BY DEF Init, ArmedHasTimer

LEMMA ArmedStep == TypeOK /\ ArmedHasTimer /\ [Next]_vars => ArmedHasTimer'
<1> SUFFICES ASSUME TypeOK, ArmedHasTimer, [Next]_vars, mFunction' = "FactoryReset",
                    ~lost'
             PROVE  timerRuns' \/ Pending(Expired)'
  BY DEF ArmedHasTimer
<1> USE DEF vars, appVars, chipVars, ledVars
<1>0. ~Reboot
  BY DEF Reboot, PowerUp
<1>1. ~lost
  BY <1>0, LostStays
<1>2. CASE FunctionPushed
  BY <1>2 DEF FunctionPushed
<1>3. CASE FunctionTimerTimeoutCallback
  BY <1>3, EventsDiffer, PostPends DEF FunctionTimerTimeoutCallback
<1>4. CASE \E p \in Pattern : StatusLedWritten(p)
  BY <1>4 DEF StatusLedWritten
<1>5. CASE FunctionTimerEventHandler
  BY <1>5 DEF FunctionTimerEventHandler
<1>6. ASSUME mFunction' = mFunction, timerRuns' = timerRuns,
             event # Expired \/ event' = event
      PROVE  timerRuns' \/ Pending(Expired)'
  BY <1>0, <1>1, <1>6, EventsDiffer, PendingStays DEF ArmedHasTimer
<1>7. CASE InitPart \/ InitPartFails \/ BLEAdvertisingChange \/ NetworkStateChange
           \/ ButtonEventHandler \/ LEDStateUpdateHandler \/ UNCHANGED vars
  BY <1>6, <1>7 DEF InitPart, InitPartFails, BLEAdvertisingChange, NetworkStateChange,
                    ChipEventHandler, ButtonEventHandler, LEDStateUpdateHandler
<1>8. CASE GetEvent
  BY <1>6, <1>8, EventsDiffer DEF GetEvent
<1>9. CASE FunctionReleased \/ FunctionReleasedIdle \/ UpdateLedStateEventHandler
  BY <1>6, <1>9, EventsDiffer
  DEF FunctionReleased, FunctionReleasedIdle, UpdateLedStateEventHandler
<1> QED BY <1>0, <1>2, <1>3, <1>4, <1>5, <1>7, <1>8, <1>9 DEF Next, StartApp, DispatchEvent

\* An armed device has its timer or the expiry of it before it, or an event was
\* dropped: nothing leaves the template armed for good.
THEOREM ArmedTimer == Spec => []ArmedHasTimer
<1>1. TypeOK /\ ArmedHasTimer /\ [Next]_vars => ArmedHasTimer'
  BY ArmedStep
<1> QED BY <1>1, ArmedInit, TypeCorrect, PTL DEF Spec

LEMMA TimerStep == TypeOK /\ TimerOnlyWhileArmed /\ [Next]_vars => TimerOnlyWhileArmed'
<1> SUFFICES ASSUME TypeOK, TimerOnlyWhileArmed, [Next]_vars, timerRuns'
             PROVE  mFunction' = "FactoryReset" \/ resetScheduled'
  BY DEF TimerOnlyWhileArmed
<1> USE DEF vars, appVars, chipVars, ledVars
<1>1. CASE FunctionPushed
  BY <1>1 DEF FunctionPushed
<1>2. CASE FunctionTimerTimeoutCallback \/ Reboot \/ \E p \in Pattern : StatusLedWritten(p)
  BY <1>2 DEF FunctionTimerTimeoutCallback, Reboot, PowerUp, StatusLedWritten
<1>3. CASE FunctionTimerEventHandler
  BY <1>3 DEF FunctionTimerEventHandler, TimerOnlyWhileArmed
<1>4. ASSUME timerRuns' = timerRuns, mFunction' = mFunction, resetScheduled' = resetScheduled
      PROVE  mFunction' = "FactoryReset" \/ resetScheduled'
  BY <1>4 DEF TimerOnlyWhileArmed
<1>5. CASE InitPart \/ InitPartFails \/ BLEAdvertisingChange \/ NetworkStateChange
           \/ ButtonEventHandler \/ LEDStateUpdateHandler \/ UNCHANGED vars
  BY <1>4, <1>5 DEF InitPart, InitPartFails, BLEAdvertisingChange, NetworkStateChange,
                    ChipEventHandler, ButtonEventHandler, LEDStateUpdateHandler
<1>6. CASE GetEvent \/ FunctionReleased \/ FunctionReleasedIdle \/ UpdateLedStateEventHandler
  BY <1>4, <1>6
  DEF GetEvent, FunctionReleased, FunctionReleasedIdle, UpdateLedStateEventHandler
<1> QED BY <1>1, <1>2, <1>3, <1>5, <1>6 DEF Next, StartApp, DispatchEvent

\* The reset timer runs only for an armed device, or beside a reset that a stale
\* expiry has already started.
THEOREM TimerArmed == Spec => []TimerOnlyWhileArmed
<1>1. Init => TimerOnlyWhileArmed
  BY DEF Init, TimerOnlyWhileArmed
<1> QED BY <1>1, TimerStep, TypeCorrect, PTL DEF Spec

LEMMA BlinkStep == TypeOK /\ BlinkKeepsGoing /\ [Next]_vars => BlinkKeepsGoing'
<1> SUFFICES ASSUME TypeOK, BlinkKeepsGoing, [Next]_vars, statusLed' \in Blinks, ~lost'
             PROVE  ledTimerRuns' \/ Pending(UpdateLed)'
  BY DEF BlinkKeepsGoing
<1> USE DEF vars, appVars, chipVars, ledVars
<1>0. ~Reboot
  BY DEF Reboot, PowerUp, Blinks
<1>1. ~lost
  BY <1>0, LostStays
<1>2. ASSUME NEW p, Show(p)
      PROVE  ledTimerRuns'
  BY <1>2 DEF Show
<1>3. ASSUME statusLed' = statusLed, ledTimerRuns' = ledTimerRuns,
             event # UpdateLed \/ event' = event
      PROVE  ledTimerRuns' \/ Pending(UpdateLed)'
  BY <1>0, <1>1, <1>3, EventsDiffer, PendingStays DEF BlinkKeepsGoing
<1>4. CASE LEDStateUpdateHandler
  BY <1>4, EventsDiffer, PostPends DEF LEDStateUpdateHandler
<1>5. CASE UpdateLedStateEventHandler
  BY <1>5 DEF UpdateLedStateEventHandler
<1>6. CASE InitPart
  BY <1>2, <1>3, <1>6 DEF InitPart, UpdateStatusLED
<1>7. CASE BLEAdvertisingChange \/ NetworkStateChange
  BY <1>2, <1>7 DEF BLEAdvertisingChange, NetworkStateChange, ChipEventHandler,
                    UpdateStatusLED
<1>8. CASE FunctionTimerEventHandler
  BY <1>2, <1>3, <1>8, EventsDiffer DEF FunctionTimerEventHandler
<1>9. CASE \E p \in Pattern : StatusLedWritten(p)
  BY <1>2, <1>9 DEF StatusLedWritten
<1>10. CASE InitPartFails \/ ButtonEventHandler \/ FunctionTimerTimeoutCallback
            \/ UNCHANGED vars
  BY <1>3, <1>10 DEF InitPartFails, ButtonEventHandler, FunctionTimerTimeoutCallback
<1>11. CASE GetEvent \/ FunctionPushed \/ FunctionReleased \/ FunctionReleasedIdle
  BY <1>3, <1>11, EventsDiffer
  DEF GetEvent, FunctionPushed, FunctionReleased, FunctionReleasedIdle
<1> QED BY <1>0, <1>4, <1>5, <1>6, <1>7, <1>8, <1>9, <1>10, <1>11
        DEF Next, StartApp, DispatchEvent

\* A blinking status LED goes on blinking, whichever thread set the pattern last.
THEOREM BlinkGoesOn == Spec => []BlinkKeepsGoing
<1>1. Init => BlinkKeepsGoing
  BY DEF Init, BlinkKeepsGoing, Blinks
<1> QED BY <1>1, BlinkStep, TypeCorrect, PTL DEF Spec
----------------------------------------------------------------------------
(***************************************************************************)
(* The template implements ResetButton.  Until one of them is dropped, the *)
(* events of the button alternate, through the one being handled, those in *)
(* the queue and the last scan: next to a press stands a release.          *)
(***************************************************************************)
\* No event of the button stands in q strictly between i and j.
Clear(q, i, j) == \A k \in DOMAIN q : i < k /\ k < j => q[k] \notin ButtonEvent

NoButton(q) == \A k \in DOMAIN q : q[k] \notin ButtonEvent

\* e is the first event of the button in q.
FirstIs(q, e) == \E i \in DOMAIN q : q[i] = e /\ Clear(q, 0, i)

\* The last one can only be e.
LastIs(q, e) == \A i \in DOMAIN q :
    q[i] \in ButtonEvent /\ Clear(q, i, Len(q) + 1) => q[i] = e

\* Neighbours differ.
Spaced(q) == \A i, j \in DOMAIN q :
    i < j /\ q[i] \in ButtonEvent /\ q[j] \in ButtonEvent /\ Clear(q, i, j) => q[i] # q[j]

\* Behind every place where there is an event of the button at all one is the
\* first: what an induction over q would give holds as an invariant.
HasFirst(q) == \A n \in Nat :
    \/ Clear(q, n, Len(q) + 1)
    \/ \E j \in DOMAIN q : n < j /\ q[j] \in ButtonEvent /\ Clear(q, n, j)

Alternates(q, latest) == Spaced(q) /\ LastIs(q, latest) /\ HasFirst(q)

LEMMA TailAt ==
    ASSUME NEW q \in Seq(AppEvent), q # <<>>
    PROVE  /\ Tail(q) \in Seq(AppEvent) /\ Len(Tail(q)) = Len(q) - 1
           /\ DOMAIN q = 1..Len(q) /\ DOMAIN Tail(q) = 1..(Len(q) - 1)
           /\ Len(q) \in Nat \ {0}
           /\ \A i \in DOMAIN Tail(q) : i + 1 \in DOMAIN q /\ Tail(q)[i] = q[i + 1]
OBVIOUS

LEMMA TailClear ==
    ASSUME NEW q \in Seq(AppEvent), q # <<>>, NEW i \in Nat, NEW j \in Nat
    PROVE  Clear(Tail(q), i, j) <=> Clear(q, i + 1, j + 1)
<1>1. ASSUME Clear(q, i + 1, j + 1)
      PROVE  Clear(Tail(q), i, j)
  BY <1>1, TailAt DEF Clear
<1>2. ASSUME Clear(Tail(q), i, j)
      PROVE  Clear(q, i + 1, j + 1)
  <2> SUFFICES ASSUME NEW k \in DOMAIN q, i + 1 < k, k < j + 1
               PROVE  q[k] \notin ButtonEvent
    BY DEF Clear
  <2>1. k - 1 \in DOMAIN Tail(q) /\ i < k - 1 /\ k - 1 < j /\ (k - 1) + 1 = k
    BY TailAt
  <2> QED BY <1>2, <2>1, TailAt DEF Clear
<1> QED BY <1>1, <1>2

LEMMA TailAlternates ==
    ASSUME NEW q \in Seq(AppEvent), q # <<>>, NEW e, Alternates(q, e)
    PROVE  Alternates(Tail(q), e)
<1> DEFINE t == Tail(q)
<1>0. DOMAIN t \subseteq Nat /\ Len(t) + 1 = Len(q) /\ Len(q) \in Nat
  BY TailAt
<1>1. Spaced(t)
  <2> SUFFICES ASSUME NEW i \in DOMAIN t, NEW j \in DOMAIN t, i < j,
                      t[i] \in ButtonEvent, t[j] \in ButtonEvent, Clear(t, i, j)
               PROVE  t[i] # t[j]
    BY DEF Spaced
  <2>1. i \in Nat /\ j \in Nat /\ i + 1 < j + 1
    BY <1>0
  <2>2. Clear(q, i + 1, j + 1)
    BY <2>1, TailClear
  <2> QED BY <2>1, <2>2, TailAt DEF Alternates, Spaced
<1>2. LastIs(t, e)
  <2> SUFFICES ASSUME NEW i \in DOMAIN t, t[i] \in ButtonEvent, Clear(t, i, Len(t) + 1)
               PROVE  t[i] = e
    BY DEF LastIs
  <2>1. Clear(q, i + 1, Len(q) + 1)
    BY <1>0, TailClear
  <2> QED BY <2>1, TailAt DEF Alternates, LastIs
<1>3. HasFirst(t)
  <2> SUFFICES ASSUME NEW n \in Nat, ~Clear(t, n, Len(t) + 1)
               PROVE  \E j \in DOMAIN t : n < j /\ t[j] \in ButtonEvent /\ Clear(t, n, j)
    BY DEF HasFirst
  <2>1. ~Clear(q, n + 1, Len(q) + 1)
    BY <1>0, TailClear
  <2>2. PICK j \in DOMAIN q : n + 1 < j /\ q[j] \in ButtonEvent /\ Clear(q, n + 1, j)
    BY <2>1 DEF Alternates, HasFirst
  <2>3. j - 1 \in DOMAIN t /\ j - 1 \in Nat /\ n < j - 1 /\ (j - 1) + 1 = j
    BY <2>2, TailAt
  <2>4. Clear(t, n, j - 1) /\ t[j - 1] = q[j]
    BY <2>2, <2>3, TailClear, TailAt
  <2> QED BY <2>2, <2>3, <2>4
<1> QED BY <1>1, <1>2, <1>3 DEF Alternates

LEMMA AppendAt ==
    ASSUME NEW q \in Seq(AppEvent), NEW x \in AppEvent
    PROVE  /\ DOMAIN q = 1..Len(q) /\ Len(q) \in Nat
           /\ DOMAIN Append(q, x) = 1..(Len(q) + 1) /\ Len(Append(q, x)) = Len(q) + 1
           /\ \A i \in DOMAIN q : Append(q, x)[i] = q[i]
           /\ Append(q, x)[Len(q) + 1] = x
OBVIOUS

LEMMA AppendClear ==
    ASSUME NEW q \in Seq(AppEvent), NEW x \in AppEvent, NEW i \in Nat, NEW j \in Nat
    PROVE  /\ Clear(Append(q, x), i, j) => Clear(q, i, j)
           /\ j <= Len(q) + 1 => (Clear(q, i, j) => Clear(Append(q, x), i, j))
           /\ x \notin ButtonEvent => (Clear(q, i, j) => Clear(Append(q, x), i, j))
           /\ Clear(q, i, Len(q) + 1) <=> \A k \in DOMAIN q : i < k => q[k] \notin ButtonEvent
<1> DEFINE a == Append(q, x)
<1>1. ASSUME Clear(a, i, j)
      PROVE  Clear(q, i, j)
  BY <1>1, AppendAt DEF Clear
<1>2. ASSUME Clear(q, i, j), j <= Len(q) + 1 \/ x \notin ButtonEvent
      PROVE  Clear(a, i, j)
  BY <1>2, AppendAt DEF Clear
<1>3. Clear(q, i, Len(q) + 1) <=> \A k \in DOMAIN q : i < k => q[k] \notin ButtonEvent
  BY AppendAt DEF Clear
<1> QED BY <1>1, <1>2, <1>3

LEMMA AppendHasFirst ==
    ASSUME NEW q \in Seq(AppEvent), NEW x \in AppEvent, HasFirst(q)
    PROVE  HasFirst(Append(q, x))
<1> DEFINE a == Append(q, x)
<1> SUFFICES ASSUME NEW n \in Nat, ~Clear(a, n, Len(a) + 1)
             PROVE  \E j \in DOMAIN a : n < j /\ a[j] \in ButtonEvent /\ Clear(a, n, j)
  BY DEF HasFirst
<1>1. CASE Clear(q, n, Len(q) + 1)
  <2>1. PICK k \in DOMAIN a : n < k /\ k < Len(a) + 1 /\ a[k] \in ButtonEvent
    BY DEF Clear
  <2>2. k = Len(q) + 1
    BY <1>1, <2>1, AppendAt, AppendClear
  <2>3. Clear(a, n, Len(q) + 1)
    BY <1>1, AppendAt, AppendClear
  <2> QED BY <2>1, <2>2, <2>3
<1>2. CASE ~Clear(q, n, Len(q) + 1)
  <2>1. PICK j \in DOMAIN q : n < j /\ q[j] \in ButtonEvent /\ Clear(q, n, j)
    BY <1>2 DEF HasFirst
  <2>2. j \in Nat /\ j <= Len(q) + 1 /\ j \in DOMAIN a /\ a[j] = q[j]
    BY <2>1, AppendAt
  <2>3. Clear(a, n, j)
    BY <2>1, <2>2, AppendClear
  <2> QED BY <2>1, <2>2, <2>3
<1> QED BY <1>1, <1>2

\* An event that is not of the button changes nothing; ...
LEMMA AppendOther ==
    ASSUME NEW q \in Seq(AppEvent), NEW x \in AppEvent \ ButtonEvent, NEW e, Alternates(q, e)
    PROVE  Alternates(Append(q, x), e)
<1> DEFINE a == Append(q, x)
<1>1. Spaced(a)
  <2> SUFFICES ASSUME NEW i \in DOMAIN a, NEW j \in DOMAIN a, i < j,
                      a[i] \in ButtonEvent, a[j] \in ButtonEvent, Clear(a, i, j)
               PROVE  a[i] # a[j]
    BY DEF Spaced
  <2>1. i \in DOMAIN q /\ j \in DOMAIN q /\ i \in Nat /\ j \in Nat
    BY AppendAt
  <2>2. Clear(q, i, j)
    BY <2>1, AppendClear
  <2> QED BY <2>1, <2>2, AppendAt DEF Alternates, Spaced
<1>2. LastIs(a, e)
  <2> SUFFICES ASSUME NEW i \in DOMAIN a, a[i] \in ButtonEvent, Clear(a, i, Len(a) + 1)
               PROVE  a[i] = e
    BY DEF LastIs
  <2>1. i \in DOMAIN q /\ i \in Nat /\ Len(a) + 1 \in Nat
    BY AppendAt
  <2>2. Clear(q, i, Len(q) + 1)
    BY <2>1, AppendAt DEF Clear
  <2> QED BY <2>1, <2>2, AppendAt DEF Alternates, LastIs
<1> QED BY <1>1, <1>2, AppendHasFirst DEF Alternates

\* ... one of the button must not be the latest again.
LEMMA AppendButton ==
    ASSUME NEW q \in Seq(AppEvent), NEW x \in AppEvent, x \in ButtonEvent, NEW e,
           Alternates(q, e), x # e
    PROVE  Alternates(Append(q, x), x)
<1> DEFINE a == Append(q, x)
<1>1. Spaced(a)
  <2> SUFFICES ASSUME NEW i \in DOMAIN a, NEW j \in DOMAIN a, i < j,
                      a[i] \in ButtonEvent, a[j] \in ButtonEvent, Clear(a, i, j)
               PROVE  a[i] # a[j]
    BY DEF Spaced
  <2>1. i \in DOMAIN q /\ i \in Nat /\ j \in Nat
    BY AppendAt
  <2>2. Clear(q, i, j)
    BY <2>1, AppendClear
  <2>3. CASE j \in DOMAIN q
    BY <2>1, <2>2, <2>3, AppendAt DEF Alternates, Spaced
  <2>4. CASE j = Len(q) + 1
    <3>1. q[i] = e
      BY <2>1, <2>2, <2>4, AppendAt DEF Alternates, LastIs
    <3> QED BY <2>1, <2>4, <3>1, AppendAt
  <2> QED BY <2>3, <2>4, AppendAt
<1>2. LastIs(a, x)
  <2> SUFFICES ASSUME NEW i \in DOMAIN a, a[i] \in ButtonEvent, Clear(a, i, Len(a) + 1)
               PROVE  a[i] = x
    BY DEF LastIs
  <2>1. i = Len(q) + 1
    BY AppendAt DEF Clear
  <2> QED BY <2>1, AppendAt
<1> QED BY <1>1, <1>2, AppendHasFirst DEF Alternates

LEMMA FirstOfTail ==
    ASSUME NEW q \in Seq(AppEvent), q # <<>>, Head(q) \notin ButtonEvent, NEW e \in ButtonEvent
    PROVE  FirstIs(Tail(q), e) <=> FirstIs(q, e)
<1> DEFINE t == Tail(q)
<1>0. Head(q) = q[1] /\ 1 \in DOMAIN q
  OBVIOUS
<1>1. ASSUME FirstIs(t, e)
      PROVE  FirstIs(q, e)
  <2>1. PICK i \in DOMAIN t : t[i] = e /\ Clear(t, 0, i)
    BY <1>1 DEF FirstIs
  <2>2. i \in Nat /\ Clear(q, 0 + 1, i + 1)
    BY <2>1, TailAt, TailClear
  <2>3. Clear(q, 0, i + 1)
    BY <1>0, <2>2, TailAt DEF Clear
  <2> QED BY <2>1, <2>3, TailAt DEF FirstIs
<1>2. ASSUME FirstIs(q, e)
      PROVE  FirstIs(t, e)
  <2>1. PICK i \in DOMAIN q : q[i] = e /\ Clear(q, 0, i)
    BY <1>2 DEF FirstIs
  <2>2. i # 1
    BY <1>0, <2>1
  <2>3. i - 1 \in DOMAIN t /\ i - 1 \in Nat /\ (i - 1) + 1 = i
    BY <2>2, TailAt
  <2>4. Clear(q, 0 + 1, i)
    BY <2>1, TailAt DEF Clear
  <2>5. Clear(t, 0, i - 1) /\ t[i - 1] = q[i]
    BY <2>3, <2>4, TailClear, TailAt
  <2> QED BY <2>1, <2>3, <2>5 DEF FirstIs
<1> QED BY <1>1, <1>2

LEMMA FirstOfAppend ==
    ASSUME NEW q \in Seq(AppEvent), NEW x \in AppEvent, NEW e \in ButtonEvent
    PROVE  FirstIs(Append(q, x), e) <=> FirstIs(q, e) \/ (x = e /\ NoButton(q))
<1> DEFINE a == Append(q, x)
<1>1. ASSUME FirstIs(a, e)
      PROVE  FirstIs(q, e) \/ (x = e /\ NoButton(q))
  <2>1. PICK i \in DOMAIN a : a[i] = e /\ Clear(a, 0, i)
    BY <1>1 DEF FirstIs
  <2>2. i \in Nat /\ Clear(q, 0, i)
    BY <2>1, AppendAt, AppendClear
  <2>3. CASE i \in DOMAIN q
    BY <2>1, <2>2, <2>3, AppendAt DEF FirstIs
  <2>4. CASE i = Len(q) + 1
    <3>1. NoButton(q)
      BY <2>2, <2>4, AppendAt DEF Clear, NoButton
    <3> QED BY <2>1, <2>4, <3>1, AppendAt
  <2> QED BY <2>3, <2>4, AppendAt
<1>2. ASSUME FirstIs(q, e)
      PROVE  FirstIs(a, e)
  <2>1. PICK i \in DOMAIN q : q[i] = e /\ Clear(q, 0, i)
    BY <1>2 DEF FirstIs
  <2>2. i \in DOMAIN a /\ i \in Nat /\ i <= Len(q) + 1 /\ a[i] = q[i]
    BY AppendAt
  <2> QED BY <2>1, <2>2, AppendClear DEF FirstIs
<1>3. ASSUME x = e, NoButton(q)
      PROVE  FirstIs(a, e)
  <2>1. Clear(a, 0, Len(q) + 1)
    BY <1>3, AppendAt DEF Clear, NoButton
  <2> QED BY <1>3, <2>1, AppendAt DEF FirstIs
<1> QED BY <1>1, <1>2, <1>3

LEMMA FirstIsOne ==
    ASSUME NEW q \in Seq(AppEvent), FirstIs(q, Push), FirstIs(q, Release)
    PROVE  FALSE
<1>1. PICK i \in DOMAIN q : q[i] = Push /\ Clear(q, 0, i)
  BY DEF FirstIs
<1>2. PICK j \in DOMAIN q : q[j] = Release /\ Clear(q, 0, j)
  BY DEF FirstIs
<1>3. DOMAIN q = 1..Len(q) /\ Len(q) \in Nat
  OBVIOUS
<1>4. i # j
  BY <1>1, <1>2, EventsDiffer
<1> QED BY <1>1, <1>2, <1>3, <1>4 DEF Clear, ButtonEvent

LEMMA FirstOrNone ==
    ASSUME NEW q \in Seq(AppEvent), HasFirst(q)
    PROVE  NoButton(q) \/ FirstIs(q, Push) \/ FirstIs(q, Release)
<1>1. DOMAIN q = 1..Len(q) /\ Len(q) \in Nat /\ 0 \in Nat
  OBVIOUS
<1>2. CASE Clear(q, 0, Len(q) + 1)
  BY <1>1, <1>2 DEF Clear, NoButton
<1>3. CASE ~Clear(q, 0, Len(q) + 1)
  BY <1>1, <1>3 DEF HasFirst, FirstIs, ButtonEvent
<1> QED BY <1>2, <1>3
----------------------------------------------------------------------------
\* e, of the button, is being handled.
Handling(e) == IF e = Release THEN Releasing ELSE event = e

\* The event of the last scan.
Latest == IF pressed THEN Push ELSE Release

Orderly ==
    /\ Alternates(queue, Latest)
    /\ \A e \in ButtonEvent : Handling(e) => ~FirstIs(queue, e)
    /\ \A e \in ButtonEvent : Handling(e) /\ NoButton(queue) => e = Latest

ArmedIsDown == mFunction = "FactoryReset" => Down

IndHold == lost \/ (Orderly /\ ArmedIsDown)

LEMMA Buttons ==
    /\ ButtonEvent \subseteq AppEvent /\ Push \in ButtonEvent /\ Release \in ButtonEvent
    /\ Expired \notin ButtonEvent /\ UpdateLed \notin ButtonEvent
    /\ Latest \in ButtonEvent
BY EventsDiffer DEF ButtonEvent, AppEvent, Latest

\* e is the next event of the button, in these terms.
FollowsNext(e) == Handling(e) \/ (event # Push /\ ~Releasing /\ FirstIs(queue, e))

LEMMA NextIs == TypeOK => \A e \in ButtonEvent : NextButtonEvent(e) <=> FollowsNext(e)
<1> SUFFICES ASSUME TypeOK, NEW e \in ButtonEvent
             PROVE  NextButtonEvent(e) <=> FollowsNext(e)
  OBVIOUS
<1>1. DOMAIN queue = 1..Len(queue) /\ Len(queue) \in Nat
  BY DEF TypeOK
<1>2. ASSUME NEW i \in DOMAIN queue
      PROVE  (\A j \in 1..(i - 1) : queue[j] \notin ButtonEvent) <=> Clear(queue, 0, i)
  BY <1>1 DEF Clear
<1> QED BY <1>2 DEF NextButtonEvent, FollowsNext, Handling, FirstIs

LEMMA NextIsPrimed ==
    (TypeOK => \A e \in ButtonEvent : NextButtonEvent(e) <=> FollowsNext(e))'
BY NextIs, PTL

\* The handlers of a press and of a release exclude each other.
LEMMA HandlesOne ==
    /\ event = Push => ~Releasing
    /\ \A e \in ButtonEvent : Handling(e) <=> (IF e = Release THEN Releasing ELSE event = Push)
<1>1. event = Push => ~Releasing
  BY EventsDiffer, Buttons DEF Releasing
<1>2. \A e \in ButtonEvent : e = Release \/ e = Push
  BY DEF ButtonEvent
<1> QED BY <1>1, <1>2 DEF Handling

LEMMA NextOne == TypeOK => ~(FollowsNext(Push) /\ FollowsNext(Release))
<1> SUFFICES ASSUME TypeOK, FollowsNext(Push), FollowsNext(Release) PROVE FALSE
  OBVIOUS
<1>1. Handling(Push) <=> event = Push
  BY EventsDiffer DEF Handling
<1>2. Handling(Release) <=> Releasing
  BY DEF Handling
<1>3. ~(event = Push /\ Releasing)
  BY HandlesOne
<1>4. FirstIs(queue, Push) /\ FirstIs(queue, Release)
  BY <1>1, <1>2, <1>3 DEF FollowsNext
<1> QED BY <1>4, FirstIsOne DEF TypeOK

LEMMA DownIs ==
    TypeOK => /\ FollowsNext(Release) => Down = TRUE
              /\ FollowsNext(Push) => Down = FALSE
              /\ ~FollowsNext(Push) /\ ~FollowsNext(Release) => Down = pressed
<1> SUFFICES ASSUME TypeOK
             PROVE  /\ FollowsNext(Release) => Down = TRUE
                    /\ FollowsNext(Push) => Down = FALSE
                    /\ ~FollowsNext(Push) /\ ~FollowsNext(Release) => Down = pressed
  OBVIOUS
<1>1. NextButtonEvent(Push) <=> FollowsNext(Push)
  BY NextIs, Buttons
<1>2. NextButtonEvent(Release) <=> FollowsNext(Release)
  BY NextIs, Buttons
<1> QED BY <1>1, <1>2, NextOne DEF Down

LEMMA DownIsPrimed ==
    (TypeOK => /\ FollowsNext(Release) => Down = TRUE
               /\ FollowsNext(Push) => Down = FALSE
               /\ ~FollowsNext(Push) /\ ~FollowsNext(Release) => Down = pressed)'
BY DownIs, PTL

\* Handling an event of the button leaves it in the position the event tells.
LEMMA DownAfter ==
    ASSUME TypeOK, Orderly, NEW e \in ButtonEvent, Handling(e),
           TypeOK', queue' = queue, pressed' = pressed, event' = NoEvent
    PROVE  Down = (e = Release) /\ Down' = (e = Push)
<1>1. Down = (e = Release)
  BY NextIs, HandlesOne, Buttons DEF Down, FollowsNext, ButtonEvent
<1>2. event' # Push /\ ~Releasing' /\ \A f \in ButtonEvent : ~Handling(f)'
  BY EventsDiffer, Buttons DEF Releasing, Handling, ButtonEvent, AppEvent
<1>3. \A f \in ButtonEvent : NextButtonEvent(f)' <=> FirstIs(queue, f)
  BY <1>2, NextIsPrimed DEF FollowsNext
<1>4. ~FirstIs(queue, e)
  BY DEF Orderly
<1>5. CASE NoButton(queue)
  <2>1. ~FirstIs(queue, Push) /\ ~FirstIs(queue, Release)
    BY <1>5, Buttons DEF FirstIs, NoButton
  <2>2. e = Latest
    BY <1>5 DEF Orderly
  <2>3. Down' = pressed
    BY <1>3, <2>1, Buttons DEF Down
  <2> QED BY <1>1, <2>2, <2>3, EventsDiffer DEF Latest, TypeOK
<1>6. CASE ~NoButton(queue)
  <2>1. FirstIs(queue, Push) \/ FirstIs(queue, Release)
    BY <1>6, FirstOrNone DEF Orderly, Alternates, TypeOK
  <2> QED BY <1>1, <1>3, <1>4, <2>1, Buttons, EventsDiffer DEF Down, ButtonEvent
<1> QED BY <1>5, <1>6
\* Every other step leaves it where it is.
LEMMA DownSame ==
    ASSUME TypeOK, TypeOK', pressed' = pressed,
           \A e \in ButtonEvent : FollowsNext(e)' <=> FollowsNext(e)
    PROVE  Down' = Down
BY NextIs, NextIsPrimed, Buttons DEF Down

LEMMA PostedOther ==
    ASSUME TypeOK, TypeOK', Orderly, NEW x \in AppEvent \ ButtonEvent,
           queue' = Append(queue, x), event' = event, pressed' = pressed
    PROVE  Orderly' /\ Down' = Down
<1>1. \A e \in ButtonEvent :
          /\ Handling(e)' <=> Handling(e)
          /\ FirstIs(queue', e) <=> FirstIs(queue, e)
  BY FirstOfAppend DEF TypeOK, Handling, Releasing
<1>2. NoButton(queue') => NoButton(queue)
  BY AppendAt DEF TypeOK, NoButton
<1>3. Alternates(queue', Latest')
  BY AppendOther DEF TypeOK, Orderly, Latest
<1>4. Down' = Down
  BY <1>1, DownSame DEF FollowsNext, Releasing
<1> QED BY <1>1, <1>2, <1>3, <1>4 DEF Orderly, Latest

LEMMA PostedButton ==
    ASSUME TypeOK, TypeOK', Orderly, NEW x \in ButtonEvent, x # Latest, x = Latest',
           queue' = Append(queue, x), event' = event, pressed' = ~pressed
    PROVE  Orderly' /\ Down' = Down
<1>0. x \in AppEvent /\ queue \in Seq(AppEvent)
  BY Buttons DEF TypeOK
<1>1. \A e \in ButtonEvent :
          /\ Handling(e)' <=> Handling(e)
          /\ FirstIs(queue', e) <=> FirstIs(queue, e) \/ (x = e /\ NoButton(queue))
  BY <1>0, FirstOfAppend DEF Handling, Releasing
<1>2. ~NoButton(queue')
  BY <1>0, AppendAt DEF NoButton
<1>3. Alternates(queue', Latest')
  BY <1>0, AppendButton DEF Orderly
<1>4. Orderly'
  BY <1>1, <1>2, <1>3 DEF Orderly
<1>5. CASE \E e \in ButtonEvent : FollowsNext(e)
  <2>1. PICK e \in ButtonEvent : FollowsNext(e)
    BY <1>5
  <2>2. FollowsNext(e)'
    BY <1>1, <2>1 DEF FollowsNext, Releasing
  <2> QED BY <1>4, <2>1, <2>2, DownIs, DownIsPrimed DEF ButtonEvent
<1>6. CASE \A e \in ButtonEvent : ~FollowsNext(e)
  <2>1. event # Push /\ ~Releasing
    BY <1>6, Buttons, EventsDiffer DEF FollowsNext, Handling
  <2>2. NoButton(queue)
    BY <1>0, <1>6, <2>1, FirstOrNone, Buttons DEF FollowsNext, Orderly, Alternates
  <2>3. Down = pressed
    BY <1>6, DownIs, Buttons
  <2>4. FollowsNext(x)'
    BY <1>1, <2>1, <2>2 DEF FollowsNext, Releasing
  <2>5. ASSUME NEW e \in ButtonEvent, e # x
        PROVE  ~FollowsNext(e)'
    BY <1>1, <1>6, <2>1, <2>5 DEF FollowsNext, Releasing
  <2>6. x = IF pressed THEN Release ELSE Push
    BY EventsDiffer DEF Latest, TypeOK, ButtonEvent
  <2>7. CASE pressed = TRUE
    <3>1. FollowsNext(Release)'
      BY <2>4, <2>6, <2>7
    <3> QED BY <1>4, <2>3, <2>7, <3>1, DownIsPrimed
  <2>8. CASE pressed = FALSE
    <3>1. FollowsNext(Push)' /\ ~FollowsNext(Release)'
      BY <2>4, <2>5, <2>6, <2>8, Buttons, EventsDiffer
    <3> QED BY <1>4, <2>3, <2>8, <3>1, DownIsPrimed
  <2> QED BY <2>7, <2>8 DEF TypeOK
<1> QED BY <1>4, <1>5, <1>6

LEMMA TakenFrom ==
    ASSUME TypeOK, TypeOK', Orderly, GetEvent
    PROVE  Orderly' /\ Down' = Down
<1> DEFINE h == Head(queue)
<1>0. queue \in Seq(AppEvent) /\ queue # <<>> /\ h \in AppEvent /\ h = queue[1]
      /\ 1 \in DOMAIN queue /\ queue' = Tail(queue) /\ event' = h /\ event = NoEvent
      /\ pressed' = pressed
  BY DEF GetEvent, TypeOK
<1>1. Alternates(queue', Latest')
  BY <1>0, TailAlternates DEF Orderly, Latest
<1>2. event # Push /\ ~Releasing /\ \A e \in ButtonEvent : ~Handling(e)
  BY <1>0, EventsDiffer, Buttons DEF Releasing, Handling
<1>3. \A e \in ButtonEvent : FollowsNext(e) <=> FirstIs(queue, e)
  BY <1>2 DEF FollowsNext
<1>4. CASE h \in ButtonEvent
  <2>1. \A e \in ButtonEvent : Handling(e)' <=> e = h
    BY <1>0, <1>4, EventsDiffer DEF Handling, Releasing, ButtonEvent
  <2>2. event' = Push \/ Releasing'
    BY <1>0, <1>4 DEF ButtonEvent, Releasing
  <2>3. \A e \in ButtonEvent : FollowsNext(e)' <=> e = h
    BY <2>1, <2>2 DEF FollowsNext
  <2>4. \A e \in ButtonEvent : FirstIs(queue, e) <=> e = h
    <3>1. Clear(queue, 0, 1)
      BY <1>0, TailAt DEF Clear
    <3>2. FirstIs(queue, h)
      BY <1>0, <3>1 DEF FirstIs
    <3> QED BY <1>0, <1>4, <3>2, FirstIsOne DEF ButtonEvent
  <2>5. Down' = Down
    BY <1>0, <1>3, <2>3, <2>4, DownSame
  <2>6. ~FirstIs(queue', h)
    <3> SUFFICES ASSUME NEW i \in DOMAIN queue', queue'[i] = h, Clear(queue', 0, i)
                 PROVE  FALSE
      BY DEF FirstIs
    <3>1. i \in Nat /\ i + 1 \in DOMAIN queue /\ queue[i + 1] = h /\ 1 < i + 1
      BY <1>0, TailAt
    <3>2. Clear(queue, 0 + 1, i + 1)
      BY <1>0, <3>1, TailClear
    <3> QED BY <1>0, <1>4, <3>1, <3>2 DEF Orderly, Alternates, Spaced
  <2>7. ASSUME NoButton(queue')
        PROVE  h = Latest'
    <3>1. Clear(queue, 1, Len(queue) + 1)
      <4> SUFFICES ASSUME NEW k \in DOMAIN queue, 1 < k
                   PROVE  queue[k] \notin ButtonEvent
        BY DEF Clear
      <4>1. k - 1 \in DOMAIN queue' /\ queue'[k - 1] = queue[k]
        BY <1>0, TailAt
      <4> QED BY <2>7, <4>1 DEF NoButton
    <3> QED BY <1>0, <1>4, <3>1 DEF Orderly, Alternates, LastIs, Latest
  <2> QED BY <1>1, <2>1, <2>5, <2>6, <2>7 DEF Orderly
<1>5. CASE h \notin ButtonEvent
  <2>1. event' # Push /\ ~Releasing' /\ \A e \in ButtonEvent : ~Handling(e)'
    BY <1>0, <1>5, EventsDiffer, Buttons DEF Releasing, Handling, ButtonEvent
  <2>2. \A e \in ButtonEvent : FollowsNext(e)' <=> FirstIs(queue, e)
    BY <1>0, <1>5, <2>1, FirstOfTail DEF FollowsNext
  <2>3. Down' = Down
    BY <1>0, <1>3, <2>2, DownSame
  <2> QED BY <1>1, <2>1, <2>3 DEF Orderly
<1> QED BY <1>4, <1>5
----------------------------------------------------------------------------
LEMMA NothingQueued ==
    ASSUME NEW e
    PROVE  Alternates(<<>>, e) /\ NoButton(<<>>) /\ \A f : ~FirstIs(<<>>, f)
BY DEF Alternates, Spaced, LastIs, HasFirst, Clear, NoButton, FirstIs

LEMMA IdleOrderly ==
    (queue = <<>> /\ event = NoEvent /\ mFunction = "NoneSelected") => Orderly /\ ArmedIsDown
<1> SUFFICES ASSUME queue = <<>>, event = NoEvent, mFunction = "NoneSelected"
             PROVE  Orderly /\ ArmedIsDown
  OBVIOUS
<1>1. \A e \in ButtonEvent : ~Handling(e)
  BY EventsDiffer, Buttons DEF Handling, Releasing
<1> QED BY <1>1, NothingQueued DEF Orderly, ArmedIsDown

LEMMA IdleOrderlyPrimed ==
    ((queue = <<>> /\ event = NoEvent /\ mFunction = "NoneSelected") => Orderly /\ ArmedIsDown)'
BY IdleOrderly, PTL

\* What one step does to the order of the events and to the button.
Handles(e) == /\ Handling(e) /\ event' = NoEvent
              /\ queue' = queue /\ pressed' = pressed

HandlesPress   == FunctionPushed
HandlesRelease == FunctionReleasedIdle \/ \E p \in Pattern : StatusLedWritten(p)

LEMMA HandlesWhich ==
    /\ HandlesPress => Handles(Push)
    /\ HandlesRelease => Handles(Release)
<1>1. HandlesPress => Handles(Push)
  BY EventsDiffer DEF HandlesPress, FunctionPushed, Return, Handles, Handling
<1>2. FunctionReleasedIdle => Handles(Release)
  BY DEF FunctionReleasedIdle, Return, Handles, Handling, Releasing
<1>3. \A p \in Pattern : StatusLedWritten(p) => Handles(Release)
  BY DEF StatusLedWritten, Return, Handles, Handling, Releasing
<1> QED BY <1>1, <1>2, <1>3 DEF HandlesRelease

LEMMA ButtonStep ==
    ASSUME TypeOK, TypeOK', Orderly, [Next]_vars, ~Reboot, ~lost, ~lost'
    PROVE  Orderly' /\ (Down' = Down \/ HandlesPress \/ HandlesRelease)
<1> USE DEF vars, appVars, chipVars, ledVars
<1>1. ASSUME queue' = queue, pressed' = pressed,
             \A e \in ButtonEvent : Handling(e)' <=> Handling(e)
      PROVE  Orderly' /\ Down' = Down
  <2>1. Orderly'
    BY <1>1 DEF Orderly, Latest
  <2>2. Handling(Push) <=> event = Push
    BY EventsDiffer DEF Handling
  <2>3. (Handling(Push) <=> event = Push)'
    BY EventsDiffer DEF Handling
  <2>4. /\ Handling(Release) <=> Releasing
        /\ (Handling(Release) <=> Releasing)'
    BY DEF Handling
  <2>5. \A e \in ButtonEvent : FollowsNext(e)' <=> FollowsNext(e)
    BY <1>1, <2>2, <2>3, <2>4, Buttons DEF FollowsNext
  <2> QED BY <1>1, <2>1, <2>5, DownSame
<1>2. ASSUME queue' = queue, pressed' = pressed, event' = event
      PROVE  Orderly' /\ Down' = Down
  BY <1>1, <1>2 DEF Handling, Releasing
<1>3. ASSUME NEW e \in ButtonEvent, Handles(e)
      PROVE  Orderly'
  <2>1. \A f \in ButtonEvent : ~Handling(f)'
    BY <1>3, EventsDiffer, Buttons DEF Handles, Handling, Releasing
  <2> QED BY <1>3, <2>1 DEF Handles, Orderly, Latest
<1>4. CASE ButtonEventHandler
  <2> DEFINE x == IF pressed THEN Release ELSE Push
  <2>1. PICK y \in ButtonEvent : y = x /\ PostEvent(y)
    BY <1>4, Buttons DEF ButtonEventHandler
  <2>2. y # Latest /\ y = Latest' /\ y \in AppEvent
    BY <1>4, <2>1, EventsDiffer, Buttons DEF ButtonEventHandler, Latest, TypeOK
  <2>3. queue' = Append(queue, y)
    BY <2>1, <2>2, PostKeeps
  <2> QED BY <1>4, <2>2, <2>3, PostedButton DEF ButtonEventHandler
<1>5. CASE FunctionTimerTimeoutCallback
  <2>1. queue' = Append(queue, Expired)
    BY <1>5, PostKeeps, EventsDiffer DEF FunctionTimerTimeoutCallback
  <2> QED BY <1>5, <2>1, PostedOther, EventsDiffer, Buttons DEF FunctionTimerTimeoutCallback
<1>6. CASE LEDStateUpdateHandler
  <2>1. queue' = Append(queue, UpdateLed)
    BY <1>6, PostKeeps, EventsDiffer DEF LEDStateUpdateHandler
  <2> QED BY <1>6, <2>1, PostedOther, EventsDiffer, Buttons DEF LEDStateUpdateHandler
<1>7. CASE GetEvent
  BY <1>7, TakenFrom
<1>8. CASE InitPart \/ InitPartFails \/ BLEAdvertisingChange \/ NetworkStateChange
           \/ UNCHANGED vars
  BY <1>2, <1>8 DEF InitPart, InitPartFails, BLEAdvertisingChange, NetworkStateChange,
                    ChipEventHandler
<1>9. CASE FunctionPushed
  BY <1>3, <1>9, HandlesWhich, Buttons DEF HandlesPress
<1>10. CASE FunctionReleasedIdle \/ \E p \in Pattern : StatusLedWritten(p)
  BY <1>3, <1>10, HandlesWhich, Buttons DEF HandlesRelease
<1>11. CASE FunctionReleased
  <2>1. Releasing /\ Releasing'
    BY <1>11, PatternType DEF FunctionReleased, Releasing
  <2>2. event # Push /\ event' # Push
    BY <1>11, EventsDiffer DEF FunctionReleased
  <2>3. \A e \in ButtonEvent : Handling(e)' <=> Handling(e)
    BY <2>1, <2>2 DEF Handling, ButtonEvent
  <2> QED BY <1>1, <1>11, <2>3 DEF FunctionReleased
<1>12. CASE FunctionTimerEventHandler \/ UpdateLedStateEventHandler
  <2>1. \A e \in ButtonEvent : ~Handling(e) /\ ~Handling(e)'
    BY <1>12, EventsDiffer
    DEF FunctionTimerEventHandler, UpdateLedStateEventHandler, Return, Handling,
        Releasing, ButtonEvent
  <2> QED BY <1>1, <1>12, <2>1 DEF FunctionTimerEventHandler, UpdateLedStateEventHandler
<1> QED BY <1>4, <1>5, <1>6, <1>7, <1>8, <1>9, <1>10, <1>11, <1>12
        DEF Next, StartApp, DispatchEvent

LEMMA IndHoldInit == Init => IndHold
BY IdleOrderly DEF Init, IndHold

LEMMA IndHoldStep == TypeOK /\ TypeOK' /\ IndHold /\ [Next]_vars => IndHold'
<1> SUFFICES ASSUME TypeOK, TypeOK', IndHold, [Next]_vars, ~lost'
             PROVE  Orderly' /\ ArmedIsDown'
  BY DEF IndHold
<1> USE DEF vars, appVars, chipVars, ledVars
<1>1. CASE Reboot
  BY <1>1, IdleOrderlyPrimed DEF Reboot, PowerUp
<1>2. CASE ~Reboot
  <2>1. ~lost /\ Orderly /\ ArmedIsDown
    BY <1>2, LostStays DEF IndHold
  <2>2. Orderly'
    BY <1>2, <2>1, ButtonStep
  <2>3. CASE HandlesPress
    <3>1. Down' = TRUE
      BY <2>1, <2>3, HandlesWhich, DownAfter, Buttons DEF Handles
    <3> QED BY <2>2, <3>1 DEF ArmedIsDown
  <2>4. CASE HandlesRelease
    BY <2>2, <2>4 DEF HandlesRelease, FunctionReleasedIdle, StatusLedWritten, ArmedIsDown
  <2>5. CASE Down' = Down /\ ~HandlesPress /\ ~HandlesRelease
    <3>1. mFunction' = mFunction \/ mFunction' = "NoneSelected"
      BY <1>2, <2>5
      DEF HandlesPress, HandlesRelease, Next, StartApp, DispatchEvent, InitPart,
          InitPartFails, BLEAdvertisingChange, NetworkStateChange, ChipEventHandler,
          ButtonEventHandler, FunctionTimerTimeoutCallback, LEDStateUpdateHandler,
          GetEvent, FunctionReleased, FunctionTimerEventHandler, UpdateLedStateEventHandler
    <3> QED BY <2>1, <2>2, <2>5, <3>1 DEF ArmedIsDown
  <2> QED BY <1>2, <2>1, <2>3, <2>4, <2>5, ButtonStep
<1> QED BY <1>1, <1>2

LEMMA HoldTypes == TypeOK => Down \in BOOLEAN /\ HoldState \in Hold!State
BY DEF TypeOK, Down, HoldState, Hold!State

LEMMA HoldTypesPrimed == (TypeOK => Down \in BOOLEAN /\ HoldState \in Hold!State)'
BY HoldTypes, PTL

LEMMA HoldStep ==
    TypeOK /\ TypeOK' /\ IndHold /\ [Next]_vars => [Hold!Next]_(Hold!vars)
<1> SUFFICES ASSUME TypeOK, TypeOK', IndHold, [Next]_vars
             PROVE  Hold!Next \/ UNCHANGED <<Down, HoldState, lost>>
  BY DEF Hold!vars
<1> USE DEF vars, appVars, chipVars, ledVars
<1>1. CASE Reboot
  <2>1. HoldState = "resetting" /\ HoldState' = "normal" /\ lost' = FALSE
    BY <1>1 DEF Reboot, PowerUp, HoldState
  <2>2. Hold!Restart
    BY <2>1, HoldTypesPrimed DEF Hold!Restart
  <2> QED BY <2>2 DEF Hold!Next
<1>2. CASE ~Reboot /\ lost'
  <2>1. Hold!Miss
    BY <1>2, HoldTypesPrimed DEF Hold!Miss
  <2> QED BY <2>1 DEF Hold!Next
<1>3. CASE ~Reboot /\ ~lost'
  <2>1. ~lost /\ Orderly /\ ArmedIsDown /\ lost' = lost
    BY <1>3, LostStays DEF IndHold, TypeOK
  <2>2. CASE HandlesPress
    <3>1. Down = FALSE /\ Down' = TRUE
      BY <2>1, <2>2, HandlesWhich, DownAfter, Buttons, EventsDiffer DEF Handles
    <3>2. mFunction' = "FactoryReset" /\ resetScheduled' = resetScheduled
      BY <2>2 DEF HandlesPress, FunctionPushed
    <3>3. HoldState' = IF HoldState = "resetting" THEN HoldState ELSE "armed"
      BY <3>2 DEF HoldState
    <3>4. Hold!Press
      BY <2>1, <3>1, <3>3 DEF Hold!Press
    <3> QED BY <3>4 DEF Hold!Next
  <2>3. CASE HandlesRelease
    <3>1. Down = TRUE /\ Down' = FALSE
      BY <2>1, <2>3, HandlesWhich, DownAfter, Buttons, EventsDiffer DEF Handles
    <3>2. mFunction' = "NoneSelected" /\ resetScheduled' = resetScheduled
      BY <2>3 DEF HandlesRelease, FunctionReleasedIdle, StatusLedWritten
    <3>3. HoldState' = IF HoldState = "resetting" THEN HoldState ELSE "normal"
      BY <3>2 DEF HoldState
    <3>4. Hold!LetGo
      BY <2>1, <3>1, <3>3 DEF Hold!LetGo
    <3> QED BY <3>4 DEF Hold!Next
  <2>4. CASE Down' = Down /\ FunctionTimerEventHandler
    <3>1. CASE mFunction = "FactoryReset" /\ ~resetScheduled
      <4>1. HoldState = "armed" /\ HoldState' = "resetting" /\ Down
        BY <2>1, <2>4, <3>1 DEF FunctionTimerEventHandler, HoldState, ArmedIsDown
      <4>2. Hold!Elapse
        BY <2>1, <2>4, <4>1 DEF Hold!Elapse
      <4> QED BY <4>2 DEF Hold!Next
    <3>2. CASE ~(mFunction = "FactoryReset" /\ ~resetScheduled)
      BY <2>1, <2>4, <3>2 DEF FunctionTimerEventHandler, HoldState
    <3> QED BY <3>1, <3>2
  <2>5. CASE Down' = Down /\ ~HandlesPress /\ ~HandlesRelease /\ ~FunctionTimerEventHandler
    <3>1. mFunction' = mFunction /\ resetScheduled' = resetScheduled
      BY <1>3, <2>5
      DEF HandlesPress, HandlesRelease, Next, StartApp, DispatchEvent, InitPart,
          InitPartFails, BLEAdvertisingChange, NetworkStateChange, ChipEventHandler,
          ButtonEventHandler, FunctionTimerTimeoutCallback, LEDStateUpdateHandler,
          GetEvent, FunctionReleased, UpdateLedStateEventHandler
    <3> QED BY <2>1, <2>5, <3>1 DEF HoldState
  <2> QED BY <1>3, <2>1, <2>2, <2>3, <2>4, <2>5, ButtonStep
<1> QED BY <1>1, <1>2, <1>3

\* The template is a button that resets when it is held: whatever its queue, its
\* timer and the CHIP thread do, a reset starts only while the button is down for
\* the application, and a handled release cancels it.
THEOREM Implementation == Spec => ImplementsResetButton
<1>1. Init => Hold!Init
  <2> SUFFICES ASSUME Init PROVE Down \in BOOLEAN /\ HoldState = "normal" /\ lost = FALSE
    BY DEF Hold!Init
  <2> QED BY TypeInit, HoldTypes DEF Init, HoldState
<1> QED BY <1>1, TypeCorrect, IndHoldInit, IndHoldStep, HoldStep, PTL
        DEF Spec, ImplementsResetButton, Hold!Safety
============================================================================
