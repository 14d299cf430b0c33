------------------------ MODULE GenericSwitchProofs ------------------------
(***************************************************************************)
(* Theorems about GenericSwitch, for every length of the event queue of    *)
(* the Matter thread, every number of fabrics and every interleaving of    *)
(* button task, app_main, Matter thread, controllers and power failures.   *)
(***************************************************************************)
EXTENDS GenericSwitch, FiniteSetTheorems, TLAPS

(***************************************************************************)
(* The event queue.                                                        *)
(***************************************************************************)
LEMMA WorkDiffers ==
    /\ \A e : InitialPress(e) # FabricRemoved
    /\ FabricRemoved \in Work
    /\ \A e \in Endpoint : InitialPress(e) \in Work
BY DEF InitialPress, FabricRemoved, Work

LEMMA StageFacts ==
    /\ Running = 7 /\ Aborted = 0 /\ DOMAIN Stages = 1..6
    /\ Stages[1] = "node" /\ Stages[2] = "driver" /\ Stages[3] = "endpoint"
    /\ Stages[4] = "list" /\ Stages[5] = "features" /\ Stages[6] = "start"
BY DEF Running, Aborted, Stages

\* Matter is up at the last stage only, ...
LEMMA UpStart == ASSUME stage \in 0..Running
                 PROVE  Up("start") <=> stage = Running
BY StageFacts DEF Up

\* ... and the button task from the third one on.
LEMMA UpDriver == ASSUME stage \in 0..Running
                  PROVE  Up("driver") <=> stage > 2
BY StageFacts DEF Up

LEMMA AppendFacts ==
    ASSUME NEW q \in Seq(Work), NEW w \in Work
    PROVE  /\ Append(q, w) \in Seq(Work) /\ Len(Append(q, w)) = Len(q) + 1
           /\ DOMAIN q = 1..Len(q) /\ Len(q) \in Nat
           /\ DOMAIN Append(q, w) = 1..(Len(q) + 1)
           /\ \A i \in 1..Len(q) : Append(q, w)[i] = q[i]
           /\ Append(q, w)[Len(q) + 1] = w
OBVIOUS

LEMMA TailFacts ==
    ASSUME NEW q \in Seq(Work), q # <<>>
    PROVE  /\ Tail(q) \in Seq(Work) /\ Len(Tail(q)) = Len(q) - 1
           /\ DOMAIN q = 1..Len(q) /\ Len(q) \in Nat \ {0}
           /\ DOMAIN Tail(q) = 1..(Len(q) - 1)
           /\ \A i \in 1..(Len(q) - 1) : Tail(q)[i] = q[i + 1]
           /\ Head(q) = q[1]
OBVIOUS
----------------------------------------------------------------------------
(***************************************************************************)
(* Type correctness.  Matter is up only once the button is in the list, so *)
(* that the endpoint of a scheduled press is that of the switch.           *)
(***************************************************************************)
Listed == stage > 4 => button_list = {SwitchEndpoint}

IndType == TypeOK /\ Listed /\ NoUnknownEndpoint /\ (stage # Running => queue = <<>>)

LEMMA IndTypeInit == Init => IndType
<1> SUFFICES ASSUME Init PROVE IndType
  OBVIOUS
<1>1. <<>> \in Seq(Work) /\ Len(<<>>) <= QueueSize /\ 0 \in 0..MaxPresses
  BY SizeAssumption
<1>2. stage \in 0..Running /\ ~(stage > 4)
  BY StageFacts DEF Init
<1>3. TypeOK
  BY <1>1, <1>2, SizeAssumption DEF Init, TypeOK
<1> QED BY <1>2, <1>3 DEF Init, IndType, Listed, NoUnknownEndpoint, Waiting

LEMMA WaitingFinite == ASSUME TypeOK
                       PROVE  IsFiniteSet(Waiting) /\ Cardinality(Waiting) \in Nat
<1>1. IsFiniteSet(1..Len(queue)) /\ DOMAIN queue = 1..Len(queue)
  BY FS_Interval DEF TypeOK
<1>2. IsFiniteSet(Waiting)
  BY <1>1, FS_Subset DEF Waiting
<1> QED BY <1>2, FS_CardinalityType

LEMMA IndTypeStep == IndType /\ [Next]_vars => IndType'
<1> SUFFICES ASSUME IndType, [Next]_vars PROVE IndType'
  OBVIOUS
<1> USE DEF vars, counts
<1>0. stage \in 0..Running /\ TypeOK
  BY DEF IndType, TypeOK
<1>1. CASE PowerCycle
  <2>1. queue' \in Seq(Work) /\ Len(queue') <= QueueSize /\ stage' \in 0..Running
        /\ ~(stage' > 4) /\ stage' = 1 /\ queue' = <<>>
    BY <1>1, SizeAssumption, StageFacts DEF PowerCycle
  <2>2. missed' \in Nat
    BY <1>0, <1>1, WaitingFinite DEF PowerCycle, TypeOK
  <2>3. TypeOK'
    BY <1>0, <1>1, <2>1, <2>2 DEF PowerCycle, TypeOK
  <2> QED BY <1>1, <2>1, <2>3 DEF PowerCycle, IndType, Listed, NoUnknownEndpoint, Waiting
<1>2. CASE AppMain
  <2>1. stage' = stage + 1 /\ stage \in 1..6 /\ stage' \in 0..Running /\ stage # Running
    BY <1>2, StageFacts DEF AppMain
  <2>2. queue' = queue /\ queue = <<>>
    BY <1>2, <2>1 DEF AppMain, IndType
  <2>3. button_list' \subseteq {SwitchEndpoint} /\ Listed'
    BY <1>2, <2>1, StageFacts DEF AppMain, Listed, IndType, TypeOK
  <2>4. window' \in {"closed", "open", "expired", "failed"}
    BY <1>0, <1>2 DEF AppMain, TypeOK
  <2>5. TypeOK'
    BY <1>0, <1>2, <2>1, <2>2, <2>3, <2>4 DEF AppMain, TypeOK
  <2>6. NoUnknownEndpoint'
    BY <2>2 DEF IndType, NoUnknownEndpoint, Waiting
  <2> QED BY <2>2, <2>3, <2>5, <2>6 DEF IndType
<1>3. CASE AppMainAborts
  <2>1. stage' = 0 /\ stage # Running /\ stage' \in 0..Running
    BY <1>3, StageFacts DEF AppMainAborts
  <2> QED BY <1>0, <1>3, <2>1
          DEF AppMainAborts, IndType, TypeOK, Listed, NoUnknownEndpoint, Waiting
<1>4. CASE app_driver_button_initial_pressed
  <2>0. stage' = stage /\ button_list' = button_list /\ presses' \in 0..MaxPresses
    BY <1>0, <1>4, SizeAssumption DEF app_driver_button_initial_pressed, TypeOK
  <2>1. CASE Up("start") /\ Len(queue) < QueueSize
    <3>1. stage = Running /\ stage > 4
      BY <1>0, <2>1, UpStart, StageFacts
    <3>2. get_endpoint = SwitchEndpoint /\ SwitchEndpoint \in Endpoint
      BY <3>1 DEF IndType, Listed, get_endpoint, Endpoint
    <3>3. queue' = Append(queue, InitialPress(SwitchEndpoint)) /\ missed' = missed
      BY <1>4, <2>1, <3>2 DEF app_driver_button_initial_pressed, ScheduleLambda
    <3>4. queue \in Seq(Work) /\ InitialPress(SwitchEndpoint) \in Work
      BY <1>0, <3>2, WorkDiffers DEF TypeOK
    <3>5. queue' \in Seq(Work) /\ Len(queue') <= QueueSize
      BY <2>1, <3>3, <3>4, AppendFacts, SizeAssumption
    <3>6. NoUnknownEndpoint'
      <4> SUFFICES ASSUME NEW i \in Waiting' PROVE queue'[i].endpoint = SwitchEndpoint
        BY DEF NoUnknownEndpoint
      <4>1. CASE i \in DOMAIN queue
        BY <3>3, <3>4, <4>1, AppendFacts DEF IndType, NoUnknownEndpoint, Waiting
      <4>2. CASE i = Len(queue) + 1
        BY <3>3, <3>4, <4>2, AppendFacts DEF InitialPress
      <4> QED BY <3>3, <3>4, <4>1, <4>2, AppendFacts DEF Waiting
    <3> QED BY <1>0, <1>4, <2>0, <3>1, <3>3, <3>5, <3>6
            DEF app_driver_button_initial_pressed, IndType, TypeOK, Listed
  <2>2. CASE ~(Up("start") /\ Len(queue) < QueueSize)
    <3>1. queue' = queue /\ missed' = missed + 1
      BY <1>4, <2>2 DEF app_driver_button_initial_pressed, ScheduleLambda
    <3> QED BY <1>0, <1>4, <2>0, <3>1
            DEF app_driver_button_initial_pressed, IndType, TypeOK, Listed,
                NoUnknownEndpoint, Waiting
  <2> QED BY <2>1, <2>2
<1>5. ASSUME queue # <<>>, queue' = Tail(queue), stage' = stage, button_list' = button_list
      PROVE  /\ queue' \in Seq(Work) /\ Len(queue') <= QueueSize
             /\ NoUnknownEndpoint' /\ Listed' /\ (stage' # Running => queue' = <<>>)
  <2>1. queue \in Seq(Work)
    BY <1>0 DEF TypeOK
  <2>2. NoUnknownEndpoint'
    <3> SUFFICES ASSUME NEW i \in Waiting' PROVE queue'[i].endpoint = SwitchEndpoint
      BY DEF NoUnknownEndpoint
    <3>1. i + 1 \in Waiting /\ queue'[i] = queue[i + 1]
      BY <1>5, <2>1, TailFacts DEF Waiting
    <3> QED BY <3>1 DEF IndType, NoUnknownEndpoint
  <2>3. Len(queue') <= QueueSize
    BY <1>0, <1>5, <2>1, TailFacts, SizeAssumption DEF TypeOK
  <2> QED BY <1>5, <2>1, <2>2, <2>3, TailFacts DEF IndType, Listed
<1>6. ASSUME NEW e \in Endpoint, PressLambda(e)
      PROVE  IndType'
  BY <1>0, <1>5, <1>6 DEF PressLambda, IndType, TypeOK
<1>7. CASE FabricRemovedHandled
  BY <1>0, <1>5, <1>7 DEF FabricRemovedHandled, IndType, TypeOK
<1>8. CASE FabricLeaves
  <2>0. queue \in Seq(Work) /\ Len(queue) <= QueueSize
    BY <1>0 DEF TypeOK
  <2>1. ASSUME queue' = queue
        PROVE  \A i \in Waiting' : i \in Waiting /\ queue'[i] = queue[i]
    BY <2>1 DEF Waiting
  <2>2. ASSUME queue' = Append(queue, FabricRemoved)
        PROVE  \A i \in Waiting' : i \in Waiting /\ queue'[i] = queue[i]
    <3> SUFFICES ASSUME NEW i \in Waiting'
                 PROVE  i \in Waiting /\ queue'[i] = queue[i]
      OBVIOUS
    <3> QED BY <2>0, <2>2, WorkDiffers, AppendFacts DEF Waiting
  <2>3. /\ queue' \in Seq(Work) /\ Len(queue') <= QueueSize
        /\ \A i \in Waiting' : i \in Waiting /\ queue'[i] = queue[i]
    <3>1. CASE Len(queue) < QueueSize
      <4>1. queue' = Append(queue, FabricRemoved)
        BY <1>8, <3>1 DEF FabricLeaves
      <4>2. queue' \in Seq(Work) /\ Len(queue') <= QueueSize
        BY <2>0, <3>1, <4>1, WorkDiffers, AppendFacts, SizeAssumption
      <4> QED BY <2>2, <4>1, <4>2
    <3>2. CASE ~(Len(queue) < QueueSize)
      <4>1. queue' = queue
        BY <1>8, <3>2 DEF FabricLeaves
      <4> QED BY <2>0, <2>1, <4>1
    <3> QED BY <3>1, <3>2
  <2>4. fabrics' \in 0..MaxFabrics /\ dropped' \in BOOLEAN
    BY <1>0, <1>8, SizeAssumption DEF FabricLeaves, TypeOK
  <2>5. stage = Running
    BY <1>0, <1>8, UpStart DEF FabricLeaves
  <2>6. TypeOK'
    BY <1>0, <1>8, <2>3, <2>4 DEF FabricLeaves, TypeOK
  <2>7. NoUnknownEndpoint'
    BY <2>3 DEF IndType, NoUnknownEndpoint
  <2> QED BY <1>8, <2>5, <2>6, <2>7 DEF FabricLeaves, IndType, Listed
<1>9. CASE Commissioned \/ WindowRequested \/ WindowExpires \/ UNCHANGED vars
  <2>1. fabrics' \in 0..MaxFabrics
    BY <1>0, <1>9, SizeAssumption DEF Commissioned, WindowRequested, WindowExpires, TypeOK
  <2>2. TypeOK'
    BY <1>0, <1>9, <2>1 DEF Commissioned, WindowRequested, WindowExpires, TypeOK
  <2> QED BY <1>9, <2>2
      DEF Commissioned, WindowRequested, WindowExpires, IndType, Listed,
          NoUnknownEndpoint, Waiting
<1> QED BY <1>1, <1>2, <1>3, <1>4, <1>6, <1>7, <1>8, <1>9 DEF Next, MatterThread

\* The inductive invariant the theorems below rest on: types, the list of buttons as
\* app_main has filled it, and an empty queue as long as Matter is not up.
THEOREM IndTypeCorrect == Spec => []IndType
BY IndTypeInit, IndTypeStep, PTL DEF Spec

\* The state is well typed and the event queue never holds more than it has room for.
THEOREM TypeCorrect == Spec => []TypeOK
<1>1. IndType => TypeOK
  BY DEF IndType
<1> QED BY <1>1, IndTypeCorrect, PTL

\* A press that reaches the Matter thread carries the endpoint of the switch, in
\* every interleaving of the button task with app_main.
THEOREM KnownEndpoint == Spec => []NoUnknownEndpoint
<1>1. IndType => NoUnknownEndpoint
  BY DEF IndType
<1> QED BY <1>1, IndTypeCorrect, PTL
----------------------------------------------------------------------------
(***************************************************************************)
(* The commissioning window.                                               *)
(***************************************************************************)
RemovalQueued == \E i \in DOMAIN queue : queue[i] = FabricRemoved

LEMMA RemovalStays ==
    ASSUME IndType, RemovalQueued, queue # <<>>, Head(queue) # FabricRemoved,
           queue' = Tail(queue)
    PROVE  RemovalQueued'
<1>1. queue \in Seq(Work)
  BY DEF IndType, TypeOK
<1>2. PICK i \in DOMAIN queue : queue[i] = FabricRemoved
  BY DEF RemovalQueued
<1>3. i # 1
  BY <1>1, <1>2, TailFacts
<1>4. i - 1 \in DOMAIN queue' /\ queue'[i - 1] = queue[i]
  BY <1>1, <1>3, TailFacts
<1> QED BY <1>2, <1>4 DEF RemovalQueued

LEMMA WindowStep == IndType /\ IndType' /\ NeverForgotten /\ [Next]_vars => NeverForgotten'
<1> SUFFICES ASSUME IndType, IndType', NeverForgotten, [Next]_vars,
                    Up("start")', fabrics' = 0, window' \notin {"open", "expired"},
                    ~dropped', ~(OpenFails /\ window' = "failed")
             PROVE  RemovalQueued'
  BY DEF NeverForgotten, RemovalQueued
<1> USE DEF vars, counts
<1>0. stage' = Running /\ stage \in 0..Running
  <2>1. stage' \in 0..Running /\ stage \in 0..Running
    BY DEF IndType, TypeOK
  <2> QED BY <2>1, StageFacts DEF Up
<1>1. ASSUME stage' = stage, fabrics' = fabrics, window' = window, dropped' = dropped
      PROVE  RemovalQueued
  <2>1. /\ stage = Running /\ fabrics = 0 /\ window \notin {"open", "expired"}
        /\ ~dropped /\ ~(OpenFails /\ window = "failed")
    BY <1>0, <1>1
  <2>2. Up("start")
    BY <1>0, <2>1, UpStart
  <2> QED BY <2>1, <2>2 DEF NeverForgotten, RemovalQueued
<1>2. CASE PowerCycle \/ AppMainAborts
  BY <1>0, <1>2, StageFacts DEF PowerCycle, AppMainAborts
<1>3. CASE AppMain
  <2>0. stage' = stage + 1 /\ stage \in DOMAIN Stages
    BY <1>3 DEF AppMain
  <2>1. stage = 6
    <3>1. Running = 7
      BY StageFacts
    <3>2. stage \in 0..7 /\ stage + 1 = 7
      BY <1>0, <2>0, <3>1
    <3> QED BY <3>2
  <2>2. Stages[stage] = "start"
    BY <2>1, StageFacts
  <2>3. fabrics = 0 /\ window' = IF Stages[stage] = "start" /\ fabrics = 0 THEN "open" ELSE window
    BY <1>3 DEF AppMain
  <2> QED BY <2>2, <2>3
<1>4. CASE app_driver_button_initial_pressed
  <2>1. RemovalQueued
    BY <1>1, <1>4 DEF app_driver_button_initial_pressed
  <2>2. CASE queue' = queue
    BY <2>1, <2>2 DEF RemovalQueued
  <2>3. CASE queue' = Append(queue, InitialPress(get_endpoint))
    <3>1. get_endpoint \in Endpoint /\ queue \in Seq(Work)
      BY DEF get_endpoint, Endpoint, IndType, TypeOK
    <3> QED BY <2>1, <2>3, <3>1, WorkDiffers, AppendFacts DEF RemovalQueued
  <2> QED BY <1>4, <2>2, <2>3 DEF app_driver_button_initial_pressed, ScheduleLambda
<1>5. ASSUME NEW e \in Endpoint, PressLambda(e)
      PROVE  RemovalQueued'
  BY <1>1, <1>5, RemovalStays, WorkDiffers DEF PressLambda
<1>6. CASE FabricRemovedHandled
  <2>1. fabrics = 0 /\ window # "open"
    BY <1>6 DEF FabricRemovedHandled
  <2>2. window' \in {"open"} \cup (IF OpenFails THEN {"failed"} ELSE {})
    BY <1>6, <2>1 DEF FabricRemovedHandled
  <2> QED BY <2>2
<1>7. CASE Commissioned
  <2>1. fabrics \in Nat
    BY DEF IndType, TypeOK
  <2> QED BY <1>7, <2>1 DEF Commissioned
<1>8. CASE FabricLeaves
  <2>1. queue \in Seq(Work) /\ Len(queue) <= QueueSize /\ fabrics \in Nat
    BY DEF IndType, TypeOK
  <2>2. fabrics = 1
    BY <1>8, <2>1 DEF FabricLeaves
  <2>3. Len(queue) < QueueSize
    <3>1. dropped' = (fabrics = 1 /\ Len(queue) = QueueSize)
      BY <1>8 DEF FabricLeaves
    <3>2. Len(queue) # QueueSize
      BY <2>2, <3>1, Zenon
    <3>3. Len(queue) \in Nat
      BY <2>1
    <3> QED BY <2>1, <3>2, <3>3, SizeAssumption
  <2>4. queue' = Append(queue, FabricRemoved)
    BY <1>8, <2>3 DEF FabricLeaves
  <2> QED BY <2>1, <2>4, WorkDiffers, AppendFacts DEF RemovalQueued
<1>9. CASE WindowRequested \/ WindowExpires
  BY <1>9 DEF WindowRequested, WindowExpires
<1>10. CASE UNCHANGED vars
  BY <1>1, <1>10 DEF RemovalQueued
<1> QED BY <1>2, <1>3, <1>4, <1>5, <1>6, <1>7, <1>8, <1>9, <1>10 DEF Next, MatterThread

\* A device without fabrics is open to be commissioned, has been, or will be once
\* the Matter thread comes to the removal: for any number of fabrics, windows and
\* power failures.  The event must have found room, and opening must not have failed.
THEOREM NotForgotten == Spec => []NeverForgotten
<1>1. Init => NeverForgotten
  <2> SUFFICES ASSUME Init PROVE ~Up("start")
    BY DEF NeverForgotten
  <2> QED BY StageFacts DEF Init, Up
<1> QED BY <1>1, WindowStep, IndTypeCorrect, PTL DEF Spec
----------------------------------------------------------------------------
(***************************************************************************)
(* Every press is accounted for.                                           *)
(***************************************************************************)
LEMMA WaitingAppend ==
    ASSUME IndType, NEW w \in Work, queue' = Append(queue, w)
    PROVE  Cardinality(Waiting') =
               IF w = FabricRemoved THEN Cardinality(Waiting) ELSE Cardinality(Waiting) + 1
<1>1. queue \in Seq(Work) /\ IsFiniteSet(Waiting)
  BY WaitingFinite DEF IndType, TypeOK
<1>2. Len(queue) + 1 \notin Waiting
  BY <1>1, AppendFacts DEF Waiting
<1>3. CASE w = FabricRemoved
  <2>1. Waiting' = Waiting
    BY <1>1, <1>3, AppendFacts DEF Waiting
  <2> QED BY <1>3, <2>1
<1>4. CASE w # FabricRemoved
  <2>1. Waiting' = Waiting \cup {Len(queue) + 1}
    BY <1>1, <1>4, AppendFacts DEF Waiting
  <2> QED BY <1>1, <1>2, <1>4, <2>1, FS_AddElement
<1> QED BY <1>3, <1>4

LEMMA WaitingTail ==
    ASSUME IndType, IndType', queue # <<>>, queue' = Tail(queue)
    PROVE  Cardinality(Waiting') = Cardinality(Waiting \ {1})
<1>1. queue \in Seq(Work) /\ IsFiniteSet(Waiting')
  <2>1. IsFiniteSet(1..Len(queue')) /\ DOMAIN queue' = 1..Len(queue')
    BY FS_Interval DEF IndType, TypeOK
  <2>2. IsFiniteSet(Waiting')
    BY <2>1, FS_Subset DEF Waiting
  <2> QED BY <2>2 DEF IndType, TypeOK
<1> DEFINE f == [i \in Waiting' |-> i + 1]
<1>2. \A i \in Waiting' : i \in Nat /\ f[i] \in Waiting \ {1}
  BY <1>1, TailFacts DEF Waiting
<1>3. \A k \in Waiting \ {1} : k - 1 \in Waiting' /\ f[k - 1] = k
  BY <1>1, TailFacts DEF Waiting
<1>4. f \in Injection(Waiting', Waiting \ {1})
  BY <1>2 DEF Injection, IsInjective
<1>5. f \in Surjection(Waiting', Waiting \ {1})
  BY <1>2, <1>3 DEF Surjection
<1>6. ExistsBijection(Waiting', Waiting \ {1})
  BY <1>4, <1>5 DEF ExistsBijection, Bijection
<1> QED BY <1>1, <1>6, FS_Bijection

LEMMA CountStep == IndType /\ IndType' /\ EveryPressCounted /\ [Next]_vars => EveryPressCounted'
<1> SUFFICES ASSUME IndType, IndType', EveryPressCounted, [Next]_vars
             PROVE  EveryPressCounted'
  OBVIOUS
<1> USE DEF vars, counts
<1>0. /\ IsFiniteSet(Waiting) /\ Cardinality(Waiting) \in Nat
      /\ queue \in Seq(Work) /\ presses \in Nat /\ reported \in Nat /\ missed \in Nat
      /\ stage \in 0..Running
  BY WaitingFinite, SizeAssumption DEF IndType, TypeOK
<1>1. ASSUME queue' = queue, UNCHANGED counts
      PROVE  EveryPressCounted'
  BY <1>1 DEF EveryPressCounted, Waiting
<1>2. CASE PowerCycle
  <2>1. Waiting' = {}
    BY <1>2 DEF PowerCycle, Waiting
  <2>2. Cardinality(Waiting') = 0
    BY <2>1, FS_EmptySet
  <2> QED BY <1>0, <1>2, <2>2 DEF PowerCycle, EveryPressCounted
<1>3. CASE app_driver_button_initial_pressed
  <2>1. CASE queue' = queue /\ missed' = missed + 1
    <3>1. Waiting' = Waiting
      BY <2>1 DEF Waiting
    <3> QED BY <1>0, <1>3, <2>1, <3>1 DEF app_driver_button_initial_pressed, EveryPressCounted
  <2>2. CASE queue' = Append(queue, InitialPress(get_endpoint)) /\ missed' = missed
    <3>1. InitialPress(get_endpoint) \in Work /\ InitialPress(get_endpoint) # FabricRemoved
      BY WorkDiffers DEF get_endpoint, Endpoint
    <3>2. Cardinality(Waiting') = Cardinality(Waiting) + 1
      BY <2>2, <3>1, WaitingAppend
    <3> QED BY <1>0, <1>3, <2>2, <3>2 DEF app_driver_button_initial_pressed, EveryPressCounted
  <2> QED BY <1>3, <2>1, <2>2 DEF app_driver_button_initial_pressed, ScheduleLambda
<1>4. ASSUME NEW e \in Endpoint, PressLambda(e)
      PROVE  EveryPressCounted'
  <2>1. 1 \in Waiting
    BY <1>0, <1>4, WorkDiffers, TailFacts DEF PressLambda, Waiting
  <2>2. Cardinality(Waiting') = Cardinality(Waiting) - 1
    BY <1>0, <1>4, <2>1, WaitingTail, FS_RemoveElement DEF PressLambda
  <2>3. queue[1] = InitialPress(e) /\ queue[1].endpoint = SwitchEndpoint
    BY <1>0, <1>4, <2>1, TailFacts DEF PressLambda, IndType, NoUnknownEndpoint
  <2>4. e = SwitchEndpoint
    BY <2>3 DEF InitialPress
  <2> QED BY <1>0, <1>4, <2>2, <2>4 DEF PressLambda, EveryPressCounted
<1>5. CASE FabricRemovedHandled
  <2>1. 1 \notin Waiting
    BY <1>0, <1>5, TailFacts DEF FabricRemovedHandled, Waiting
  <2>2. Cardinality(Waiting') = Cardinality(Waiting)
    BY <1>0, <1>5, <2>1, WaitingTail, FS_RemoveElement DEF FabricRemovedHandled
  <2> QED BY <1>0, <1>5, <2>2 DEF FabricRemovedHandled, EveryPressCounted
<1>6. CASE FabricLeaves
  <2>1. CASE queue' = Append(queue, FabricRemoved)
    <3>1. Cardinality(Waiting') = Cardinality(Waiting)
      BY <2>1, WaitingAppend, WorkDiffers
    <3> QED BY <1>0, <1>6, <3>1 DEF FabricLeaves, EveryPressCounted
  <2>2. CASE queue' = queue
    BY <1>1, <1>6, <2>2 DEF FabricLeaves
  <2> QED BY <1>6, <2>1, <2>2 DEF FabricLeaves
<1>7. CASE AppMain \/ AppMainAborts \/ Commissioned \/ WindowRequested \/ WindowExpires
           \/ UNCHANGED vars
  BY <1>1, <1>7 DEF AppMain, AppMainAborts, Commissioned, WindowRequested, WindowExpires
<1> QED BY <1>2, <1>3, <1>4, <1>5, <1>6, <1>7 DEF Next, MatterThread

\* Every press the button task has seen is reported by exactly one event, waits for
\* the Matter thread, or was lost for one of the three reasons there are.
THEOREM PressesCounted == Spec => []EveryPressCounted
<1>1. Init => EveryPressCounted
  <2> SUFFICES ASSUME Init PROVE EveryPressCounted
    OBVIOUS
  <2>1. Waiting = {}
    BY DEF Init, Waiting
  <2>2. Cardinality(Waiting) = 0
    BY <2>1, FS_EmptySet
  <2> QED BY <2>2 DEF Init, EveryPressCounted
<1> QED BY <1>1, CountStep, IndTypeCorrect, PTL DEF Spec
============================================================================
