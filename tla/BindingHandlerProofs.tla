------------------------- MODULE BindingHandlerProofs -------------------------
(***************************************************************************)
(* Proofs about BindingHandler: the state is well typed and no context is  *)
(* used after it was freed (one inductive invariant, because what is read  *)
(* from the heap is only typed while it is not free); the levels sent are  *)
(* valid; a request never goes both to the group and to a device.          *)
(***************************************************************************)
EXTENDS BindingHandler, SequenceTheorems, FiniteSetTheorems, TLAPS

USE DEF history

LEMMA CountType ==
    ASSUME TypeOK, NEW d \in Device \cup {Group}, NEW i \in 1..MaxRequests,
           applied' = [applied EXCEPT ![d][i] = @ + 1]
    PROVE  applied' \in [Device \cup {Group} -> [1..MaxRequests -> Nat]]
<1> DEFINE D == Device \cup {Group}
           I == 1..MaxRequests
<1>1. applied \in [D -> [I -> Nat]] /\ d \in D /\ i \in I
  BY DEF TypeOK
<1> SUFFICES applied' \in [D -> [I -> Nat]]
  OBVIOUS
<1> HIDE DEF D, I
<1> QED BY <1>1

LEMMA FreeIsNoData == Free \notin BindingData
<1>1. \A x \in BindingData : x.command # "free"
  BY DEF BindingData, OnOff
<1> QED BY <1>1 DEF Free

LEMMA NewSlotIsFree ==
    ASSUME HasRoom
    PROVE  NewSlot \in Slot /\ heap[NewSlot] = Free
BY DEF HasRoom, NewSlot, FreeSlots

LEMMA NextBrightnessType ==
    ASSUME NEW b \in 0..MaximumBrightness
    PROVE  NextBrightness(b) \in 0..MaximumBrightness /\ NextBrightness(b) % 256 \in UInt8
<1>1. b \in Nat /\ MaximumBrightness = 254 /\ Step = 3
  BY DEF MaximumBrightness, Step
<1>2. NextBrightness(b) \in Nat /\ NextBrightness(b) <= 254
  BY <1>1 DEF NextBrightness
<1>3. NextBrightness(b) % 256 \in 0..255
  BY <1>2
<1> QED BY <1>1, <1>2, <1>3 DEF UInt8

\* The types of what the CHIP thread hands to a device.
LEMMA InvokesType ==
    ASSUME TypeOK, NoUseAfterFree, NEW d \in Device
    PROVE  Invokes(d) \subseteq Invoke
<1>1. ASSUME NEW s \in WaitingFor(d)
      PROVE  heap[s] \in BindingData
  <2>1. s \in Slot /\ Awaited(s)
    BY DEF WaitingFor, Awaited
  <2>2. heap[s] # Free
    BY <2>1 DEF NoUseAfterFree
  <2> QED BY <2>1, <2>2 DEF TypeOK
<1>2. ASSUME NEW x \in Invokes(d)
      PROVE  x \in Invoke
  <2>1. PICK s \in WaitingFor(d) : x = [dev |-> d, data |-> heap[s], done |-> FALSE]
    BY DEF Invokes
  <2> QED BY <1>1, <2>1 DEF Invoke
<1> QED BY <1>2
----------------------------------------------------------------------------
(***************************************************************************)
(* The heap.  A step is safe if it only frees what nobody refers to        *)
(* afterwards; each of the three ways in which the code touches the heap   *)
(* has a lemma.                                                            *)
(***************************************************************************)
\* Platform::New and ScheduleWork.
LEMMA ScheduleWorkStep ==
    ASSUME TypeOK, NoUseAfterFree, HasRoom, requests < MaxRequests,
           NEW command \in OnOff \cup {"Level"}, NEW value \in UInt8, NEW isGroup \in BOOLEAN,
           ScheduleWork(command, value, isGroup), pending' = pending
    PROVE  /\ heap' \in [Slot -> BindingData \cup {Free}]
           /\ work' \in Seq(Slot) /\ Len(work') <= WorkSize
           /\ NoUseAfterFree'
<1> DEFINE n == [command |-> command, value |-> value, isGroup |-> isGroup,
                 id |-> requests + 1, attempt |-> 0]
<1>1. n \in BindingData
  BY BoundAssumption DEF BindingData, TypeOK
<1>2. NewSlot \in Slot /\ heap[NewSlot] = Free
  BY NewSlotIsFree
<1>3. ~Scheduled(NewSlot) /\ ~Awaited(NewSlot)
  BY <1>2 DEF NoUseAfterFree
<1>4. heap' = [heap EXCEPT ![NewSlot] = n]
  BY DEF ScheduleWork
<1> HIDE DEF n
<1>5. heap' \in [Slot -> BindingData \cup {Free}]
  BY <1>1, <1>2, <1>4 DEF TypeOK
<1>10. heap'[NewSlot] = n /\ \A s \in Slot \ {NewSlot} : heap'[s] = heap[s]
  BY <1>2, <1>4 DEF TypeOK
<1>6. \A s \in Slot : Awaited(s)' <=> Awaited(s)
  BY DEF Awaited
<1>7. n # Free
  BY <1>1, FreeIsNoData
<1>8. CASE work' = work
  <2>1. \A s \in Slot : Scheduled(s)' <=> Scheduled(s)
    BY <1>8 DEF Scheduled
  <2>2. \A s \in Slot : Scheduled(s) \/ Awaited(s) => heap'[s] # Free
    BY <1>3, <1>10 DEF NoUseAfterFree
  <2>3. NoUseAfterFree'
    BY <1>6, <1>8, <2>1, <2>2 DEF NoUseAfterFree
  <2> QED BY <1>5, <1>8, <2>3 DEF TypeOK
<1>9. CASE Len(work) < WorkSize /\ work' = Append(work, NewSlot)
  <2>1. /\ work \in Seq(Slot) /\ work' \in Seq(Slot) /\ Len(work) \in Nat
        /\ Len(work') = Len(work) + 1
        /\ DOMAIN work = 1..Len(work) /\ DOMAIN work' = 1..(Len(work) + 1)
        /\ \A k \in 1..Len(work) : work'[k] = work[k]
        /\ work'[Len(work) + 1] = NewSlot
    <3>1. work \in Seq(Slot) /\ NewSlot \in Slot /\ work' = Append(work, NewSlot)
      BY <1>2, <1>9 DEF TypeOK
    <3> QED BY <3>1
  <2>2. \A k \in DOMAIN work : work[k] # NewSlot
    BY <1>3 DEF Scheduled
  <2>3. \A s \in Slot : Scheduled(s)' => Scheduled(s) \/ s = NewSlot
    <3> SUFFICES ASSUME NEW s \in Slot, NEW k \in DOMAIN work', work'[k] = s, s # NewSlot
                 PROVE  \E j \in DOMAIN work : work[j] = s
      BY DEF Scheduled
    <3>1. k \in 1..Len(work)
      BY <2>1
    <3> QED BY <2>1, <3>1
  <2>4. \A s \in Slot : Scheduled(s)' \/ Awaited(s)' => heap'[s] # Free
    BY <1>6, <1>7, <1>10, <2>3 DEF NoUseAfterFree
  <2>5. \A s \in Slot : ~(Scheduled(s)' /\ Awaited(s)')
    BY <1>3, <1>6, <2>3 DEF NoUseAfterFree
  <2>6. ASSUME NEW j \in DOMAIN work', NEW k \in DOMAIN work', work'[j] = work'[k]
        PROVE  j = k
    <3>1. CASE j <= Len(work) /\ k <= Len(work)
      BY <2>1, <2>6, <3>1 DEF NoUseAfterFree
    <3>2. CASE j = Len(work) + 1 /\ k <= Len(work)
      BY <2>1, <2>2, <2>6, <3>2
    <3>3. CASE k = Len(work) + 1 /\ j <= Len(work)
      BY <2>1, <2>2, <2>6, <3>3
    <3> QED BY <2>1, <3>1, <3>2, <3>3
  <2>7. Len(work') <= WorkSize
    BY <1>9, <2>1, BoundAssumption
  <2> QED BY <1>5, <2>1, <2>4, <2>5, <2>6, <2>7 DEF NoUseAfterFree
<1> QED BY <1>8, <1>9 DEF ScheduleWork

\* LightSwitchContextReleaseHandler, for the contexts that wait for nothing any more.
LEMMA ReleaseStep ==
    ASSUME TypeOK, NoUseAfterFree, NEW p \in SUBSET pending,
           pending' = p, heap' = Release(heap, p), work' = work
    PROVE  /\ heap' \in [Slot -> BindingData \cup {Free}]
           /\ pending' \subseteq Slot \X Device
           /\ NoUseAfterFree'
<1>0. ASSUME NEW s \in Slot
      PROVE  heap'[s] \in BindingData \cup {Free}
  <2>1. heap'[s] = heap[s] \/ heap'[s] = Free
    BY DEF Release
  <2> QED BY <2>1 DEF TypeOK
<1>1. heap' \in [Slot -> BindingData \cup {Free}] /\ pending' \subseteq Slot \X Device
  BY <1>0 DEF Release, TypeOK
<1>2. \A s \in Slot : Scheduled(s)' <=> Scheduled(s)
  BY DEF Scheduled
<1>3. \A s \in Slot : Awaited(s)' => Awaited(s)
  BY DEF Awaited
<1>4. \A s \in Slot : Scheduled(s) \/ Awaited(s)' => heap'[s] = heap[s]
  BY DEF Release, Awaited, NoUseAfterFree
<1> QED BY <1>1, <1>2, <1>3, <1>4 DEF NoUseAfterFree

\* NotifyBoundClusterChanged for a context that nothing refers to yet.
LEMMA NotifyStep ==
    ASSUME TypeOK, NoUseAfterFree, NEW s \in Slot, NEW data \in BindingData,
           NEW h \in [Slot -> BindingData \cup {Free}], h[s] = data,
           \A r \in Slot \ {s} : h[r] = heap[r],
           \A r \in Slot : Scheduled(r)' => Scheduled(r) /\ r # s,
           \A j, k \in DOMAIN work' : work'[j] = work'[k] => j = k,
           ~Awaited(s),
           NotifyBoundClusterChanged(s, data, h)
    PROVE  /\ heap' \in [Slot -> BindingData \cup {Free}]
           /\ pending' \subseteq Slot \X Device
           /\ applied' \in [Device \cup {Group} -> [1..MaxRequests -> Nat]]
           /\ NoUseAfterFree'
<1>1. data # Free
  BY FreeIsNoData
<1>2. CASE heap' = h /\ pending' = pending /\ applied' = applied
  <2>1. \A r \in Slot : Awaited(r)' <=> Awaited(r)
    BY <1>2 DEF Awaited
  <2>2. NoUseAfterFree'
    BY <1>2, <2>1 DEF NoUseAfterFree
  <2> QED BY <1>2, <2>2 DEF TypeOK
<1>3. CASE /\ applied' = IF Group \in table /\ data.isGroup
                         THEN [applied EXCEPT ![Group][data.id] = @ + 1] ELSE applied
           /\ pending' = pending \cup ({s} \X (table \cap Device))
           /\ heap' = IF table \cap Device = {} THEN [h EXCEPT ![s] = Free] ELSE h
  <2>1. applied' \in [Device \cup {Group} -> [1..MaxRequests -> Nat]]
    <3>1. data.id \in 1..MaxRequests
      BY DEF BindingData
    <3>2. applied' = [applied EXCEPT ![Group][data.id] = @ + 1] \/ applied' = applied
      BY <1>3
    <3> QED BY <3>1, <3>2, CountType DEF TypeOK
  <2>2. heap' \in [Slot -> BindingData \cup {Free}] /\ pending' \subseteq Slot \X Device
    <3>1. heap' = [h EXCEPT ![s] = Free] \/ heap' = h
      BY <1>3
    <3> QED BY <1>3, <3>1 DEF TypeOK
  <2>3. \A r \in Slot \ {s} : heap'[r] = heap[r] /\ (Awaited(r)' <=> Awaited(r))
    BY <1>3 DEF Awaited
  <2>4. Awaited(s)' => heap'[s] # Free
    BY <1>1, <1>3 DEF Awaited
  <2> QED BY <2>1, <2>2, <2>3, <2>4 DEF NoUseAfterFree
<1> QED BY <1>2, <1>3 DEF NotifyBoundClusterChanged
----------------------------------------------------------------------------
(***************************************************************************)
(* One lemma for each kind of step.                                        *)
(***************************************************************************)
Safe == TypeOK /\ NoUseAfterFree

LEMMA RequestKeepsSafe ==
    ASSUME Safe,
           \/ \E a \in OnOff : InitiateActionSwitch(a)
           \/ DimmerChangeBrightness
           \/ \E c \in OnOff, g \in BOOLEAN : ShellCommandHandler(c, g)
    PROVE  Safe'
<1> USE DEF Safe
<1>1. IsGroupBound \in BOOLEAN
  BY DEF IsGroupBound
<1>2. ASSUME NEW c \in OnOff \cup {"Level"}, NEW v \in UInt8, NEW g \in BOOLEAN,
             Request, HasRoom, ScheduleWork(c, v, g), crashed' \in BOOLEAN,
             sBrightness' \in 0..MaximumBrightness
      PROVE  Safe'
  <2>1. /\ heap' \in [Slot -> BindingData \cup {Free}]
        /\ work' \in Seq(Slot) /\ Len(work') <= WorkSize
        /\ NoUseAfterFree'
    BY <1>2, ScheduleWorkStep DEF Request
  <2>2. requests' \in 0..MaxRequests
    BY <1>2, BoundAssumption DEF Request, TypeOK
  <2> QED BY <1>2, <2>1, <2>2 DEF Request, TypeOK
<1>3. 0 \in UInt8
  BY DEF UInt8
<1>4. ASSUME NEW a \in OnOff, InitiateActionSwitch(a)
      PROVE  Safe'
  BY <1>1, <1>2, <1>3, <1>4 DEF InitiateActionSwitch, TypeOK
<1>5. CASE DimmerChangeBrightness
  BY <1>1, <1>2, <1>5, NextBrightnessType DEF DimmerChangeBrightness, TypeOK
<1>6. ASSUME NEW c \in OnOff, NEW g \in BOOLEAN, ShellCommandHandler(c, g)
      PROVE  Safe'
  <2>1. CASE HasRoom
    BY <1>2, <1>3, <1>6, <2>1 DEF ShellCommandHandler, TypeOK
  <2>2. CASE ~HasRoom
    <3>1. UNCHANGED <<heap, work, pending>>
      BY <1>6, <2>2 DEF ShellCommandHandler, Request
    <3>2. NoUseAfterFree'
      BY <3>1 DEF NoUseAfterFree, Scheduled, Awaited
    <3>3. requests' \in 0..MaxRequests
      BY <1>6, BoundAssumption DEF ShellCommandHandler, Request, TypeOK
    <3> QED BY <1>6, <2>2, <3>1, <3>2, <3>3 DEF ShellCommandHandler, Request, TypeOK
  <2> QED BY <2>1, <2>2
<1> QED BY <1>4, <1>5, <1>6

LEMMA WorkerKeepsSafe ==
    ASSUME Safe, SwitchWorkerHandler
    PROVE  Safe'
<1> USE DEF Safe
<1> DEFINE s == Head(work)
<1>1. /\ work \in Seq(Slot) /\ work # <<>> /\ Len(work) \in Nat \ {0} /\ Len(work) <= WorkSize
      /\ s = work[1] /\ 1 \in DOMAIN work /\ s \in Slot /\ work' = Tail(work)
  <2>1. work \in Seq(Slot) /\ work # <<>> /\ Len(work) <= WorkSize /\ work' = Tail(work)
    BY DEF SwitchWorkerHandler, TypeOK
  <2> QED BY <2>1
<1>2. /\ work' \in Seq(Slot) /\ Len(work') = Len(work) - 1
      /\ DOMAIN work' = 1..(Len(work) - 1) /\ DOMAIN work = 1..Len(work)
      /\ \A k \in DOMAIN work' : k + 1 \in DOMAIN work /\ work'[k] = work[k + 1]
  BY <1>1
<1>3. Scheduled(s)
  BY <1>1 DEF Scheduled
<1>4. ~Awaited(s) /\ heap[s] # Free
  BY <1>1, <1>3 DEF NoUseAfterFree
<1>5. heap[s] \in BindingData /\ heap \in [Slot -> BindingData \cup {Free}]
  BY <1>1, <1>4 DEF TypeOK
<1>6. ASSUME NEW k \in DOMAIN work'
      PROVE  k + 1 \in DOMAIN work /\ work'[k] = work[k + 1] /\ work'[k] # s
  <2>1. k + 1 \in DOMAIN work /\ work'[k] = work[k + 1] /\ k + 1 # 1
    BY <1>2
  <2> QED BY <1>1, <2>1 DEF NoUseAfterFree
<1>7. \A r \in Slot : Scheduled(r)' => Scheduled(r) /\ r # s
  BY <1>6 DEF Scheduled
<1>8. \A j, k \in DOMAIN work' : work'[j] = work'[k] => j = k
  <2> SUFFICES ASSUME NEW j \in DOMAIN work', NEW k \in DOMAIN work', work'[j] = work'[k]
               PROVE  j = k
    OBVIOUS
  <2>1. j + 1 = k + 1
    BY <1>6 DEF NoUseAfterFree
  <2> QED BY <1>2, <2>1
<1>9. NotifyBoundClusterChanged(s, heap[s], heap)
  BY DEF SwitchWorkerHandler
<1> HIDE DEF s
<1>10. /\ heap' \in [Slot -> BindingData \cup {Free}]
       /\ pending' \subseteq Slot \X Device
       /\ applied' \in [Device \cup {Group} -> [1..MaxRequests -> Nat]]
       /\ NoUseAfterFree'
  BY <1>1, <1>4, <1>5, <1>7, <1>8, <1>9, NotifyStep
<1>11. Len(work') <= WorkSize
  BY <1>1, <1>2, BoundAssumption
<1> QED BY <1>2, <1>10, <1>11 DEF SwitchWorkerHandler, TypeOK

LEMMA ConnectKeepsSafe ==
    ASSUME Safe, NEW d \in Device, ConnectOutcome(d)
    PROVE  Safe'
<1> USE DEF Safe
<1> DEFINE p == { w \in pending : w[2] # d }
<1>1. /\ pending' = p /\ heap' = Release(heap, p) /\ p \in SUBSET pending
      /\ UNCHANGED <<work, table, sBrightness, mCaseSessionRecovered, crashed, requests,
                     recoveries, applied>>
  BY DEF ConnectOutcome, DeviceConnected, ConnectionFailed
<1>2. inflight' \subseteq Invoke
  BY InvokesType DEF ConnectOutcome, DeviceConnected, ConnectionFailed, TypeOK
<1> HIDE DEF p
<1>3. /\ heap' \in [Slot -> BindingData \cup {Free}]
      /\ pending' \subseteq Slot \X Device
      /\ NoUseAfterFree'
  BY <1>1, ReleaseStep
<1> QED BY <1>1, <1>2, <1>3 DEF TypeOK

LEMMA TableKeepsSafe ==
    ASSUME Safe, NEW t \in SUBSET (Device \cup {Group}), BindingTableWritten(t)
    PROVE  Safe'
<1> USE DEF Safe
<1> DEFINE p == { w \in pending : w[2] \in t }
<1>1. /\ pending' = p /\ heap' = Release(heap, p) /\ p \in SUBSET pending /\ table' = t
      /\ UNCHANGED <<work, inflight, sBrightness, mCaseSessionRecovered, crashed, requests,
                     recoveries, applied>>
  BY DEF BindingTableWritten
<1> HIDE DEF p
<1>2. /\ heap' \in [Slot -> BindingData \cup {Free}]
      /\ pending' \subseteq Slot \X Device
      /\ NoUseAfterFree'
  BY <1>1, ReleaseStep
<1> QED BY <1>1, <1>2 DEF TypeOK

LEMMA InvokeKeepsSafe ==
    ASSUME Safe, NEW i \in inflight, InvokeOutcome(i) \/ DeviceApplies(i)
    PROVE  Safe'
<1> USE DEF Safe
<1>1. i \in Invoke /\ i.data \in BindingData /\ i.dev \in Device /\ i.data.id \in 1..MaxRequests
  <2>1. i \in Invoke
    BY DEF TypeOK
  <2>2. i.data \in BindingData /\ i.dev \in Device
    BY <2>1 DEF Invoke
  <2> QED BY <2>1, <2>2 DEF BindingData
<1>2. CASE InvokeTimedOut(i) /\ RecoverSession(i.data)
  <2> DEFINE copy == [i.data EXCEPT !.attempt = recoveries + 1]
             h == [heap EXCEPT ![NewSlot] = copy]
  <2>1. /\ inflight' \subseteq Invoke /\ recoveries' \in 0..MaxRecoveries
        /\ mCaseSessionRecovered' = TRUE
        /\ UNCHANGED <<work, table, sBrightness, requests>>
    BY <1>2, BoundAssumption DEF InvokeTimedOut, RecoverSession, MarkRecovered, TypeOK
  <2>2. copy \in BindingData
    <3>1. recoveries + 1 \in 0..MaxRecoveries
      BY <1>2, BoundAssumption DEF RecoverSession, TypeOK
    <3> QED BY <1>1, <3>1 DEF BindingData
  <2>3. CASE ~HasRoom
    <3>1. UNCHANGED <<heap, pending, applied>> /\ crashed' = TRUE
      BY <1>2, <2>3 DEF RecoverSession
    <3>2. NoUseAfterFree'
      BY <2>1, <3>1 DEF NoUseAfterFree, Scheduled, Awaited
    <3> QED BY <2>1, <3>1, <3>2 DEF TypeOK
  <2>4. CASE HasRoom
    <3>1. NotifyBoundClusterChanged(NewSlot, copy, h) /\ crashed' = crashed
      BY <1>2, <2>4 DEF RecoverSession
    <3>2. NewSlot \in Slot /\ heap[NewSlot] = Free
      BY <2>4, NewSlotIsFree
    <3> HIDE DEF copy
    <3>3. /\ h \in [Slot -> BindingData \cup {Free}] /\ h[NewSlot] = copy
          /\ \A r \in Slot \ {NewSlot} : h[r] = heap[r]
      BY <2>2, <3>2 DEF TypeOK
    <3>4. ~Scheduled(NewSlot) /\ ~Awaited(NewSlot)
      BY <3>2 DEF NoUseAfterFree
    <3>5. \A r \in Slot : Scheduled(r)' => Scheduled(r) /\ r # NewSlot
      BY <2>1, <3>4 DEF Scheduled
    <3>6. \A j, k \in DOMAIN work' : work'[j] = work'[k] => j = k
      BY <2>1 DEF NoUseAfterFree
    <3> HIDE DEF h
    <3>7. /\ heap' \in [Slot -> BindingData \cup {Free}]
          /\ pending' \subseteq Slot \X Device
          /\ applied' \in [Device \cup {Group} -> [1..MaxRequests -> Nat]]
          /\ NoUseAfterFree'
      BY <2>2, <3>1, <3>2, <3>3, <3>4, <3>5, <3>6, NotifyStep
    <3> QED BY <2>1, <3>1, <3>7 DEF TypeOK
  <2> QED BY <2>3, <2>4
<1>3. CASE UNCHANGED <<heap, work, pending>> /\ ~DeviceApplies(i)
  <2>1. NoUseAfterFree'
    BY <1>3 DEF NoUseAfterFree, Scheduled, Awaited
  <2>2. CASE InvokeSucceeded(i)
    BY <1>3, <2>1, <2>2 DEF InvokeSucceeded, TypeOK
  <2>3. CASE InvokeFailed(i) \/ (InvokeTimedOut(i) /\ GiveUp)
    BY <1>3, <2>1, <2>3 DEF InvokeFailed, InvokeTimedOut, GiveUp, TypeOK
  <2> QED BY <1>2, <1>3, <2>2, <2>3 DEF InvokeOutcome, InvokeTimedOut
<1>4. CASE DeviceApplies(i)
  <2>1. NoUseAfterFree'
    BY <1>4 DEF DeviceApplies, NoUseAfterFree, Scheduled, Awaited
  <2>2. [i EXCEPT !.done = TRUE] \in Invoke
    BY <1>1 DEF Invoke
  <2>3. inflight' \subseteq Invoke
    BY <1>4, <2>2 DEF DeviceApplies, TypeOK
  <2>4. applied' \in [Device \cup {Group} -> [1..MaxRequests -> Nat]]
    <3>1. applied' = [applied EXCEPT ![i.dev][i.data.id] = @ + 1]
      BY <1>4 DEF DeviceApplies
    <3> QED BY <1>1, <3>1, CountType
  <2> QED BY <1>4, <2>1, <2>3, <2>4 DEF DeviceApplies, TypeOK
<1> QED
  BY <1>2, <1>3, <1>4 DEF InvokeOutcome, InvokeSucceeded, InvokeTimedOut, InvokeFailed, GiveUp

LEMMA SafeInit == Init => Safe
<1> SUFFICES ASSUME Init PROVE Safe
  OBVIOUS
<1>1. heap \in [Slot -> BindingData \cup {Free}] /\ work \in Seq(Slot) /\ Len(work) <= WorkSize
  BY BoundAssumption DEF Init
<1>2. NoUseAfterFree
  BY DEF Init, NoUseAfterFree, Scheduled, Awaited
<1>3. sBrightness \in 0..MaximumBrightness
  BY DEF Init, MaximumBrightness
<1>4. applied \in [Device \cup {Group} -> [1..MaxRequests -> Nat]]
  BY DEF Init
<1>5. requests \in 0..MaxRequests /\ recoveries \in 0..MaxRecoveries
  BY BoundAssumption DEF Init
<1> QED BY <1>1, <1>2, <1>3, <1>4, <1>5 DEF Init, TypeOK, Safe

LEMMA SafeStep == Safe /\ [Next]_vars => Safe'
<1> SUFFICES ASSUME Safe, [Next]_vars PROVE Safe'
  OBVIOUS
<1>1. CASE UNCHANGED vars
  BY <1>1 DEF vars, Safe, TypeOK, NoUseAfterFree, Scheduled, Awaited
<1> QED
  BY <1>1, RequestKeepsSafe, WorkerKeepsSafe, ConnectKeepsSafe, TableKeepsSafe,
     InvokeKeepsSafe DEF Next

\* The state is well typed, and the work queue never longer than its size.
THEOREM TypeCorrect == Spec => []TypeOK
<1>1. Safe => TypeOK
  BY DEF Safe
<1> QED BY <1>1, SafeInit, SafeStep, PTL DEF Spec

\* What the CHIP thread is going to use has never been freed, for any number of
\* devices, requests and recoveries and any order of faults and table writes.
THEOREM MemoryCorrect == Spec => []NoUseAfterFree
<1>1. Safe => NoUseAfterFree
  BY DEF Safe
<1> QED BY <1>1, SafeInit, SafeStep, PTL DEF Spec
----------------------------------------------------------------------------
(***************************************************************************)
(* The way a request takes.  All the data that stems from one request says *)
(* the same about the group; what has been applied agrees with it.         *)
(***************************************************************************)
Live == { heap[s] : s \in { r \in Slot : heap[r] # Free } } \cup { i.data : i \in inflight }

Like(x, y) == x.id = y.id /\ x.isGroup = y.isGroup /\ x.value = y.value

OneWay ==
    /\ \A x \in Live : x.id <= requests
    /\ \A x, y \in Live : x.id = y.id => x.isGroup = y.isGroup
    /\ \A x \in Live : \A d \in Device : x.isGroup = TRUE => applied[d][x.id] = 0
    /\ \A x \in Live : x.isGroup = FALSE => applied[Group][x.id] = 0
    /\ \A i \in 1..MaxRequests : \A d \in Device \cup {Group} :
          i > requests => applied[d][i] = 0
    /\ \A i \in inflight : i.data.isGroup = FALSE
    /\ NeverBothWays

LEMMA LiveType ==
    ASSUME TypeOK, NEW x \in Live
    PROVE  x \in BindingData /\ x.id \in 1..MaxRequests /\ x.isGroup \in BOOLEAN
<1>1. x \in BindingData
  <2>1. CASE \E s \in Slot : heap[s] # Free /\ x = heap[s]
    BY <2>1 DEF TypeOK
  <2>2. CASE \E i \in inflight : x = i.data
    BY <2>2 DEF TypeOK, Invoke
  <2> QED BY <2>1, <2>2 DEF Live
<1> QED BY <1>1 DEF BindingData

\* A step that only copies or forgets data, and applies nothing.
LEMMA OneWayKept ==
    ASSUME OneWay, \A x \in Live' : \E y \in Live : Like(x, y),
           \A i \in inflight' : i.data.isGroup = FALSE,
           applied' = applied, requests' = requests
    PROVE  OneWay'
<1>1. \A x \in Live' : x.id <= requests'
  BY DEF OneWay, Like
<1>2. ASSUME NEW x \in Live', NEW y \in Live', x.id = y.id
      PROVE  x.isGroup = y.isGroup
  <2>1. PICK v \in Live, w \in Live : Like(x, v) /\ Like(y, w)
    OBVIOUS
  <2> QED BY <1>2, <2>1 DEF OneWay, Like
<1>3. \A x \in Live' : \A d \in Device : x.isGroup = TRUE => applied'[d][x.id] = 0
  BY DEF OneWay, Like
<1>4. \A x \in Live' : x.isGroup = FALSE => applied'[Group][x.id] = 0
  BY DEF OneWay, Like
<1> QED BY <1>1, <1>2, <1>3, <1>4 DEF OneWay, NeverBothWays

\* A new request.
LEMMA OneWayNew ==
    ASSUME TypeOK, OneWay, requests < MaxRequests, NEW n, n.id = requests + 1,
           \A x \in Live' : x \in Live \/ x = n,
           inflight' = inflight, applied' = applied, requests' = requests + 1
    PROVE  OneWay'
<1>1. requests \in Nat /\ MaxRequests \in Nat /\ requests + 1 \in 1..MaxRequests
  BY BoundAssumption DEF TypeOK
<1>2. \A x \in Live : x.id \in Nat /\ x.id <= requests /\ x.id # n.id
  BY <1>1, LiveType DEF OneWay
<1>3. \A d \in Device \cup {Group} : applied[d][n.id] = 0
  BY <1>1 DEF OneWay
<1>4. \A x \in Live' : x.id <= requests'
  BY <1>1, <1>2
<1>5. \A x, y \in Live' : x.id = y.id => x.isGroup = y.isGroup
  BY <1>2 DEF OneWay
<1>6. \A x \in Live' : \A d \in Device : x.isGroup = TRUE => applied'[d][x.id] = 0
  BY <1>3 DEF OneWay
<1>7. \A x \in Live' : x.isGroup = FALSE => applied'[Group][x.id] = 0
  BY <1>3 DEF OneWay
<1>8. \A i \in 1..MaxRequests : \A d \in Device \cup {Group} :
        i > requests' => applied'[d][i] = 0
  BY <1>1 DEF OneWay
<1> QED BY <1>4, <1>5, <1>6, <1>7, <1>8 DEF OneWay, NeverBothWays

\* A step that applies the data x, to the group or to the device d.
LEMMA OneWayApplied ==
    ASSUME TypeOK, OneWay, Live' \subseteq Live, NEW x \in Live,
           NEW d \in Device \cup {Group}, x.isGroup = (d = Group),
           applied' = [applied EXCEPT ![d][x.id] = @ + 1],
           \A i \in inflight' : i.data.isGroup = FALSE, requests' = requests
    PROVE  OneWay'
<1>1. x.id \in 1..MaxRequests /\ x.id <= requests /\ requests \in Nat
  BY LiveType DEF OneWay, TypeOK
<1>2. \A e \in Device \cup {Group} : \A i \in 1..MaxRequests :
        e # d \/ i # x.id => applied'[e][i] = applied[e][i]
  BY <1>1 DEF TypeOK
<1>3. \A y \in Live' : y \in Live /\ y.id \in 1..MaxRequests
  BY LiveType
<1>4. \A y \in Live' : y.id = x.id => y.isGroup = (d = Group)
  BY <1>3 DEF OneWay
<1>5. \A y \in Live' : \A e \in Device : y.isGroup = TRUE => applied'[e][y.id] = 0
  <2> SUFFICES ASSUME NEW y \in Live', NEW e \in Device, y.isGroup = TRUE
               PROVE  applied'[e][y.id] = 0
    OBVIOUS
  <2>1. e # d \/ y.id # x.id
    BY <1>4, DeviceAssumption
  <2>2. applied[e][y.id] = 0
    BY <1>3 DEF OneWay
  <2> QED BY <1>2, <1>3, <2>1, <2>2
<1>6. \A y \in Live' : y.isGroup = FALSE => applied'[Group][y.id] = 0
  <2> SUFFICES ASSUME NEW y \in Live', y.isGroup = FALSE
               PROVE  applied'[Group][y.id] = 0
    OBVIOUS
  <2>1. Group # d \/ y.id # x.id
    BY <1>4
  <2>2. applied[Group][y.id] = 0
    BY <1>3 DEF OneWay
  <2> QED BY <1>2, <1>3, <2>1, <2>2
<1>7. \A i \in 1..MaxRequests : \A e \in Device \cup {Group} :
        i > requests' => applied'[e][i] = 0
  <2> SUFFICES ASSUME NEW i \in 1..MaxRequests, NEW e \in Device \cup {Group}, i > requests
               PROVE  i # x.id
    BY <1>2 DEF OneWay
  <2> QED BY <1>1
<1>8. NeverBothWays'
  <2> SUFFICES ASSUME NEW i \in 1..MaxRequests, NEW e \in Device, applied'[Group][i] > 0
               PROVE  applied'[e][i] = 0
    BY DEF NeverBothWays
  <2>1. CASE i # x.id
    BY <1>2, <2>1 DEF OneWay, NeverBothWays
  <2>2. CASE i = x.id /\ d = Group
    <3>1. x.isGroup = TRUE /\ e # d
      BY <2>2, DeviceAssumption
    <3> QED BY <1>2, <2>2, <3>1 DEF OneWay
  <2>3. CASE i = x.id /\ d # Group
    <3>1. x.isGroup = FALSE
      BY <2>3
    <3>2. applied'[Group][i] = 0
      BY <1>2, <2>3, <3>1 DEF OneWay
    <3> QED BY <3>2
  <2> QED BY <2>1, <2>2, <2>3
<1>9. \A y \in Live' : y.id <= requests'
  BY DEF OneWay
<1>10. \A y, z \in Live' : y.id = z.id => y.isGroup = z.isGroup
  BY DEF OneWay
<1> QED BY <1>5, <1>6, <1>7, <1>8, <1>9, <1>10 DEF OneWay

LEMMA RequestKeepsOneWay ==
    ASSUME Safe, OneWay,
           \/ \E a \in OnOff : InitiateActionSwitch(a)
           \/ DimmerChangeBrightness
           \/ \E c \in OnOff, g \in BOOLEAN : ShellCommandHandler(c, g)
    PROVE  OneWay'
<1> USE DEF Safe
<1>1. /\ Request
      /\ \/ HasRoom /\ \E c, v, g : ScheduleWork(c, v, g)
         \/ heap' = heap
  BY DEF InitiateActionSwitch, DimmerChangeBrightness, ShellCommandHandler
<1>2. /\ requests < MaxRequests /\ inflight' = inflight /\ applied' = applied
      /\ requests' = requests + 1
  BY <1>1 DEF Request
<1>3. CASE heap' = heap
  <2>1. \A x \in Live' : x \in Live
    BY <1>2, <1>3 DEF Live
  <2> DEFINE n == [id |-> requests + 1]
  <2>2. n.id = requests + 1
    OBVIOUS
  <2> HIDE DEF n
  <2> QED BY <1>2, <2>1, <2>2, OneWayNew
<1>4. ASSUME HasRoom, NEW c, NEW v, NEW g, ScheduleWork(c, v, g)
      PROVE  OneWay'
  <2> DEFINE n == [command |-> c, value |-> v, isGroup |-> g, id |-> requests + 1,
                   attempt |-> 0]
  <2>1. n.id = requests + 1 /\ heap' = [heap EXCEPT ![NewSlot] = n]
    BY <1>4 DEF ScheduleWork
  <2> HIDE DEF n
  <2>2. \A s \in Slot : heap'[s] = heap[s] \/ heap'[s] = n
    BY <2>1 DEF TypeOK
  <2>3. \A x \in Live' : x \in Live \/ x = n
    BY <1>2, <2>2 DEF Live
  <2> QED BY <1>2, <2>1, <2>3, OneWayNew
<1> QED BY <1>1, <1>3, <1>4

LEMMA WorkerKeepsOneWay ==
    ASSUME Safe, OneWay, SwitchWorkerHandler
    PROVE  OneWay'
<1> USE DEF Safe
<1> DEFINE s == Head(work)
<1>1. s \in Slot /\ Scheduled(s)
  <2>1. work \in Seq(Slot) /\ work # <<>>
    BY DEF SwitchWorkerHandler, TypeOK
  <2>2. 1 \in DOMAIN work /\ s = work[1] /\ s \in Slot
    BY <2>1
  <2> QED BY <2>2 DEF Scheduled
<1>2. inflight' = inflight /\ requests' = requests
  BY DEF SwitchWorkerHandler
<1>3. NotifyBoundClusterChanged(s, heap[s], heap)
  BY DEF SwitchWorkerHandler
<1> HIDE DEF s
<1>4. heap[s] # Free
  BY <1>1 DEF NoUseAfterFree
<1>5. heap[s] \in Live
  BY <1>1, <1>4 DEF Live
<1>6. heap' = heap \/ heap' = [heap EXCEPT ![s] = Free]
  BY <1>3 DEF NotifyBoundClusterChanged
<1>7. \A r \in Slot : heap'[r] = heap[r] \/ heap'[r] = Free
  BY <1>6 DEF TypeOK
<1>8. Live' \subseteq Live
  BY <1>2, <1>7 DEF Live
<1>9. \A i \in inflight' : i.data.isGroup = FALSE
  BY <1>2 DEF OneWay
<1>10. CASE applied' = applied
  BY <1>2, <1>8, <1>9, <1>10, OneWayKept DEF Like
<1>11. CASE heap[s].isGroup /\ applied' = [applied EXCEPT ![Group][heap[s].id] = @ + 1]
  <2>1. heap[s].isGroup = (Group = Group)
    BY <1>5, <1>11, LiveType
  <2> QED BY <1>2, <1>5, <1>8, <1>9, <1>11, <2>1, OneWayApplied
<1> QED BY <1>3, <1>10, <1>11 DEF NotifyBoundClusterChanged

LEMMA ConnectKeepsOneWay ==
    ASSUME Safe, OneWay, NEW d \in Device, ConnectOutcome(d)
    PROVE  OneWay'
<1> USE DEF Safe
<1>1. /\ \E p : heap' = Release(heap, p)
      /\ applied' = applied /\ requests' = requests
  BY DEF ConnectOutcome, DeviceConnected, ConnectionFailed
<1>2. \A r \in Slot : heap'[r] = heap[r] \/ heap'[r] = Free
  BY <1>1 DEF Release
<1>3. ASSUME NEW i \in inflight', i \notin inflight
      PROVE  i.data \in Live /\ i.data.isGroup = FALSE
  <2>1. i \in Invokes(d)
    BY <1>3 DEF ConnectOutcome, DeviceConnected, ConnectionFailed
  <2>0. PICK s \in { t \in WaitingFor(d) : ~heap[t].isGroup } :
          i = [dev |-> d, data |-> heap[s], done |-> FALSE]
    BY <2>1 DEF Invokes
  <2>1a. s \in Slot /\ Awaited(s)
    BY <2>0 DEF WaitingFor, Awaited
  <2>2. s \in Slot /\ i.data = heap[s] /\ Awaited(s) /\ ~heap[s].isGroup
    BY <2>0, <2>1a
  <2>3. heap[s] # Free
    BY <2>2 DEF NoUseAfterFree
  <2>4. heap[s] \in Live
    BY <2>2, <2>3 DEF Live
  <2> QED BY <2>2, <2>4, LiveType
<1>4. \A i \in inflight' : i.data \in Live /\ i.data.isGroup = FALSE
  BY <1>3 DEF OneWay, Live
<1>5. \A x \in Live' : x \in Live
  BY <1>2, <1>4 DEF Live
<1> QED BY <1>1, <1>4, <1>5, OneWayKept DEF Like

LEMMA TableKeepsOneWay ==
    ASSUME Safe, OneWay, NEW t, BindingTableWritten(t)
    PROVE  OneWay'
<1>1. /\ \E p : heap' = Release(heap, p)
      /\ inflight' = inflight /\ applied' = applied /\ requests' = requests
  BY DEF BindingTableWritten
<1>2. \A r \in Slot : heap'[r] = heap[r] \/ heap'[r] = Free
  BY <1>1 DEF Release
<1>3. \A x \in Live' : x \in Live
  BY <1>1, <1>2 DEF Live
<1>4. \A i \in inflight' : i.data.isGroup = FALSE
  BY <1>1 DEF OneWay
<1> QED BY <1>1, <1>3, <1>4, OneWayKept DEF Like

LEMMA InvokeKeepsOneWay ==
    ASSUME Safe, OneWay, NEW i \in inflight, InvokeOutcome(i) \/ DeviceApplies(i)
    PROVE  OneWay'
<1> USE DEF Safe
<1>1. i.data \in Live /\ i.data.isGroup = FALSE
  BY DEF Live, OneWay
<1>2. i \in Invoke /\ i.dev \in Device /\ i.data \in BindingData
  <2>1. i \in Invoke
    BY DEF TypeOK
  <2> QED BY <2>1 DEF Invoke
<1>3. CASE DeviceApplies(i)
  <2>1. /\ applied' = [applied EXCEPT ![i.dev][i.data.id] = @ + 1]
        /\ inflight' = (inflight \ {i}) \cup {[i EXCEPT !.done = TRUE]}
        /\ heap' = heap /\ requests' = requests
    BY <1>3 DEF DeviceApplies
  <2>2. [i EXCEPT !.done = TRUE].data = i.data
    BY <1>2 DEF Invoke
  <2>3. \A j \in inflight' : j.data.isGroup = FALSE /\ \E k \in inflight : j.data = k.data
    BY <2>1, <2>2 DEF OneWay
  <2>4. Live' \subseteq Live
    BY <2>1, <2>3 DEF Live
  <2>5. i.data.isGroup = (i.dev = Group)
    BY <1>1, <1>2, DeviceAssumption
  <2> QED BY <1>1, <1>2, <2>1, <2>3, <2>4, <2>5, OneWayApplied
<1>4. CASE InvokeOutcome(i)
  <2>1. inflight' \subseteq inflight /\ requests' = requests
    BY <1>4 DEF InvokeOutcome, InvokeSucceeded, InvokeTimedOut, InvokeFailed
  <2>2. \A j \in inflight' : j.data.isGroup = FALSE
    BY <2>1 DEF OneWay
  <2>3. CASE heap' = heap /\ applied' = applied
    <3>1. \A x \in Live' : x \in Live
      BY <2>1, <2>3 DEF Live
    <3> QED BY <2>1, <2>2, <2>3, <3>1, OneWayKept DEF Like
  <2>4. CASE HasRoom /\ RecoverSession(i.data)
    <3> DEFINE copy == [i.data EXCEPT !.attempt = recoveries + 1]
               h == [heap EXCEPT ![NewSlot] = copy]
    <3>1. NotifyBoundClusterChanged(NewSlot, copy, h)
      BY <2>4 DEF RecoverSession
    <3>2. Like(copy, i.data) /\ copy.isGroup = FALSE
      BY <1>1, <1>2 DEF BindingData, Like
    <3> HIDE DEF copy
    <3>3. NewSlot \in Slot
      BY <2>4, NewSlotIsFree
    <3>4. \A r \in Slot : h[r] = heap[r] \/ h[r] = copy
      BY DEF TypeOK
    <3>5. h \in [Slot -> BindingData \cup {Free, copy}]
      BY <3>3 DEF TypeOK
    <3> HIDE DEF h
    <3>6. heap' = h \/ heap' = [h EXCEPT ![NewSlot] = Free]
      BY <3>1 DEF NotifyBoundClusterChanged
    <3>7. \A r \in Slot : heap'[r] = heap[r] \/ heap'[r] = copy \/ heap'[r] = Free
      BY <3>4, <3>5, <3>6
    <3>8. applied' = applied
      BY <3>1, <3>2 DEF NotifyBoundClusterChanged
    <3>9. \A x \in Live' : x \in Live \/ x = copy
      BY <2>1, <3>7 DEF Live
    <3>10. \A x \in Live' : \E y \in Live : Like(x, y)
      BY <1>1, <3>2, <3>9 DEF Like
    <3> QED BY <2>1, <2>2, <3>8, <3>10, OneWayKept
  <2> QED
    BY <1>4, <2>3, <2>4 DEF InvokeOutcome, InvokeSucceeded, InvokeTimedOut, InvokeFailed,
       RecoverSession, GiveUp
<1> QED BY <1>3, <1>4

LEMMA OneWayStep == Safe /\ OneWay /\ [Next]_vars => OneWay'
<1> SUFFICES ASSUME Safe, OneWay, [Next]_vars PROVE OneWay'
  OBVIOUS
<1>1. CASE UNCHANGED vars
  <2>1. /\ \A x \in Live' : x \in Live
        /\ \A i \in inflight' : i.data.isGroup = FALSE
        /\ applied' = applied /\ requests' = requests
    BY <1>1 DEF vars, Live, OneWay
  <2> QED BY <2>1, OneWayKept DEF Like
<1> QED
  BY <1>1, RequestKeepsOneWay, WorkerKeepsOneWay, ConnectKeepsOneWay, TableKeepsOneWay,
     InvokeKeepsOneWay DEF Next

LEMMA OneWayInit == Init => OneWay
<1> SUFFICES ASSUME Init PROVE OneWay
  OBVIOUS
<1>1. Live = {}
  BY DEF Init, Live
<1>2. inflight = {} /\ requests = 0
      /\ \A d \in Device \cup {Group} : \A i \in 1..MaxRequests : applied[d][i] = 0
  BY DEF Init
<1>3. NeverBothWays
  BY <1>2 DEF NeverBothWays
<1> QED BY <1>1, <1>2, <1>3 DEF OneWay

\* No request is ever sent both to the group and to single devices, whatever
\* happens to the binding table between the button and the last recovery.
THEOREM WayCorrect == Spec => []NeverBothWays
<1>1. OneWay => NeverBothWays
  BY DEF OneWay
<1> QED BY <1>1, OneWayInit, OneWayStep, SafeInit, SafeStep, PTL DEF Spec
----------------------------------------------------------------------------
(***************************************************************************)
(* Nothing leaks, where the work queue holds as much as the heap and the   *)
(* BindingManager reports no error.                                        *)
(***************************************************************************)
\* The scheduled objects are distinct, so that one free slot leaves room in the queue.
LEMMA WorkFits ==
    ASSUME Safe, HasRoom
    PROVE  Len(work) < MaxData
<1> DEFINE T == Slot \ {NewSlot}
<1>1. work \in Seq(Slot) /\ Len(work) \in Nat /\ DOMAIN work = 1..Len(work)
  BY DEF Safe, TypeOK
<1>2. MaxData \in Nat \ {0} /\ IsFiniteSet(Slot) /\ Cardinality(Slot) = MaxData
  BY BoundAssumption, FS_Interval DEF Slot
<1>3. NewSlot \in Slot /\ ~Scheduled(NewSlot)
  BY NewSlotIsFree DEF Safe, NoUseAfterFree
<1>4. IsFiniteSet(T) /\ Cardinality(T) = MaxData - 1
  BY <1>2, <1>3, FS_RemoveElement
<1>5. \A k \in 1..Len(work) : work[k] \in T
  BY <1>1, <1>3 DEF Scheduled
<1>6. work \in [1..Len(work) -> T]
  BY <1>1, <1>5
<1>7. \A j, k \in DOMAIN work : work[j] = work[k] => j = k
  BY DEF Safe, NoUseAfterFree
<1> HIDE DEF T
<1>8. work \in Injection(1..Len(work), T)
  BY <1>6, <1>7 DEF Injection, IsInjective
<1>9. Cardinality(1..Len(work)) <= Cardinality(T)
  BY <1>4, <1>8, FS_Injection
<1>10. Cardinality(1..Len(work)) = Len(work)
  <2>1. Cardinality(1..Len(work)) = IF 1 > Len(work) THEN 0 ELSE Len(work) - 1 + 1
    BY <1>1, FS_Interval
  <2> QED BY <1>1, <2>1
<1> QED BY <1>1, <1>2, <1>4, <1>9, <1>10

LEMMA ScheduleLeaksNothing ==
    ASSUME Safe, NoLeak, MaxData <= WorkSize, HasRoom, NEW c, NEW v, NEW g,
           ScheduleWork(c, v, g), pending' = pending
    PROVE  NoLeak'
<1>1. work \in Seq(Slot) /\ Len(work) \in Nat /\ NewSlot \in Slot
  BY NewSlotIsFree DEF Safe, TypeOK
<1>2. Len(work) < WorkSize
  BY <1>1, WorkFits, BoundAssumption
<1>3. work' = Append(work, NewSlot)
  BY <1>2 DEF ScheduleWork
<1>4. \A s \in Slot : Scheduled(s) \/ s = NewSlot => Scheduled(s)'
  <2>1. /\ \A k \in DOMAIN work : k \in DOMAIN work' /\ work'[k] = work[k]
        /\ Len(work) + 1 \in DOMAIN work' /\ work'[Len(work) + 1] = NewSlot
    BY <1>1, <1>3
  <2> QED BY <2>1 DEF Scheduled
<1>5. \A s \in Slot \ {NewSlot} : heap'[s] = heap[s]
  BY DEF ScheduleWork, Safe, TypeOK
<1> QED BY <1>4, <1>5 DEF NoLeak, Awaited

LEMMA ReleaseLeaksNothing ==
    ASSUME NoLeak, NEW p, pending' = p, heap' = Release(heap, p), work' = work
    PROVE  NoLeak'
<1> SUFFICES ASSUME NEW s \in Slot, heap'[s] # Free
             PROVE  Scheduled(s)' \/ Awaited(s)'
  BY DEF NoLeak
<1>1. heap[s] # Free /\ (Awaited(s) => \E d \in Device : <<s, d>> \in p)
  BY DEF Release, Awaited
<1> QED BY <1>1 DEF NoLeak, Scheduled, Awaited

LEMMA NotifyLeaksNothing ==
    ASSUME NoLeak, "notify" \notin Faults, NEW s \in Slot, NEW data,
           NEW h \in [Slot -> BindingData \cup {Free}], \A r \in Slot \ {s} : h[r] = heap[r],
           \A r \in Slot \ {s} : Scheduled(r) => Scheduled(r)',
           NotifyBoundClusterChanged(s, data, h)
    PROVE  NoLeak'
<1> SUFFICES ASSUME NEW r \in Slot, heap'[r] # Free
             PROVE  Scheduled(r)' \/ Awaited(r)'
  BY DEF NoLeak
<1>1. /\ pending' = pending \cup ({s} \X (table \cap Device))
      /\ heap' = IF table \cap Device = {} THEN [h EXCEPT ![s] = Free] ELSE h
  BY DEF NotifyBoundClusterChanged
<1>2. CASE r = s
  <2>1. table \cap Device # {}
    BY <1>1, <1>2
  <2> QED BY <1>1, <1>2, <2>1 DEF Awaited
<1>3. CASE r # s
  <2>1. heap[r] # Free
    BY <1>1, <1>3
  <2> QED BY <1>1, <1>3, <2>1 DEF NoLeak, Awaited
<1> QED BY <1>2, <1>3

LEMMA NoLeakStep ==
    ASSUME Safe, NoLeak, [Next]_vars, "notify" \notin Faults, MaxData <= WorkSize
    PROVE  NoLeak'
<1>1. ASSUME heap' = heap, work' = work, pending' = pending
      PROVE  NoLeak'
  BY <1>1 DEF NoLeak, Scheduled, Awaited
<1>2. CASE \/ \E a \in OnOff : InitiateActionSwitch(a)
           \/ DimmerChangeBrightness
           \/ \E c \in OnOff, g \in BOOLEAN : ShellCommandHandler(c, g)
  <2>1. /\ pending' = pending
        /\ \/ HasRoom /\ \E c, v, g : ScheduleWork(c, v, g)
           \/ heap' = heap /\ work' = work
    BY <1>2 DEF InitiateActionSwitch, DimmerChangeBrightness, ShellCommandHandler, Request
  <2> QED BY <1>1, <2>1, ScheduleLeaksNothing
<1>3. CASE SwitchWorkerHandler
  <2> DEFINE s == Head(work)
  <2>1. /\ work \in Seq(Slot) /\ work # <<>> /\ s \in Slot /\ work' = Tail(work)
        /\ NotifyBoundClusterChanged(s, heap[s], heap)
    BY <1>3 DEF SwitchWorkerHandler, Safe, TypeOK
  <2>2. ASSUME NEW r \in Slot, r # s, Scheduled(r)
        PROVE  Scheduled(r)'
    <3>1. PICK k \in DOMAIN work : work[k] = r
      BY <2>2 DEF Scheduled
    <3>2. k # 1
      BY <2>1, <2>2, <3>1
    <3>3. k - 1 \in DOMAIN work' /\ work'[k - 1] = work[k]
      BY <2>1, <3>2
    <3> QED BY <3>1, <3>3 DEF Scheduled
  <2>3. heap \in [Slot -> BindingData \cup {Free}]
    BY DEF Safe, TypeOK
  <2> HIDE DEF s
  <2> QED BY <2>1, <2>2, <2>3, NotifyLeaksNothing
<1>4. ASSUME NEW d \in Device, ConnectOutcome(d)
      PROVE  NoLeak'
  BY <1>4, ReleaseLeaksNothing DEF ConnectOutcome, DeviceConnected, ConnectionFailed
<1>5. ASSUME NEW t, BindingTableWritten(t)
      PROVE  NoLeak'
  BY <1>5, ReleaseLeaksNothing DEF BindingTableWritten
<1>6. ASSUME NEW i \in inflight, InvokeOutcome(i) \/ DeviceApplies(i)
      PROVE  NoLeak'
  <2>1. work' = work
    BY <1>6 DEF InvokeOutcome, DeviceApplies, InvokeSucceeded, InvokeTimedOut, InvokeFailed
  <2>2. CASE HasRoom /\ RecoverSession(i.data)
    <3> DEFINE copy == [i.data EXCEPT !.attempt = recoveries + 1]
               h == [heap EXCEPT ![NewSlot] = copy]
    <3>1. NotifyBoundClusterChanged(NewSlot, copy, h) /\ NewSlot \in Slot
      BY <2>2, NewSlotIsFree DEF RecoverSession
    <3>2. copy \in BindingData
      <4>1. i.data \in BindingData
        BY DEF Safe, TypeOK, Invoke
      <4>2. recoveries + 1 \in 0..MaxRecoveries
        BY <2>2, BoundAssumption DEF RecoverSession, Safe, TypeOK
      <4> QED BY <4>1, <4>2 DEF BindingData
    <3> HIDE DEF copy
    <3>3. /\ h \in [Slot -> BindingData \cup {Free}]
          /\ \A r \in Slot \ {NewSlot} : h[r] = heap[r]
      BY <3>1, <3>2 DEF Safe, TypeOK
    <3>4. \A r \in Slot : Scheduled(r) => Scheduled(r)'
      BY <2>1 DEF Scheduled
    <3> HIDE DEF h
    <3> QED BY <3>1, <3>3, <3>4, NotifyLeaksNothing
  <2>3. CASE heap' = heap /\ pending' = pending
    BY <1>1, <2>1, <2>3
  <2> QED
    BY <1>6, <2>2, <2>3 DEF InvokeOutcome, DeviceApplies, InvokeSucceeded, InvokeTimedOut,
       InvokeFailed, RecoverSession, GiveUp
<1>7. CASE UNCHANGED vars
  BY <1>1, <1>7 DEF vars
<1> QED BY <1>2, <1>3, <1>4, <1>5, <1>6, <1>7 DEF Next

\* Every object on the heap is scheduled or waits for a device, however often the
\* table changes, connections fail and commands are recovered, as long as the work
\* queue holds as much as the heap and NotifyBoundClusterChanged reports no error.
THEOREM NothingLeaks ==
    ASSUME "notify" \notin Faults, MaxData <= WorkSize
    PROVE  Spec => []NoLeak
<1>1. Init => NoLeak
  BY DEF Init, NoLeak
<1>2. Safe /\ NoLeak /\ [Next]_vars => NoLeak'
  BY NoLeakStep
<1> QED BY <1>1, <1>2, SafeInit, SafeStep, PTL DEF Spec
----------------------------------------------------------------------------
(***************************************************************************)
(* The group blocks the single devices, as long as nobody writes the table *)
(* and nobody uses the shell.                                              *)
(***************************************************************************)
GroupOnly ==
    Group \in table =>
        /\ inflight = {}
        /\ \A s \in Slot : heap[s] # Free => heap[s].isGroup = TRUE

LEMMA GroupOnlyStep ==
    ASSUME Safe, GroupOnly, [Next]_vars, TableChanges = FALSE, ShellRequests = {}
    PROVE  GroupOnly' /\ table' = table
           /\ \A i \in inflight' \ inflight : i.done \/ Group \notin table
<1>1. CASE (\E a \in OnOff : InitiateActionSwitch(a)) \/ DimmerChangeBrightness
  <2>1. PICK c, v : ScheduleWork(c, v, IsGroupBound)
    BY <1>1 DEF InitiateActionSwitch, DimmerChangeBrightness
  <2>2. table' = table /\ inflight' = inflight
    BY <1>1 DEF InitiateActionSwitch, DimmerChangeBrightness, Request
  <2> DEFINE n == [command |-> c, value |-> v, isGroup |-> IsGroupBound,
                   id |-> requests + 1, attempt |-> 0]
  <2>3. n.isGroup = IsGroupBound /\ heap' = [heap EXCEPT ![NewSlot] = n]
    BY <2>1 DEF ScheduleWork
  <2> HIDE DEF n
  <2>4. \A s \in Slot : heap'[s] = heap[s] \/ heap'[s] = n
    BY <2>3 DEF Safe, TypeOK
  <2>5. Group \in table => n.isGroup = TRUE
    BY <2>3 DEF IsGroupBound
  <2> QED BY <2>2, <2>4, <2>5 DEF GroupOnly
<1>2. ASSUME NEW c, NEW g, ShellCommandHandler(c, g)
      PROVE  FALSE
  BY <1>2 DEF ShellCommandHandler
<1>3. CASE SwitchWorkerHandler
  <2>1. heap' = heap \/ heap' = [heap EXCEPT ![Head(work)] = Free]
    BY <1>3 DEF SwitchWorkerHandler, NotifyBoundClusterChanged
  <2>2. \A s \in Slot : heap'[s] = heap[s] \/ heap'[s] = Free
    BY <2>1 DEF Safe, TypeOK
  <2> QED BY <1>3, <2>2 DEF SwitchWorkerHandler, GroupOnly
<1>4. ASSUME NEW d \in Device, ConnectOutcome(d)
      PROVE  GroupOnly' /\ table' = table
             /\ \A i \in inflight' \ inflight : i.done \/ Group \notin table
  <2>1. table' = table /\ \E p : heap' = Release(heap, p)
    BY <1>4 DEF ConnectOutcome, DeviceConnected, ConnectionFailed
  <2>2. \A s \in Slot : heap'[s] = heap[s] \/ heap'[s] = Free
    BY <2>1 DEF Release
  <2>3. Group \in table => Invokes(d) = {}
    <3> SUFFICES ASSUME Group \in table, NEW s \in WaitingFor(d)
                 PROVE  heap[s].isGroup
      BY DEF Invokes
    <3>1. s \in Slot /\ Awaited(s)
      BY DEF WaitingFor, Awaited
    <3>2. heap[s] # Free
      BY <3>1 DEF Safe, NoUseAfterFree
    <3> QED BY <3>1, <3>2 DEF GroupOnly
  <2>4. Group \in table => inflight' = {}
    BY <1>4, <2>3 DEF GroupOnly, ConnectOutcome, DeviceConnected, ConnectionFailed
  <2> QED BY <2>1, <2>2, <2>4 DEF GroupOnly
<1>5. ASSUME NEW t, BindingTableWritten(t)
      PROVE  FALSE
  BY <1>5 DEF BindingTableWritten
<1>6. ASSUME NEW i \in inflight, InvokeOutcome(i) \/ DeviceApplies(i)
      PROVE  GroupOnly' /\ table' = table
             /\ \A j \in inflight' \ inflight : j.done \/ Group \notin table
  <2>1. Group \notin table
    BY DEF GroupOnly
  <2>2. table' = table
    BY <1>6 DEF InvokeOutcome, DeviceApplies, InvokeSucceeded, InvokeTimedOut, InvokeFailed
  <2> QED BY <2>1, <2>2 DEF GroupOnly
<1>7. CASE UNCHANGED vars
  BY <1>7 DEF vars, GroupOnly
<1> QED BY <1>1, <1>2, <1>3, <1>4, <1>5, <1>6, <1>7 DEF Next

\* With a group in the table no unicast command is sent, whatever is bound besides:
\* true of the buttons as long as nobody writes the table or uses the shell.
THEOREM GroupBlocks ==
    ASSUME TableChanges = FALSE, ShellRequests = {}
    PROVE  Spec => GroupBlocksUnicast
<1>1. Init => GroupOnly
  BY DEF Init, GroupOnly
<1>2. Safe /\ GroupOnly /\ [Next]_vars
        => GroupOnly' /\ [\A i \in inflight' \ inflight : i.done \/ Group \notin table]_vars
  BY GroupOnlyStep
<1> QED BY <1>1, <1>2, SafeInit, SafeStep, PTL DEF Spec, GroupBlocksUnicast
----------------------------------------------------------------------------
(***************************************************************************)
(* The brightness goes around 0, 3, ... 252: what DimmerChangeBrightness   *)
(* casts to a byte fits, and is never 255, which is no level.              *)
(***************************************************************************)
Levels == { Step * n : n \in 0..84 }

GoodLevel(x) == x.command = "Level" => x.value \in Levels

LevelsKnown ==
    /\ sBrightness \in Levels
    /\ \A s \in Slot : GoodLevel(heap[s])
    /\ \A i \in inflight : GoodLevel(i.data)

LEMMA NextLevel ==
    ASSUME NEW b \in Levels
    PROVE  NextBrightness(b) \in Levels /\ NextBrightness(b) % 256 = NextBrightness(b)
<1>1. PICK n \in 0..84 : b = 3 * n
  BY DEF Levels, Step
<1>2. CASE n < 84
  <2>1. n + 1 \in 0..84 /\ NextBrightness(b) = 3 * (n + 1)
    BY <1>1, <1>2 DEF NextBrightness, Step, MaximumBrightness
  <2>2. (3 * (n + 1)) % 256 = 3 * (n + 1)
    BY <2>1
  <2> QED BY <2>1, <2>2 DEF Levels, Step
<1>3. CASE n = 84
  <2>1. NextBrightness(b) = 3 * 0
    BY <1>1, <1>3 DEF NextBrightness, Step, MaximumBrightness
  <2> QED BY <2>1 DEF Levels, Step
<1> QED BY <1>2, <1>3

LEMMA FreeIsGood == GoodLevel(Free)
BY DEF GoodLevel, Free

\* A step that only copies or forgets what there is.
LEMMA LevelsKept ==
    ASSUME LevelsKnown, sBrightness' = sBrightness, NEW x, GoodLevel(x),
           \A s \in Slot : heap'[s] = heap[s] \/ heap'[s] = Free \/ heap'[s] = x,
           \A i \in inflight' :
               (\E j \in inflight : i.data = j.data) \/ (\E s \in Slot : i.data = heap[s])
    PROVE  LevelsKnown'
<1>1. \A s \in Slot : GoodLevel(heap'[s])
  BY FreeIsGood DEF LevelsKnown
<1>2. \A i \in inflight' : GoodLevel(i.data)
  BY DEF LevelsKnown
<1> QED BY <1>1, <1>2 DEF LevelsKnown, GoodLevel

LEMMA RequestKeepsLevels ==
    ASSUME Safe, LevelsKnown,
           \/ \E a \in OnOff : InitiateActionSwitch(a)
           \/ DimmerChangeBrightness
           \/ \E c \in OnOff, g \in BOOLEAN : ShellCommandHandler(c, g)
    PROVE  LevelsKnown'
<1>1. ASSUME NEW c, NEW v, NEW g, ScheduleWork(c, v, g), c = "Level" => v \in Levels,
             sBrightness' \in Levels, inflight' = inflight
      PROVE  LevelsKnown'
  <2> DEFINE n == [command |-> c, value |-> v, isGroup |-> g, id |-> requests + 1,
                   attempt |-> 0]
  <2>1. GoodLevel(n) /\ heap' = [heap EXCEPT ![NewSlot] = n]
    BY <1>1 DEF ScheduleWork, GoodLevel
  <2> HIDE DEF n
  <2>2. \A s \in Slot : heap'[s] = heap[s] \/ heap'[s] = n
    BY <2>1 DEF Safe, TypeOK
  <2>3. \A s \in Slot : GoodLevel(heap'[s])
    BY <2>1, <2>2 DEF LevelsKnown
  <2> QED BY <1>1, <2>3 DEF LevelsKnown, GoodLevel
<1>2. \A c \in OnOff : c # "Level"
  BY DEF OnOff
<1>3. ASSUME NEW a \in OnOff, InitiateActionSwitch(a)
      PROVE  LevelsKnown'
  BY <1>1, <1>2, <1>3 DEF InitiateActionSwitch, Request, LevelsKnown
<1>4. CASE DimmerChangeBrightness
  <2>1. NextBrightness(sBrightness) \in Levels
        /\ NextBrightness(sBrightness) % 256 = NextBrightness(sBrightness)
    BY NextLevel DEF LevelsKnown
  <2> QED BY <1>1, <1>4, <2>1 DEF DimmerChangeBrightness, Request
<1>5. ASSUME NEW c \in OnOff, NEW g \in BOOLEAN, ShellCommandHandler(c, g)
      PROVE  LevelsKnown'
  <2>1. sBrightness' = sBrightness /\ inflight' = inflight
    BY <1>5 DEF ShellCommandHandler, Request
  <2>2. CASE ScheduleWork(c, 0, g)
    <3>1. c # "Level" /\ sBrightness' \in Levels
      BY <1>2, <2>1 DEF LevelsKnown
    <3> QED BY <1>1, <2>1, <2>2, <3>1
  <2>3. CASE heap' = heap
    <3>1. \A j \in inflight' : \E k \in inflight : j.data = k.data
      BY <2>1
    <3> QED BY <2>1, <2>3, <3>1, FreeIsGood, LevelsKept
  <2> QED BY <1>5, <2>2, <2>3 DEF ShellCommandHandler
<1> QED BY <1>3, <1>4, <1>5

LEMMA ThreadKeepsLevels ==
    ASSUME Safe, LevelsKnown,
           \/ SwitchWorkerHandler
           \/ \E d \in Device : ConnectOutcome(d)
           \/ \E t : BindingTableWritten(t)
    PROVE  LevelsKnown'
<1>1. CASE SwitchWorkerHandler
  <2>1. heap' = heap \/ heap' = [heap EXCEPT ![Head(work)] = Free]
    BY <1>1 DEF SwitchWorkerHandler, NotifyBoundClusterChanged
  <2>2. \A s \in Slot : heap'[s] = heap[s] \/ heap'[s] = Free
    BY <2>1 DEF Safe, TypeOK
  <2>3. inflight' = inflight /\ sBrightness' = sBrightness
    BY <1>1 DEF SwitchWorkerHandler
  <2> QED BY <2>2, <2>3, FreeIsGood, LevelsKept
<1>2. ASSUME NEW d \in Device, ConnectOutcome(d)
      PROVE  LevelsKnown'
  <2>1. \A s \in Slot : heap'[s] = heap[s] \/ heap'[s] = Free
    BY <1>2 DEF ConnectOutcome, DeviceConnected, ConnectionFailed, Release
  <2>2. sBrightness' = sBrightness /\ \A i \in inflight' : i \in inflight \/ i \in Invokes(d)
    BY <1>2 DEF ConnectOutcome, DeviceConnected, ConnectionFailed
  <2>3. ASSUME NEW i \in Invokes(d)
        PROVE  \E s \in Slot : i.data = heap[s]
    <3>1. PICK s \in WaitingFor(d) : i = [dev |-> d, data |-> heap[s], done |-> FALSE]
      BY DEF Invokes
    <3>2. s \in Slot /\ i.data = heap[s]
      BY <3>1 DEF WaitingFor
    <3> QED BY <3>2
  <2> QED BY <2>1, <2>2, <2>3, FreeIsGood, LevelsKept
<1>3. ASSUME NEW t, BindingTableWritten(t)
      PROVE  LevelsKnown'
  <2>1. \A s \in Slot : heap'[s] = heap[s] \/ heap'[s] = Free
    BY <1>3 DEF BindingTableWritten, Release
  <2>2. inflight' = inflight /\ sBrightness' = sBrightness
    BY <1>3 DEF BindingTableWritten
  <2> QED BY <2>1, <2>2, FreeIsGood, LevelsKept
<1> QED BY <1>1, <1>2, <1>3

LEMMA InvokeKeepsLevels ==
    ASSUME Safe, LevelsKnown, NEW i \in inflight, InvokeOutcome(i) \/ DeviceApplies(i)
    PROVE  LevelsKnown'
<1>1. i \in Invoke /\ i.data \in BindingData /\ GoodLevel(i.data)
  <2>1. i \in Invoke
    BY DEF Safe, TypeOK
  <2> QED BY <2>1 DEF Invoke, LevelsKnown
<1>2. sBrightness' = sBrightness
  BY DEF InvokeOutcome, InvokeSucceeded, InvokeTimedOut, InvokeFailed, DeviceApplies
<1>3. \A j \in inflight' : \E k \in inflight : j.data = k.data
  <2>1. inflight' \subseteq inflight \cup {[i EXCEPT !.done = TRUE]}
    BY DEF InvokeOutcome, InvokeSucceeded, InvokeTimedOut, InvokeFailed, DeviceApplies
  <2>2. [i EXCEPT !.done = TRUE].data = i.data
    BY <1>1 DEF Invoke
  <2> QED BY <2>1, <2>2
<1>4. CASE heap' = heap
  BY <1>2, <1>3, <1>4, FreeIsGood, LevelsKept
<1>5. CASE HasRoom /\ RecoverSession(i.data)
  <2> DEFINE copy == [i.data EXCEPT !.attempt = recoveries + 1]
             h == [heap EXCEPT ![NewSlot] = copy]
  <2>1. NotifyBoundClusterChanged(NewSlot, copy, h)
    BY <1>5 DEF RecoverSession
  <2>2. GoodLevel(copy)
    BY <1>1 DEF BindingData, GoodLevel
  <2> HIDE DEF copy
  <2>3. heap' = h \/ heap' = [h EXCEPT ![NewSlot] = Free]
    BY <2>1 DEF NotifyBoundClusterChanged
  <2>4. \A s \in Slot : heap'[s] = heap[s] \/ heap'[s] = Free \/ heap'[s] = copy
    BY <2>3 DEF Safe, TypeOK
  <2> QED BY <1>2, <1>3, <2>2, <2>4, LevelsKept
<1> QED
  BY <1>4, <1>5 DEF InvokeOutcome, InvokeSucceeded, InvokeTimedOut, InvokeFailed,
     DeviceApplies, RecoverSession, GiveUp

LEMMA LevelsStep == Safe /\ LevelsKnown /\ [Next]_vars => LevelsKnown'
<1> SUFFICES ASSUME Safe, LevelsKnown, [Next]_vars PROVE LevelsKnown'
  OBVIOUS
<1>1. CASE UNCHANGED vars
  BY <1>1 DEF vars, LevelsKnown, GoodLevel
<1> QED
  BY <1>1, RequestKeepsLevels, ThreadKeepsLevels, InvokeKeepsLevels DEF Next

LEMMA LevelsInit == Init => LevelsKnown
<1> SUFFICES ASSUME Init PROVE LevelsKnown
  OBVIOUS
<1>1. 0 = Step * 0
  BY DEF Step
<1>2. sBrightness \in Levels
  BY <1>1 DEF Init, Levels
<1> QED BY <1>2, FreeIsGood DEF Init, LevelsKnown

\* However often the dimmer goes around, and whatever is retransmitted in the
\* meantime, every level under way to a light is one of 0, 3, ... 252: the byte
\* the brightness is cast to has held it, and it is never 255, the null of a level.
THEOREM LevelsSent ==
    Spec => [](\A i \in inflight : i.data.command = "Level"
                   => i.data.value \in Levels /\ i.data.value < 255)
<1>1. \A v \in Levels : v < 255
  BY DEF Levels, Step
<1>2. LevelsKnown => \A i \in inflight : i.data.command = "Level"
                         => i.data.value \in Levels /\ i.data.value < 255
  BY <1>1 DEF LevelsKnown, GoodLevel
<1> QED BY <1>2, LevelsInit, LevelsStep, SafeInit, SafeStep, PTL DEF Spec
============================================================================
