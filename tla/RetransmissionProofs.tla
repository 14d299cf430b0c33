------------------------ MODULE RetransmissionProofs ------------------------
(***************************************************************************)
(* Theorems about BindingHandler: what the retransmission of a command     *)
(* after a timeout does to the devices: for any number of them and, in the *)
(* last part, for a single one.                                            *)
(*                                                                         *)
(* A command that is sent has a key, the request it stems from and the     *)
(* recovery that sent it again.  No device is ever about to be given two   *)
(* commands of one key, so what it carries out and what is under way to it *)
(* can be counted together, against the requests and the recoveries.       *)
(***************************************************************************)
EXTENDS BindingHandlerProofs

USE DEF history

Key(x) == <<x.id, x.attempt>>

\* The contexts that will be, or are being, connected to d, and the commands
\* invoked on d that it has not carried out.
Due(d)  == { s \in Slot : Scheduled(s) \/ <<s, d>> \in pending }
ToDo(d) == { i \in inflight : i.dev = d /\ ~i.done }

UnderWay(d) == { Key(heap[s]) : s \in Due(d) } \cup { Key(i.data) : i \in ToDo(d) }

Distinct ==
    /\ \A s, t \in Slot :
          heap[s] # Free /\ heap[t] # Free /\ Key(heap[s]) = Key(heap[t]) => s = t
    /\ \A d \in Device : \A s \in Due(d), i \in inflight :
          i.dev = d => Key(i.data) # Key(heap[s])
    /\ \A i, j \in inflight : i.dev = j.dev /\ Key(i.data) = Key(j.data) => i = j
    /\ \A x \in Live : x.attempt <= recoveries
    /\ \A s \in Slot : Scheduled(s) => heap[s].attempt = 0

LEMMA DueIsLive ==
    ASSUME Safe, NEW d \in Device, NEW s \in Due(d)
    PROVE  s \in Slot /\ heap[s] # Free /\ heap[s] \in Live
BY DEF Due, Safe, NoUseAfterFree, Awaited, Live

LEMMA LiveAttempts ==
    ASSUME Safe, NEW x \in Live
    PROVE  x.id \in Nat /\ x.attempt \in Nat
<1>1. x \in BindingData
  BY LiveType DEF Safe
<1> QED BY <1>1, BoundAssumption DEF BindingData
----------------------------------------------------------------------------
(***************************************************************************)
(* The four ways in which a step changes what is under way.                *)
(***************************************************************************)
\* A step that hands contexts on, or forgets them, and creates none.
Forgets ==
    /\ \A s \in Slot : heap'[s] = heap[s] \/ heap'[s] = Free
    /\ \A s \in Slot : Scheduled(s)' => Scheduled(s)
    /\ \A d \in Device : Due(d)' \subseteq Due(d)
    /\ inflight' \subseteq inflight
    /\ recoveries' \in {recoveries, recoveries + 1}

LEMMA ForgetsKeepsKeys ==
    ASSUME Safe, Safe', Distinct, Forgets
    PROVE  Distinct' /\ \A d \in Device : UnderWay(d)' \subseteq UnderWay(d)
<1>1. ASSUME NEW d \in Device, NEW s \in Due(d)'
      PROVE  s \in Due(d) /\ heap'[s] = heap[s]
  <2>1. s \in Slot /\ s \in Due(d) /\ heap'[s] # Free
    BY DueIsLive DEF Forgets, Safe, Due, NoUseAfterFree, Awaited
  <2> QED BY <2>1 DEF Forgets
<1>2. ASSUME NEW x \in Live'
      PROVE  x.attempt <= recoveries'
  <2>1. x \in Live
    BY DEF Live, Forgets
  <2>2. x.attempt \in Nat /\ x.attempt <= recoveries /\ recoveries \in Nat
    BY <2>1, LiveAttempts DEF Distinct, Safe, TypeOK
  <2> QED BY <2>2 DEF Forgets
<1>3. ASSUME NEW s \in Slot, Scheduled(s)'
      PROVE  heap'[s].attempt = 0
  <2>1. heap'[s] # Free
    BY <1>3 DEF Safe, NoUseAfterFree
  <2> QED BY <1>3, <2>1 DEF Forgets, Distinct
<1>4. \A d \in Device : \A s \in Due(d)', i \in inflight' :
        i.dev = d => Key(i.data) # Key(heap'[s])
  BY <1>1 DEF Distinct, Forgets
<1>5. \A s, t \in Slot :
        heap'[s] # Free /\ heap'[t] # Free /\ Key(heap'[s]) = Key(heap'[t]) => s = t
  BY DEF Distinct, Forgets
<1>6. Distinct'
  BY <1>2, <1>3, <1>4, <1>5 DEF Distinct, Forgets
<1>7. ASSUME NEW d \in Device, NEW k \in UnderWay(d)'
      PROVE  k \in UnderWay(d)
  BY <1>1, <1>7 DEF UnderWay, ToDo, Forgets
<1> QED BY <1>6, <1>7

\* A step that puts a context of key k into slot s.
Creates(s, k) ==
    /\ heap[s] = Free
    /\ \A r \in Slot \ {s} : heap'[r] = heap[r]
    /\ heap'[s] = Free \/ Key(heap'[s]) = k
    /\ \A r \in Slot : Scheduled(r)' => Scheduled(r) \/ (r = s /\ k[2] = 0)
    /\ \A d \in Device : Due(d)' \subseteq Due(d) \cup {s}
    /\ inflight' \subseteq inflight
    /\ k[2] <= recoveries' /\ recoveries' \in {recoveries, recoveries + 1}

LEMMA CreatesAddsKey ==
    ASSUME Safe, Safe', Distinct, NEW s \in Slot, NEW k, Creates(s, k),
           \A x \in Live : Key(x) # k
    PROVE  Distinct' /\ \A d \in Device : UnderWay(d)' \subseteq UnderWay(d) \cup {k}
<1>0. \A r \in Slot : heap[r] # Free => r # s /\ heap[r] \in Live /\ heap'[r] = heap[r]
  BY DEF Creates, Live
<1>1. ASSUME NEW d \in Device, NEW r \in Due(d)'
      PROVE  \/ r \in Due(d) /\ r # s /\ heap'[r] = heap[r] /\ heap[r] \in Live
             \/ r = s /\ Key(heap'[r]) = k
  <2>1. r \in Slot /\ heap'[r] # Free
    BY DEF Safe, Due, NoUseAfterFree, Awaited
  <2>2. CASE r = s
    BY <2>1, <2>2 DEF Creates
  <2>3. CASE r # s
    <3>1. r \in Due(d)
      BY <2>3 DEF Creates
    <3> QED BY <2>3, <3>1, DueIsLive, <1>0
  <2> QED BY <2>2, <2>3
<1>2. \A i \in inflight' : i \in inflight /\ i.data \in Live
  BY DEF Creates, Live
<1>3. \A x \in Live' : x \in Live \/ Key(x) = k
  <2>1. \A r \in Slot : heap'[r] # Free => heap'[r] \in Live \/ Key(heap'[r]) = k
    BY DEF Creates, Live
  <2> QED BY <1>2, <2>1 DEF Live
<1>4. \A x \in Live' : x.attempt <= recoveries'
  <2>1. recoveries \in Nat
    BY DEF Safe, TypeOK
  <2>2. ASSUME NEW x \in Live
        PROVE  x.attempt <= recoveries'
    <3>1. x.attempt \in Nat /\ x.attempt <= recoveries
      BY LiveAttempts DEF Distinct
    <3> QED BY <2>1, <3>1 DEF Creates
  <2>3. \A x : Key(x) = k => x.attempt = k[2]
    BY DEF Key
  <2> QED BY <1>3, <2>2, <2>3 DEF Creates
<1>5. ASSUME NEW r \in Slot, Scheduled(r)'
      PROVE  heap'[r].attempt = 0
  <2>1. heap'[r] # Free
    BY <1>5 DEF Safe, NoUseAfterFree
  <2>2. CASE r # s
    BY <1>5, <2>1, <2>2 DEF Creates, Distinct
  <2>3. CASE r = s
    <3>1. Key(heap'[r]) = k
      BY <2>1, <2>3 DEF Creates
    <3>2. k[2] = 0
      <4>1. ~Scheduled(s)
        BY DEF Creates, Safe, NoUseAfterFree
      <4> QED BY <1>5, <2>3, <4>1 DEF Creates
    <3> QED BY <3>1, <3>2 DEF Key
  <2> QED BY <2>2, <2>3
<1>6. \A d \in Device : \A r \in Due(d)', i \in inflight' :
        i.dev = d => Key(i.data) # Key(heap'[r])
  BY <1>1, <1>2 DEF Distinct
<1>7. ASSUME NEW r \in Slot, NEW t \in Slot, heap'[r] # Free, heap'[t] # Free,
             Key(heap'[r]) = Key(heap'[t])
      PROVE  r = t
  <2>1. \A q \in Slot : heap'[q] # Free =>
            \/ q # s /\ heap'[q] = heap[q] /\ heap[q] \in Live
            \/ q = s /\ Key(heap'[q]) = k
    BY <1>0 DEF Creates
  <2> QED BY <1>7, <2>1 DEF Distinct
<1>8. Distinct'
  BY <1>2, <1>4, <1>5, <1>6, <1>7 DEF Distinct
<1>9. ASSUME NEW d \in Device, NEW q \in UnderWay(d)'
      PROVE  q \in UnderWay(d) \cup {k}
  BY <1>1, <1>2, <1>9 DEF UnderWay, ToDo
<1> QED BY <1>8, <1>9
\* The session to d is up, or not: what waits for d is sent, or forgotten.
Connects(d) ==
    /\ \A s \in Slot : heap'[s] = heap[s] \/ heap'[s] = Free
    /\ work' = work /\ pending' = { w \in pending : w[2] # d }
    /\ inflight \subseteq inflight'
    /\ \A i \in inflight' \ inflight : \E s \in WaitingFor(d) :
          i = [dev |-> d, data |-> heap[s], done |-> FALSE]
    /\ recoveries' = recoveries

LEMMA ConnectsKeepsKeys ==
    ASSUME Safe, Safe', Distinct, NEW d \in Device, Connects(d)
    PROVE  Distinct' /\ \A e \in Device : UnderWay(e)' \subseteq UnderWay(e)
<1>1. ASSUME NEW e \in Device, NEW s \in Due(e)'
      PROVE  /\ s \in Due(e) /\ heap'[s] = heap[s] /\ heap[s] # Free /\ s \in Slot
             /\ e = d => s \notin WaitingFor(d)
  <2>1. s \in Slot /\ heap'[s] # Free
    BY DEF Safe, Due, NoUseAfterFree, Awaited
  <2>2. s \in Due(e) /\ heap'[s] = heap[s]
    BY <2>1 DEF Connects, Due, Scheduled
  <2>3. e = d => s \notin WaitingFor(d)
    BY <2>2 DEF Connects, Due, WaitingFor, Scheduled, Safe, NoUseAfterFree, Awaited
  <2> QED BY <2>1, <2>2, <2>3
<1>2. ASSUME NEW s \in WaitingFor(d)
      PROVE  s \in Slot /\ s \in Due(d) /\ heap[s] # Free /\ heap[s] \in Live
  <2>1. s \in Due(d)
    BY DEF Due, WaitingFor
  <2> QED BY <2>1, DueIsLive
<1>3. ASSUME NEW i \in inflight'
      PROVE  \/ i \in inflight
             \/ \E s \in WaitingFor(d) : i.data = heap[s] /\ i.dev = d /\ ~i.done
                                         /\ i = [dev |-> d, data |-> heap[s], done |-> FALSE]
  <2>1. CASE i \notin inflight
    <3>1. PICK s \in WaitingFor(d) : i = [dev |-> d, data |-> heap[s], done |-> FALSE]
      BY <2>1 DEF Connects
    <3>2. i.data = heap[s] /\ i.dev = d /\ ~i.done
      BY <3>1
    <3> QED BY <3>1, <3>2
  <2> QED BY <2>1
<1>4. \A x \in Live' : x \in Live
  <2>1. \A i \in inflight' : i.data \in Live
    BY <1>2, <1>3 DEF Live
  <2> QED BY <2>1 DEF Live, Connects
<1>5. \A s \in Slot : Scheduled(s)' => heap'[s].attempt = 0
  BY DEF Safe, NoUseAfterFree, Scheduled, Connects, Distinct
<1>6. \A s, t \in Slot :
        heap'[s] # Free /\ heap'[t] # Free /\ Key(heap'[s]) = Key(heap'[t]) => s = t
  BY DEF Distinct, Connects
<1>7. ASSUME NEW e \in Device, NEW s \in Due(e)', NEW i \in inflight', i.dev = e
      PROVE  Key(i.data) # Key(heap'[s])
  <2>1. CASE i \in inflight
    BY <1>1, <1>7, <2>1 DEF Distinct
  <2>2. CASE \E t \in WaitingFor(d) : i.data = heap[t] /\ i.dev = d
    <3>1. PICK t \in WaitingFor(d) : i.data = heap[t] /\ e = d
      BY <1>7, <2>2
    <3>2. s # t
      BY <1>1, <3>1
    <3> QED BY <1>1, <1>2, <3>1, <3>2 DEF Distinct
  <2> QED BY <1>3, <2>1, <2>2
<1>8. ASSUME NEW i \in inflight', NEW j \in inflight', i.dev = j.dev,
             Key(i.data) = Key(j.data)
      PROVE  i = j
  <2>1. ASSUME NEW x \in inflight, NEW s \in WaitingFor(d), x.dev = d
        PROVE  Key(x.data) # Key(heap[s])
    BY <1>2, <2>1 DEF Distinct
  <2>2. ASSUME NEW s \in WaitingFor(d), NEW t \in WaitingFor(d), Key(heap[s]) = Key(heap[t])
        PROVE  s = t
    BY <1>2, <2>2 DEF Distinct
  <2>3. CASE i \in inflight /\ j \in inflight
    BY <1>8, <2>3 DEF Distinct
  <2>4. CASE i \notin inflight /\ j \notin inflight
    BY <1>3, <1>8, <2>2, <2>4
  <2> QED BY <1>3, <1>8, <2>1, <2>3, <2>4
<1>9. Distinct'
  BY <1>4, <1>5, <1>6, <1>7, <1>8 DEF Distinct, Connects
<1>10. ASSUME NEW e \in Device, NEW k \in UnderWay(e)'
       PROVE  k \in UnderWay(e)
  <2>1. CASE \E s \in Due(e)' : k = Key(heap'[s])
    BY <1>1, <2>1 DEF UnderWay
  <2>2. CASE \E i \in inflight : i.dev = e /\ ~i.done /\ k = Key(i.data)
    BY <2>2 DEF UnderWay, ToDo
  <2>3. CASE \E s \in WaitingFor(d) : e = d /\ k = Key(heap[s])
    BY <1>2, <2>3 DEF UnderWay
  <2>4. ASSUME NEW i \in ToDo(e)', k = Key(i.data)
        PROVE  k \in UnderWay(e)
    <3>1. i \in inflight' /\ i.dev = e /\ ~i.done
      BY DEF ToDo
    <3> QED BY <1>3, <2>2, <2>3, <2>4, <3>1
  <2> QED BY <1>10, <2>1, <2>4 DEF UnderWay
<1> QED BY <1>9, <1>10

\* A device carries a command out: its key is under way no longer.
LEMMA AppliesEndsKey ==
    ASSUME Safe, Distinct, NEW i \in inflight, DeviceApplies(i)
    PROVE  /\ Distinct'
           /\ \A d \in Device : UnderWay(d)' \subseteq UnderWay(d)
           /\ Key(i.data) \in UnderWay(i.dev)
           /\ Key(i.data) \notin UnderWay(i.dev)'
<1> DEFINE n == [i EXCEPT !.done = TRUE]
<1>0. i \in Invoke /\ i.dev \in Device
  BY DEF Safe, TypeOK, Invoke
<1>1. n.dev = i.dev /\ n.data = i.data /\ n.done = TRUE /\ ~i.done
  BY <1>0 DEF Invoke, DeviceApplies
<1>2. /\ inflight' = (inflight \ {i}) \cup {n}
      /\ heap' = heap /\ work' = work /\ pending' = pending /\ recoveries' = recoveries
  BY DEF DeviceApplies
<1> HIDE DEF n
<1>3. \A d \in Device : Due(d)' = Due(d)
  BY <1>2 DEF Due, Scheduled
<1>4. \A j \in inflight' : \E k \in inflight :
        /\ j.dev = k.dev /\ j.data = k.data
        /\ j = IF k = i THEN n ELSE k
  BY <1>1, <1>2
<1>5. Live' \subseteq Live
  BY <1>2, <1>4 DEF Live
<1>6. \A j, k \in inflight' : j.dev = k.dev /\ Key(j.data) = Key(k.data) => j = k
  BY <1>4 DEF Distinct
<1>7. Distinct'
  BY <1>2, <1>3, <1>4, <1>5, <1>6 DEF Distinct, Scheduled
<1>8. \A d \in Device : ToDo(d)' = ToDo(d) \ {i}
  BY <1>1, <1>2 DEF ToDo
<1>9. \A d \in Device : UnderWay(d)' \subseteq UnderWay(d)
  BY <1>2, <1>3, <1>8 DEF UnderWay
<1>10. i \in ToDo(i.dev)
  BY <1>1 DEF ToDo
<1>11. Key(i.data) \in UnderWay(i.dev)
  BY <1>10 DEF UnderWay
<1>12. ASSUME NEW s \in Due(i.dev)
       PROVE  Key(heap[s]) # Key(i.data)
  BY <1>0 DEF Distinct
<1>13. ASSUME NEW j \in ToDo(i.dev) \ {i}
       PROVE  Key(j.data) # Key(i.data)
  BY DEF Distinct, ToDo
<1>14. Key(i.data) \notin UnderWay(i.dev)'
  BY <1>0, <1>2, <1>3, <1>8, <1>12, <1>13 DEF UnderWay
<1> QED BY <1>7, <1>9, <1>11, <1>14
----------------------------------------------------------------------------
(***************************************************************************)
(* Which way each action takes.                                            *)
(***************************************************************************)
\* A request puts an object with a new id on the heap; the shell may find no
\* room for it.
LEMMA RequestStep ==
    ASSUME Safe,
           \/ \E a \in OnOff : InitiateActionSwitch(a)
           \/ DimmerChangeBrightness
           \/ \E c \in OnOff, g \in BOOLEAN : ShellCommandHandler(c, g)
    PROVE  /\ applied' = applied /\ requests < MaxRequests /\ requests' = requests + 1
           /\ recoveries' = recoveries
           /\ Forgets \/ \E s \in Slot : Creates(s, <<requests + 1, 0>>)
<1>1. /\ Request
      /\ \/ HasRoom /\ \E c, v, g : ScheduleWork(c, v, g)
         \/ heap' = heap /\ work' = work
  BY DEF InitiateActionSwitch, DimmerChangeBrightness, ShellCommandHandler
<1>2. /\ applied' = applied /\ requests < MaxRequests /\ requests' = requests + 1
      /\ recoveries' = recoveries /\ inflight' = inflight /\ pending' = pending
  BY <1>1 DEF Request
<1>3. CASE heap' = heap /\ work' = work
  <2>1. Forgets
    BY <1>2, <1>3 DEF Forgets, Due, Scheduled
  <2> QED BY <1>2, <2>1
<1>4. CASE HasRoom /\ \E c, v, g : ScheduleWork(c, v, g)
  <2>1. PICK c, v, g : ScheduleWork(c, v, g)
    BY <1>4
  <2> DEFINE n == [command |-> c, value |-> v, isGroup |-> g, id |-> requests + 1,
                   attempt |-> 0]
             s == NewSlot
             k == <<requests + 1, 0>>
  <2>2. Key(n) = k /\ k[2] = 0
    BY DEF Key
  <2>3. heap' = [heap EXCEPT ![s] = n] /\ (work' = Append(work, s) \/ work' = work)
    BY <2>1 DEF ScheduleWork
  <2>4. s \in Slot /\ heap[s] = Free
    BY <1>4, NewSlotIsFree
  <2> HIDE DEF n, s, k
  <2>5. heap'[s] = n /\ \A r \in Slot \ {s} : heap'[r] = heap[r]
    BY <2>3, <2>4 DEF Safe, TypeOK
  <2>6. \A r \in Slot : Scheduled(r)' => Scheduled(r) \/ r = s
    <3>1. work \in Seq(Slot)
      BY DEF Safe, TypeOK
    <3>2. \A j \in DOMAIN work' : (j \in DOMAIN work /\ work'[j] = work[j]) \/ work'[j] = s
      BY <2>3, <2>4, <3>1
    <3> QED BY <3>2 DEF Scheduled
  <2>7. \A d \in Device : Due(d)' \subseteq Due(d) \cup {s}
    BY <1>2, <2>6 DEF Due
  <2>8. k[2] <= recoveries /\ recoveries \in Nat
    BY <2>2 DEF Safe, TypeOK
  <2>9. Creates(s, k)
    BY <1>2, <2>2, <2>4, <2>5, <2>6, <2>7, <2>8 DEF Creates
  <2> QED BY <1>2, <2>4, <2>9 DEF k
<1> QED BY <1>1, <1>3, <1>4

LEMMA WorkerStep ==
    ASSUME Safe, SwitchWorkerHandler
    PROVE  /\ Forgets
           /\ \A d \in Device : applied'[d] = applied[d]
<1> DEFINE s == Head(work)
<1>1. /\ work \in Seq(Slot) /\ work # <<>> /\ work' = Tail(work)
      /\ s \in Slot /\ s = work[1] /\ 1 \in DOMAIN work
      /\ NotifyBoundClusterChanged(s, heap[s], heap)
      /\ inflight' = inflight /\ recoveries' = recoveries
  BY DEF SwitchWorkerHandler, Safe, TypeOK
<1>2. Scheduled(s)
  BY <1>1 DEF Scheduled
<1> HIDE DEF s
<1>3. \A r \in Slot : Scheduled(r)' => Scheduled(r)
  BY <1>1 DEF Scheduled
<1>4. /\ heap' = heap \/ heap' = [heap EXCEPT ![s] = Free]
      /\ pending' \subseteq pending \cup ({s} \X Device)
      /\ applied' = applied \/ applied' = [applied EXCEPT ![Group][heap[s].id] = @ + 1]
  BY <1>1 DEF NotifyBoundClusterChanged
<1>5. \A r \in Slot : heap'[r] = heap[r] \/ heap'[r] = Free
  BY <1>1, <1>4 DEF Safe, TypeOK
<1>6. \A d \in Device : Due(d)' \subseteq Due(d)
  BY <1>2, <1>3, <1>4 DEF Due
<1>7. \A d \in Device : applied'[d] = applied[d]
  BY <1>4, DeviceAssumption DEF Safe, TypeOK
<1> QED BY <1>1, <1>3, <1>5, <1>6, <1>7 DEF Forgets

LEMMA TableStep ==
    ASSUME NEW t, BindingTableWritten(t)
    PROVE  Forgets /\ applied' = applied
BY DEF BindingTableWritten, Release, Forgets, Due, Scheduled

LEMMA ConnectStep ==
    ASSUME Safe, NEW d \in Device, ConnectOutcome(d)
    PROVE  Connects(d) /\ applied' = applied
BY DEF ConnectOutcome, DeviceConnected, ConnectionFailed, Invokes, Release, Connects

\* The answer to a command ends it; a timeout may put a copy of it on the heap.
LEMMA AnswerStep ==
    ASSUME Safe, OneWay, NEW i \in inflight, InvokeOutcome(i)
    PROVE  /\ applied' = applied /\ requests' = requests /\ work' = work
           /\ \/ Forgets
              \/ /\ recoveries' = recoveries + 1
                 /\ \E s \in Slot : Creates(s, <<i.data.id, recoveries + 1>>)
<1>0. inflight' \subseteq inflight /\ requests' = requests /\ work' = work
  BY DEF InvokeOutcome, InvokeSucceeded, InvokeTimedOut, InvokeFailed
<1>1. CASE heap' = heap /\ pending' = pending /\ applied' = applied
           /\ recoveries' = recoveries
  BY <1>0, <1>1 DEF Forgets, Due, Scheduled
<1>2. CASE RecoverSession(i.data) /\ ~HasRoom
  BY <1>0, <1>2 DEF RecoverSession, Forgets, Due, Scheduled
<1>3. CASE RecoverSession(i.data) /\ HasRoom
  <2> DEFINE copy == [i.data EXCEPT !.attempt = recoveries + 1]
             s == NewSlot
             h == [heap EXCEPT ![s] = copy]
             k == <<i.data.id, recoveries + 1>>
  <2>1. NotifyBoundClusterChanged(s, copy, h) /\ recoveries' = recoveries + 1
    BY <1>3 DEF RecoverSession
  <2>2. s \in Slot /\ heap[s] = Free
    BY <1>3, NewSlotIsFree
  <2>3. Key(copy) = k /\ copy.isGroup = FALSE
    <3>1. i.data \in BindingData /\ i.data.isGroup = FALSE
      BY DEF Safe, TypeOK, Invoke, OneWay
    <3> QED BY <3>1 DEF BindingData, Key
  <2>4. k[2] = recoveries + 1 /\ recoveries \in Nat
    BY DEF Safe, TypeOK
  <2> HIDE DEF copy, s, k
  <2>5. /\ h \in [Slot -> BindingData \cup {Free, copy}]
        /\ h[s] = copy /\ \A r \in Slot \ {s} : h[r] = heap[r]
    BY <2>2 DEF Safe, TypeOK
  <2> HIDE DEF h
  <2>6. /\ heap' = h \/ heap' = [h EXCEPT ![s] = Free]
        /\ pending' \subseteq pending \cup ({s} \X Device) /\ applied' = applied
    BY <2>1, <2>3 DEF NotifyBoundClusterChanged
  <2>7. /\ \A r \in Slot \ {s} : heap'[r] = heap[r]
        /\ heap'[s] = copy \/ heap'[s] = Free
    BY <2>2, <2>5, <2>6
  <2>8. \A d \in Device : Due(d)' \subseteq Due(d) \cup {s}
    BY <1>0, <2>6 DEF Due, Scheduled
  <2>9. Creates(s, k)
    BY <1>0, <2>1, <2>2, <2>3, <2>4, <2>7, <2>8 DEF Creates, Scheduled
  <2> QED BY <1>0, <2>1, <2>2, <2>6, <2>9 DEF k
<1> QED BY <1>1, <1>2, <1>3 DEF InvokeOutcome, InvokeSucceeded, InvokeTimedOut, InvokeFailed, GiveUp

\* The keys of a new request and of a recovery are new.
LEMMA NewKeys ==
    ASSUME Safe, OneWay, Distinct
    PROVE  \A x \in Live, n \in Nat :
               Key(x) # <<requests + 1, 0>> /\ Key(x) # <<n, recoveries + 1>>
<1> SUFFICES ASSUME NEW x \in Live
             PROVE  x.id # requests + 1 /\ x.attempt # recoveries + 1
  BY DEF Key
<1>1. x.id \in Nat /\ x.attempt \in Nat /\ x.id <= requests /\ x.attempt <= recoveries
  BY LiveAttempts DEF OneWay, Distinct
<1>2. requests \in Nat /\ recoveries \in Nat
  BY DEF Safe, TypeOK
<1> QED BY <1>1, <1>2
\* What a step does to the keys, and to the two numbers they are counted against.
LEMMA KeysStep ==
    ASSUME Safe, Safe', OneWay, Distinct, [Next]_vars
    PROVE  /\ Distinct'
           /\ \/ /\ requests' = requests /\ recoveries' \in {recoveries, recoveries + 1}
                 /\ \A d \in Device :
                       applied'[d] = applied[d] /\ UnderWay(d)' \subseteq UnderWay(d)
              \/ /\ requests' = requests + 1 /\ recoveries' = recoveries
                 /\ \A d \in Device :
                       /\ applied'[d] = applied[d]
                       /\ UnderWay(d)' \subseteq UnderWay(d) \cup {<<requests + 1, 0>>}
              \/ /\ requests' = requests /\ recoveries' = recoveries + 1
                 /\ \E k : \A d \in Device :
                       applied'[d] = applied[d] /\ UnderWay(d)' \subseteq UnderWay(d) \cup {k}
              \/ \E i \in inflight : DeviceApplies(i)
<1>1. CASE \/ \E a \in OnOff : InitiateActionSwitch(a)
           \/ DimmerChangeBrightness
           \/ \E c \in OnOff, g \in BOOLEAN : ShellCommandHandler(c, g)
  <2>1. /\ applied' = applied /\ requests' = requests + 1 /\ recoveries' = recoveries
        /\ Forgets \/ \E s \in Slot : Creates(s, <<requests + 1, 0>>)
    BY <1>1, RequestStep
  <2>2. \A x \in Live : Key(x) # <<requests + 1, 0>>
    BY NewKeys
  <2>3. Distinct' /\ \A d \in Device :
                        UnderWay(d)' \subseteq UnderWay(d) \cup {<<requests + 1, 0>>}
    BY <2>1, <2>2, ForgetsKeepsKeys, CreatesAddsKey
  <2> QED BY <2>1, <2>3
<1>2. CASE SwitchWorkerHandler
  <2>1. requests' = requests /\ recoveries' = recoveries
    BY <1>2 DEF SwitchWorkerHandler
  <2> QED BY <1>2, <2>1, WorkerStep, ForgetsKeepsKeys
<1>3. ASSUME NEW d \in Device, ConnectOutcome(d)
      PROVE  /\ Distinct' /\ requests' = requests /\ recoveries' = recoveries
             /\ applied' = applied /\ \A e \in Device : UnderWay(e)' \subseteq UnderWay(e)
  <2>1. requests' = requests /\ recoveries' = recoveries
    BY <1>3 DEF ConnectOutcome, DeviceConnected, ConnectionFailed
  <2> QED BY <1>3, <2>1, ConnectStep, ConnectsKeepsKeys
<1>4. ASSUME NEW t, BindingTableWritten(t)
      PROVE  /\ Distinct' /\ requests' = requests /\ recoveries' = recoveries
             /\ applied' = applied /\ \A e \in Device : UnderWay(e)' \subseteq UnderWay(e)
  <2>1. requests' = requests /\ recoveries' = recoveries
    BY <1>4 DEF BindingTableWritten
  <2> QED BY <1>4, <2>1, TableStep, ForgetsKeepsKeys
<1>5. ASSUME NEW i \in inflight, InvokeOutcome(i)
      PROVE  /\ Distinct' /\ requests' = requests /\ applied' = applied
             /\ \/ /\ recoveries' \in {recoveries, recoveries + 1}
                   /\ \A e \in Device : UnderWay(e)' \subseteq UnderWay(e)
                \/ /\ recoveries' = recoveries + 1
                   /\ \E k : \A e \in Device : UnderWay(e)' \subseteq UnderWay(e) \cup {k}
  <2>1. applied' = applied /\ requests' = requests
    BY <1>5, AnswerStep
  <2>2. CASE Forgets
    BY <2>1, <2>2, ForgetsKeepsKeys DEF Forgets
  <2>3. CASE /\ recoveries' = recoveries + 1
             /\ \E s \in Slot : Creates(s, <<i.data.id, recoveries + 1>>)
    <3>1. i.data \in Live /\ i.data.id \in Nat
      <4>1. i.data \in Live
        BY DEF Live
      <4> QED BY <4>1, LiveAttempts
    <3>2. \A x \in Live : Key(x) # <<i.data.id, recoveries + 1>>
      BY <3>1, NewKeys
    <3> QED BY <2>1, <2>3, <3>2, CreatesAddsKey
  <2> QED BY <1>5, <2>2, <2>3, AnswerStep
<1>6. ASSUME NEW i \in inflight, DeviceApplies(i)
      PROVE  Distinct'
  BY <1>6, AppliesEndsKey
<1>7. CASE UNCHANGED vars
  <2>1. /\ Forgets /\ requests' = requests /\ recoveries' = recoveries
        /\ applied' = applied
    BY <1>7 DEF vars, Forgets, Due, Scheduled
  <2> QED BY <2>1, ForgetsKeepsKeys
<1> QED BY <1>1, <1>2, <1>3, <1>4, <1>5, <1>6, <1>7 DEF Next
----------------------------------------------------------------------------
(***************************************************************************)
(* Counting.                                                               *)
(***************************************************************************)
\* The keys on their way to d that stem from the requests ids.
Chosen(d, ids) == { k \in UnderWay(d) : k[1] \in ids }

Within(d, ids) ==
    /\ IsFiniteSet(CarriedOut(d, ids)) /\ IsFiniteSet(Chosen(d, ids))
    /\ Cardinality(CarriedOut(d, ids)) + Cardinality(Chosen(d, ids))
          <= Cardinality(ids \cap (1..requests)) + recoveries

AllWithin == \A d \in Device, ids \in SUBSET (1..MaxRequests) : Within(d, ids)

LEMMA GrowsByOne ==
    ASSUME NEW S, IsFiniteSet(S), NEW x, NEW T, T \subseteq S \cup {x}
    PROVE  /\ IsFiniteSet(T) /\ Cardinality(S) \in Nat /\ Cardinality(T) \in Nat
           /\ Cardinality(T) <= Cardinality(S) + 1
           /\ T \subseteq S => Cardinality(T) <= Cardinality(S)
           /\ T \subseteq S /\ x \in S /\ x \notin T => Cardinality(T) + 1 <= Cardinality(S)
<1>1. /\ IsFiniteSet(S \cup {x})
      /\ Cardinality(S) \in Nat
      /\ Cardinality(S \cup {x}) = Cardinality(S) \/ Cardinality(S \cup {x}) = Cardinality(S) + 1
  BY FS_AddElement, FS_CardinalityType
<1>2. IsFiniteSet(T) /\ Cardinality(T) \in Nat /\ Cardinality(T) <= Cardinality(S \cup {x})
  BY <1>1, FS_Subset, FS_CardinalityType
<1>3. T \subseteq S => Cardinality(T) <= Cardinality(S)
  BY FS_Subset
<1>4. ASSUME T \subseteq S, x \in S, x \notin T
      PROVE  Cardinality(T) + 1 <= Cardinality(S)
  <2>1. IsFiniteSet(S \ {x}) /\ Cardinality(S \ {x}) = Cardinality(S) - 1
    BY <1>4, FS_RemoveElement
  <2>2. T \subseteq S \ {x}
    BY <1>4
  <2>3. Cardinality(T) <= Cardinality(S \ {x})
    BY <2>1, <2>2, FS_Subset
  <2> QED BY <1>1, <1>2, <2>1, <2>3
<1> QED BY <1>1, <1>2, <1>3, <1>4

\* The requests among ids, and how they grow.
LEMMA RequestsGrow ==
    ASSUME TypeOK, NEW ids \in SUBSET (1..MaxRequests)
    PROVE  /\ IsFiniteSet(ids \cap (1..requests))
           /\ Cardinality(ids \cap (1..requests)) \in Nat
           /\ IF requests + 1 \in ids
              THEN Cardinality(ids \cap (1..(requests + 1)))
                       = Cardinality(ids \cap (1..requests)) + 1
              ELSE ids \cap (1..(requests + 1)) = ids \cap (1..requests)
<1>1. requests \in Nat
  BY DEF TypeOK
<1>2. IsFiniteSet(ids \cap (1..requests))
  <2>1. IsFiniteSet(1..requests)
    BY <1>1, FS_Interval
  <2> QED BY <2>1, FS_Subset
<1>3. CASE requests + 1 \in ids
  <2>1. ids \cap (1..(requests + 1)) = (ids \cap (1..requests)) \cup {requests + 1}
    BY <1>1, <1>3
  <2>2. requests + 1 \notin ids \cap (1..requests)
    BY <1>1
  <2> QED BY <1>2, <1>3, <2>1, <2>2, FS_AddElement, FS_CardinalityType
<1>4. CASE requests + 1 \notin ids
  <2>1. ids \cap (1..(requests + 1)) = ids \cap (1..requests)
    BY <1>1, <1>4
  <2> QED BY <1>2, <1>4, <2>1, FS_CardinalityType
<1> QED BY <1>3, <1>4

LEMMA CarriedPairs ==
    ASSUME NEW d, NEW ids
    PROVE  /\ \A x : x \in CarriedOut(d, ids)
                        <=> \E i \in ids : \E n \in 1..applied[d][i] : x = <<i, n>>
           /\ \A x : x \in CarriedOut(d, ids)'
                        <=> \E i \in ids : \E n \in 1..applied'[d][i] : x = <<i, n>>
           /\ (\A i \in ids : applied'[d][i] = applied[d][i])
                  => CarriedOut(d, ids)' = CarriedOut(d, ids)
<1>1. \A x : x \in CarriedOut(d, ids)
               <=> \E i \in ids : \E n \in 1..applied[d][i] : x = <<i, n>>
  BY DEF CarriedOut
<1>2. \A x : x \in CarriedOut(d, ids)'
               <=> \E i \in ids : \E n \in 1..applied'[d][i] : x = <<i, n>>
  BY DEF CarriedOut
<1>3. ASSUME \A i \in ids : applied'[d][i] = applied[d][i]
      PROVE  CarriedOut(d, ids)' = CarriedOut(d, ids)
  <2>1. \A x : x \in CarriedOut(d, ids)' <=> x \in CarriedOut(d, ids)
    BY <1>1, <1>2, <1>3
  <2> HIDE DEF CarriedOut
  <2> QED BY <2>1
<1> QED BY <1>1, <1>2, <1>3

\* What d carries out is one of the commands under way to it.
LEMMA AppliesKeepsWithin ==
    ASSUME Safe, Distinct, NEW i \in inflight, DeviceApplies(i),
           NEW d \in Device, NEW ids \in SUBSET (1..MaxRequests), Within(d, ids)
    PROVE  Within(d, ids)'
<1> DEFINE C == CarriedOut(d, ids)
           K == Chosen(d, ids)
           x == i.data.id
           p == <<x, applied[d][x] + 1>>
<1>1. /\ i.dev \in Device /\ x \in 1..MaxRequests /\ requests' = requests
      /\ applied' = [applied EXCEPT ![i.dev][x] = @ + 1] /\ recoveries' = recoveries
  BY DEF Safe, TypeOK, Invoke, BindingData, DeviceApplies
<1>2. /\ requests \in Nat /\ recoveries \in Nat
      /\ Cardinality(ids \cap (1..requests)) \in Nat
      /\ applied \in [Device \cup {Group} -> [1..MaxRequests -> Nat]]
  <2>1. TypeOK
    BY DEF Safe
  <2>2. Cardinality(ids \cap (1..requests)) \in Nat
    BY <2>1, RequestsGrow
  <2> QED BY <2>1, <2>2 DEF TypeOK
<1>3. K' \subseteq K
  BY AppliesEndsKey DEF Chosen
<1>4. CASE d # i.dev \/ x \notin ids
  <2>1. \A j \in ids : applied'[d][j] = applied[d][j]
    BY <1>1, <1>2, <1>4
  <2>2. C' = C
    BY <2>1, CarriedPairs
  <2>3. IsFiniteSet(K') /\ Cardinality(K') <= Cardinality(K)
    BY <1>3, FS_Subset DEF Within
  <2>4. Cardinality(K) \in Nat /\ Cardinality(K') \in Nat /\ Cardinality(C) \in Nat
    BY <2>3, FS_CardinalityType DEF Within
  <2> HIDE DEF C, K
  <2> QED BY <1>1, <1>2, <2>2, <2>3, <2>4 DEF Within, C, K
<1>5. CASE d = i.dev /\ x \in ids
  <2>1. /\ applied'[d][x] = applied[d][x] + 1 /\ applied[d][x] \in Nat
        /\ \A j \in ids : j # x => applied'[d][j] = applied[d][j]
    BY <1>1, <1>2, <1>5
  <2>2. C' \subseteq C \cup {p}
    <3>1. \A n : n \in 1..applied'[d][x] => n \in 1..applied[d][x] \/ n = applied[d][x] + 1
      BY <2>1
    <3>2. ASSUME NEW y, y \in CarriedOut(d, ids)'
          PROVE  y \in C \cup {p}
      <4>1. PICK j \in ids : \E n \in 1..applied'[d][j] : y = <<j, n>>
        BY <3>2, CarriedPairs
      <4>2. PICK n \in 1..applied'[d][j] : y = <<j, n>>
        BY <4>1
      <4>3. n \in 1..applied[d][j] \/ (j = x /\ n = applied[d][x] + 1)
        BY <2>1, <3>1
      <4> QED BY <4>2, <4>3, CarriedPairs
    <3> QED BY <3>2
  <2>3. Key(i.data) \in K /\ Key(i.data) \notin K'
    BY <1>5, AppliesEndsKey DEF Chosen, Key
  <2> HIDE DEF C, K, p
  <2>4. IsFiniteSet(C) /\ IsFiniteSet(K)
    BY DEF Within, C, K
  <2>5. /\ IsFiniteSet(C') /\ Cardinality(C) \in Nat /\ Cardinality(C') \in Nat
        /\ Cardinality(C') <= Cardinality(C) + 1
    BY <2>2, <2>4, GrowsByOne
  <2>6. /\ IsFiniteSet(K') /\ Cardinality(K) \in Nat /\ Cardinality(K') \in Nat
        /\ Cardinality(K') + 1 <= Cardinality(K)
    BY <1>3, <2>3, <2>4, GrowsByOne
  <2>7. Cardinality(C) + Cardinality(K) <= Cardinality(ids \cap (1..requests)) + recoveries
    BY DEF Within, C, K
  <2>8. Cardinality(C') + Cardinality(K') <= Cardinality(ids \cap (1..requests)) + recoveries
    BY <1>2, <2>5, <2>6, <2>7
  <2> QED BY <1>1, <2>5, <2>6, <2>8 DEF Within, C, K
<1> QED BY <1>4, <1>5

\* Any other step adds at most one key, and only as requests or recoveries grow.
LEMMA KeyKeepsWithin ==
    ASSUME Safe, NEW d \in Device, NEW ids \in SUBSET (1..MaxRequests), Within(d, ids),
           applied'[d] = applied[d],
           \/ /\ requests' = requests /\ recoveries' \in {recoveries, recoveries + 1}
              /\ UnderWay(d)' \subseteq UnderWay(d)
           \/ /\ requests' = requests + 1 /\ recoveries' = recoveries
              /\ UnderWay(d)' \subseteq UnderWay(d) \cup {<<requests + 1, 0>>}
           \/ /\ requests' = requests /\ recoveries' = recoveries + 1
              /\ \E k : UnderWay(d)' \subseteq UnderWay(d) \cup {k}
    PROVE  Within(d, ids)'
<1> DEFINE C == CarriedOut(d, ids)
           K == Chosen(d, ids)
           R == Cardinality(ids \cap (1..requests))
<1>1. C' = C
  BY CarriedPairs
<1>2. /\ requests \in Nat /\ recoveries \in Nat /\ R \in Nat
      /\ IF requests + 1 \in ids
         THEN Cardinality(ids \cap (1..(requests + 1))) = R + 1
         ELSE Cardinality(ids \cap (1..(requests + 1))) = R
  <2>1. TypeOK
    BY DEF Safe
  <2>2. requests \in Nat /\ recoveries \in Nat
    BY <2>1 DEF TypeOK
  <2> QED BY <2>1, <2>2, RequestsGrow
<1>3. IsFiniteSet(C) /\ IsFiniteSet(K) /\ Cardinality(C) + Cardinality(K) <= R + recoveries
  BY DEF Within
<1>4. Cardinality(C) \in Nat /\ Cardinality(K) \in Nat
  BY <1>3, FS_CardinalityType
<1>5. ASSUME NEW k, UnderWay(d)' \subseteq UnderWay(d) \cup {k}
      PROVE  /\ IsFiniteSet(K') /\ Cardinality(K') \in Nat
             /\ Cardinality(K') <= Cardinality(K) + 1
             /\ k[1] \notin ids => Cardinality(K') <= Cardinality(K)
  <2>1. K' \subseteq K \cup {k} /\ (k[1] \notin ids => K' \subseteq K)
    BY <1>5 DEF Chosen
  <2> QED BY <1>3, <2>1, GrowsByOne
<1> HIDE DEF C, K, R
<1>7. IsFiniteSet(K') /\ Cardinality(C) + Cardinality(K')
                             <= Cardinality(ids \cap (1..requests')) + recoveries'
  <2>1. CASE /\ requests' = requests /\ recoveries' \in {recoveries, recoveries + 1}
             /\ UnderWay(d)' \subseteq UnderWay(d)
    <3>1. IsFiniteSet(K') /\ Cardinality(K') \in Nat /\ Cardinality(K') <= Cardinality(K)
      BY <1>3, <2>1, FS_Subset, FS_CardinalityType DEF K, Chosen
    <3> QED BY <1>2, <1>3, <1>4, <2>1, <3>1 DEF R
  <2>2. CASE /\ requests' = requests + 1 /\ recoveries' = recoveries
             /\ UnderWay(d)' \subseteq UnderWay(d) \cup {<<requests + 1, 0>>}
    <3> DEFINE k == <<requests + 1, 0>>
    <3>1. k[1] = requests + 1
      OBVIOUS
    <3>2. /\ IsFiniteSet(K') /\ Cardinality(K') \in Nat
          /\ Cardinality(K') <= Cardinality(K) + 1
          /\ requests + 1 \notin ids => Cardinality(K') <= Cardinality(K)
      BY <1>5, <2>2, <3>1
    <3> QED BY <1>2, <1>3, <1>4, <2>2, <3>2
  <2>3. CASE /\ requests' = requests /\ recoveries' = recoveries + 1
             /\ \E k : UnderWay(d)' \subseteq UnderWay(d) \cup {k}
    <3>1. PICK k : UnderWay(d)' \subseteq UnderWay(d) \cup {k}
      BY <2>3
    <3>2. /\ IsFiniteSet(K') /\ Cardinality(K') \in Nat
          /\ Cardinality(K') <= Cardinality(K) + 1
      BY <1>5, <3>1
    <3> QED BY <1>2, <1>3, <1>4, <2>3, <3>2 DEF R
  <2> QED BY <2>1, <2>2, <2>3
<1> QED BY <1>1, <1>3, <1>7 DEF Within, C, K

LEMMA WithinStep ==
    ASSUME Safe, Safe', OneWay, Distinct, AllWithin, [Next]_vars
    PROVE  AllWithin'
<1>1. ASSUME NEW d \in Device, NEW ids \in SUBSET (1..MaxRequests)
      PROVE  Within(d, ids)'
  <2>1. Within(d, ids)
    BY DEF AllWithin
  <2>2. ASSUME NEW i \in inflight, DeviceApplies(i)
        PROVE  Within(d, ids)'
    BY <2>1, <2>2, AppliesKeepsWithin
  <2> QED BY <2>1, <2>2, KeysStep, KeyKeepsWithin
<1> QED BY <1>1 DEF AllWithin
----------------------------------------------------------------------------
(***************************************************************************)
(* The group.  A multicast is sent by the call of the worker alone, and    *)
(* every object it takes stems from another request.                       *)
(***************************************************************************)
GroupOnce ==
    /\ \A i \in 1..MaxRequests : applied[Group][i] <= 1
    /\ \A s \in Slot : Scheduled(s) => applied[Group][heap[s].id] = 0

LEMMA GroupKept ==
    ASSUME GroupOnce, applied'[Group] = applied[Group],
           \A s \in Slot : Scheduled(s)' => Scheduled(s) /\ heap'[s].id = heap[s].id
    PROVE  GroupOnce'
BY DEF GroupOnce

LEMMA RequestKeepsGroup ==
    ASSUME Safe, Safe', OneWay, GroupOnce, applied' = applied, requests < MaxRequests,
           Forgets \/ \E s \in Slot : Creates(s, <<requests + 1, 0>>)
    PROVE  GroupOnce'
<1>1. \A s \in Slot : Scheduled(s)' => heap'[s] # Free
  BY DEF Safe, NoUseAfterFree
<1>2. CASE Forgets
  BY <1>1, <1>2, GroupKept DEF Forgets
<1>3. ASSUME NEW s \in Slot, Creates(s, <<requests + 1, 0>>)
      PROVE  GroupOnce'
  <2>1. applied[Group][requests + 1] = 0
    <3>1. requests \in Nat /\ requests + 1 \in 1..MaxRequests
      BY BoundAssumption DEF Safe, TypeOK
    <3> QED BY <3>1 DEF OneWay
  <2>2. ASSUME NEW r \in Slot, Scheduled(r)'
        PROVE  applied'[Group][heap'[r].id] = 0
    <3>1. CASE r = s
      <4>1. Key(heap'[r]) = <<requests + 1, 0>>
        BY <1>1, <1>3, <2>2, <3>1 DEF Creates
      <4>2. heap'[r].id = requests + 1
        BY <4>1 DEF Key
      <4> QED BY <2>1, <4>2
    <3>2. CASE r # s
      BY <1>3, <2>2, <3>2 DEF Creates, GroupOnce
    <3> QED BY <3>1, <3>2
  <2> QED BY <2>2 DEF GroupOnce
<1> QED BY <1>2, <1>3

LEMMA WorkerKeepsGroup ==
    ASSUME Safe, Safe', Distinct, GroupOnce, SwitchWorkerHandler
    PROVE  GroupOnce'
<1> DEFINE s == Head(work)
           x == heap[s].id
<1>1. /\ work \in Seq(Slot) /\ work # <<>> /\ work' = Tail(work)
      /\ NotifyBoundClusterChanged(s, heap[s], heap)
  BY DEF SwitchWorkerHandler, Safe, TypeOK
<1>2. s \in Slot /\ s = work[1] /\ 1 \in DOMAIN work
      /\ \A k \in DOMAIN work' : k + 1 \in DOMAIN work /\ work'[k] = work[k + 1] /\ k + 1 # 1
  BY <1>1
<1>3. Scheduled(s)
  BY <1>2 DEF Scheduled
<1>4. \A r \in Slot : Scheduled(r)' => Scheduled(r) /\ r # s
  BY <1>2 DEF Scheduled, Safe, NoUseAfterFree
<1> HIDE DEF s
<1>5. heap[s] # Free /\ heap[s] \in BindingData /\ x \in 1..MaxRequests
  <2>1. heap[s] # Free /\ heap[s] \in BindingData
    BY <1>2, <1>3 DEF Safe, NoUseAfterFree, TypeOK
  <2> QED BY <2>1 DEF BindingData
<1>6. ASSUME NEW r \in Slot, Scheduled(r)'
      PROVE  /\ heap'[r] = heap[r] /\ heap[r].id # x
             /\ applied[Group][heap[r].id] = 0
  <2>1. Scheduled(r) /\ r # s /\ heap[r] # Free
    BY <1>4, <1>6 DEF Safe, NoUseAfterFree
  <2>2. heap' = heap \/ heap' = [heap EXCEPT ![s] = Free]
    BY <1>1 DEF NotifyBoundClusterChanged
  <2>3. heap'[r] = heap[r]
    BY <2>1, <2>2 DEF Safe, TypeOK
  <2>4. heap[r].attempt = 0 /\ heap[s].attempt = 0
    BY <1>2, <1>3, <2>1 DEF Distinct
  <2>5. Key(heap[r]) # Key(heap[s])
    BY <1>2, <1>5, <2>1 DEF Distinct
  <2> QED BY <2>1, <2>3, <2>4, <2>5 DEF Key, GroupOnce
<1> HIDE DEF x
<1>7. CASE applied' = applied
  BY <1>6, <1>7 DEF GroupOnce
<1>8. CASE applied' = [applied EXCEPT ![Group][x] = @ + 1]
  <2>1. applied \in [Device \cup {Group} -> [1..MaxRequests -> Nat]]
    BY DEF Safe, TypeOK
  <2>2. /\ applied'[Group][x] = applied[Group][x] + 1
        /\ \A i \in 1..MaxRequests : i # x => applied'[Group][i] = applied[Group][i]
    BY <1>5, <1>8, <2>1
  <2>3. applied[Group][x] = 0
    BY <1>2, <1>3 DEF GroupOnce, x
  <2>4. \A i \in 1..MaxRequests : applied'[Group][i] <= 1
    BY <2>2, <2>3 DEF GroupOnce
  <2>5. ASSUME NEW r \in Slot, Scheduled(r)'
        PROVE  applied'[Group][heap'[r].id] = 0
    <3>1. heap[r] # Free /\ heap[r].id \in 1..MaxRequests
      <4>1. heap[r] # Free /\ heap[r] \in BindingData
        BY <1>4, <2>5 DEF Safe, NoUseAfterFree, TypeOK
      <4> QED BY <4>1 DEF BindingData
    <3> QED BY <1>6, <2>2, <2>5, <3>1
  <2> QED BY <2>4, <2>5 DEF GroupOnce
<1> QED BY <1>1, <1>7, <1>8 DEF NotifyBoundClusterChanged, x

LEMMA GroupStep ==
    ASSUME Safe, Safe', OneWay, Distinct, GroupOnce, [Next]_vars
    PROVE  GroupOnce'
<1>0. \A s \in Slot : /\ Scheduled(s) => heap[s] # Free
                      /\ Scheduled(s)' => heap'[s] # Free
  BY DEF Safe, NoUseAfterFree
<1>1. CASE \/ \E a \in OnOff : InitiateActionSwitch(a)
           \/ DimmerChangeBrightness
           \/ \E c \in OnOff, g \in BOOLEAN : ShellCommandHandler(c, g)
  BY <1>1, RequestStep, RequestKeepsGroup
<1>2. CASE SwitchWorkerHandler
  BY <1>2, WorkerKeepsGroup
<1>3. ASSUME applied' = applied, work' = work,
             \A s \in Slot : heap'[s] = heap[s] \/ heap'[s] = Free
      PROVE  GroupOnce'
  BY <1>0, <1>3, GroupKept DEF Scheduled
<1>4. ASSUME NEW d \in Device, ConnectOutcome(d)
      PROVE  GroupOnce'
  BY <1>3, <1>4, ConnectStep DEF Connects
<1>5. ASSUME NEW t, BindingTableWritten(t)
      PROVE  GroupOnce'
  BY <1>3, <1>5 DEF BindingTableWritten, Release
<1>6. ASSUME NEW i \in inflight, InvokeOutcome(i)
      PROVE  GroupOnce'
  <2>1. applied' = applied /\ work' = work
    BY <1>6, AnswerStep
  <2>2. CASE Forgets
    BY <1>3, <2>1, <2>2 DEF Forgets
  <2>3. ASSUME NEW s \in Slot, NEW k, Creates(s, k)
        PROVE  GroupOnce'
    <3>1. \A r \in Slot : Scheduled(r)' => Scheduled(r) /\ r # s /\ heap'[r] = heap[r]
      BY <1>0, <2>1, <2>3 DEF Creates, Scheduled
    <3> QED BY <2>1, <3>1, GroupKept
  <2> QED BY <1>6, <2>2, <2>3, AnswerStep
<1>7. ASSUME NEW i \in inflight, DeviceApplies(i)
      PROVE  GroupOnce'
  <2>1. heap' = heap /\ work' = work
    BY <1>7 DEF DeviceApplies
  <2>2. applied'[Group] = applied[Group]
    <3>1. i.dev \in Device /\ i.dev # Group
      BY DeviceAssumption DEF Safe, TypeOK, Invoke
    <3>2. applied' = [applied EXCEPT ![i.dev][i.data.id] = @ + 1]
      BY <1>7 DEF DeviceApplies
    <3>3. applied \in [Device \cup {Group} -> [1..MaxRequests -> Nat]]
      BY DEF Safe, TypeOK
    <3> QED BY <3>1, <3>2, <3>3
  <2> QED BY <2>1, <2>2, GroupKept DEF Scheduled
<1>8. CASE UNCHANGED vars
  BY <1>3, <1>8 DEF vars
<1> QED BY <1>1, <1>2, <1>4, <1>5, <1>6, <1>7, <1>8 DEF Next
----------------------------------------------------------------------------
Counted == Safe /\ OneWay /\ Distinct /\ AllWithin /\ GroupOnce

LEMMA CountedInit == Init => Counted
<1> SUFFICES ASSUME Init PROVE Counted
  OBVIOUS
<1>1. /\ \A s \in Slot : heap[s] = Free /\ ~Scheduled(s)
      /\ inflight = {} /\ pending = {} /\ requests = 0 /\ recoveries = 0
      /\ applied = [d \in Device \cup {Group} |-> [i \in 1..MaxRequests |-> 0]]
  BY DEF Init, Scheduled
<1>2. Safe /\ OneWay
  BY SafeInit, OneWayInit
<1>3. Live = {}
  BY <1>1 DEF Live
<1>4. \A d \in Device : Due(d) = {} /\ ToDo(d) = {}
  BY <1>1 DEF Due, ToDo
<1>5. Distinct
  BY <1>1, <1>3, <1>4 DEF Distinct
<1>6. GroupOnce
  BY <1>1 DEF GroupOnce
<1>7. ASSUME NEW d \in Device, NEW ids \in SUBSET (1..MaxRequests)
      PROVE  Within(d, ids)
  <2>1. CarriedOut(d, ids) = {}
    <3>1. \A i \in ids : applied[d][i] = 0
      BY <1>1
    <3>2. \A i \in ids : 1..applied[d][i] = {}
      BY <3>1
    <3>3. \A x : x \notin CarriedOut(d, ids)
      BY <3>2, CarriedPairs
    <3> QED BY <3>3
  <2>2. Chosen(d, ids) = {}
    BY <1>4 DEF Chosen, UnderWay
  <2>3. ids \cap (1..requests) = {}
    BY <1>1
  <2> QED BY <1>1, <2>1, <2>2, <2>3, FS_EmptySet DEF Within
<1> QED BY <1>2, <1>5, <1>6, <1>7 DEF Counted, AllWithin

LEMMA CountedStep == Counted /\ [Next]_vars => Counted'
BY SafeStep, OneWayStep, KeysStep, WithinStep, GroupStep DEF Counted

CarriedIsFinite ==
    \A d \in Device, ids \in SUBSET (1..requests) : IsFiniteSet(CarriedOut(d, ids))

LEMMA CarriedOutFinite == Spec => []CarriedIsFinite
<1>1. Counted => CarriedIsFinite
  <2> SUFFICES ASSUME Counted PROVE CarriedIsFinite
    OBVIOUS
  <2>1. 1..requests \subseteq 1..MaxRequests
    BY BoundAssumption DEF Counted, Safe, TypeOK
  <2> QED BY <2>1 DEF Counted, AllWithin, Within, CarriedIsFinite
<1> QED BY <1>1, CountedInit, CountedStep, PTL DEF Spec

\* With any number of devices, of any set of requests a device carries out no more
\* than one for each and one for each recovery; and no multicast is repeated.
THEOREM AppliedSent == Spec => []AppliedAsSent
<1>1. Counted => AppliedAsSent
  <2> SUFFICES ASSUME Counted PROVE AppliedAsSent
    OBVIOUS
  <2>1. requests \in Nat /\ 1..requests \subseteq 1..MaxRequests
    BY BoundAssumption DEF Counted, Safe, TypeOK
  <2>2. ASSUME NEW d \in Device, NEW ids \in SUBSET (1..requests)
        PROVE  Cardinality(CarriedOut(d, ids)) <= Cardinality(ids) + recoveries
    <3>1. Within(d, ids) /\ ids \cap (1..requests) = ids
      BY <2>1 DEF Counted, AllWithin
    <3>2. /\ Cardinality(CarriedOut(d, ids)) \in Nat /\ Cardinality(Chosen(d, ids)) \in Nat
          /\ Cardinality(CarriedOut(d, ids)) + Cardinality(Chosen(d, ids))
                <= Cardinality(ids) + recoveries
      BY <3>1, FS_CardinalityType DEF Within
    <3>3. Cardinality(ids) \in Nat /\ recoveries \in Nat
      <4>1. IsFiniteSet(ids)
        <5>1. IsFiniteSet(1..requests)
          BY <2>1, FS_Interval
        <5> QED BY <5>1, FS_Subset
      <4> QED BY <4>1, FS_CardinalityType DEF Counted, Safe, TypeOK
    <3> QED BY <3>2, <3>3
  <2>3. \A i \in 1..requests : applied[Group][i] <= 1
    BY <2>1 DEF Counted, GroupOnce
  <2> QED BY <2>2, <2>3 DEF AppliedAsSent
<1> QED BY <1>1, CountedInit, CountedStep, PTL DEF Spec
----------------------------------------------------------------------------
(***************************************************************************)
(* A single bound device: there the retransmission keeps what the comments *)
(* of binding_handler.cpp promise.  With two devices it does not           *)
(* (BindingToggleTwice).                                                   *)
(*                                                                         *)
(* The reason is that a request then has one carrier at a time: the object *)
(* on the heap, or the one command under way.                              *)
(***************************************************************************)
SameDevice == \A d, e \in Device : d = e

OneCarrier ==
    /\ \A s, t \in Slot : heap[s] # Free /\ heap[t] # Free /\ heap[s].id = heap[t].id => s = t
    /\ \A s \in Slot, i \in inflight : heap[s] # Free => heap[s].id # i.data.id
    /\ \A i, j \in inflight : i.data.id = j.data.id => i = j

\* What is still carried has not been applied.
Unapplied ==
    /\ \A s \in Slot : heap[s] # Free => \A d \in Device : applied[d][heap[s].id] = 0
    /\ \A i \in inflight : ~i.done => \A d \in Device : applied[d][i.data.id] = 0
    /\ AppliedAtMostOnce
----------------------------------------------------------------------------
(***************************************************************************)
(* What each step does to the carriers.                                    *)
(***************************************************************************)
\* A request puts at most one object on the heap, under a new id.
LEMMA RequestCarries ==
    ASSUME Safe, OneWay,
           \/ \E a \in OnOff : InitiateActionSwitch(a)
           \/ DimmerChangeBrightness
           \/ \E c \in OnOff, g \in BOOLEAN : ShellCommandHandler(c, g)
    PROVE  /\ requests < MaxRequests /\ requests' = requests + 1
           /\ inflight' = inflight /\ applied' = applied /\ recoveries' = recoveries
           /\ mCaseSessionRecovered' = mCaseSessionRecovered
           /\ \E s \in Slot :
                 /\ \A r \in Slot \ {s} : heap'[r] = heap[r]
                 /\ heap'[s] = heap[s] \/ (heap[s] = Free /\ heap'[s].id = requests + 1)
<1> USE DEF Safe
<1>1. /\ Request
      /\ \/ HasRoom /\ \E c, v, g : ScheduleWork(c, v, g)
         \/ heap' = heap
  BY DEF InitiateActionSwitch, DimmerChangeBrightness, ShellCommandHandler
<1>2. CASE HasRoom /\ \E c, v, g : ScheduleWork(c, v, g)
  <2>1. NewSlot \in Slot /\ heap[NewSlot] = Free
    BY <1>2, NewSlotIsFree
  <2>2. PICK c, v, g : ScheduleWork(c, v, g)
    BY <1>2
  <2> DEFINE n == [command |-> c, value |-> v, isGroup |-> g, id |-> requests + 1,
                   attempt |-> 0]
  <2>3. n.id = requests + 1 /\ heap' = [heap EXCEPT ![NewSlot] = n]
    BY <2>2 DEF ScheduleWork
  <2> HIDE DEF n
  <2>4. heap'[NewSlot] = n /\ \A r \in Slot \ {NewSlot} : heap'[r] = heap[r]
    BY <2>1, <2>3 DEF TypeOK
  <2> QED BY <1>1, <2>1, <2>3, <2>4 DEF Request
<1>3. CASE heap' = heap
  <2>1. \E s \in Slot : TRUE
    BY BoundAssumption DEF Slot
  <2> QED BY <1>1, <1>3, <2>1 DEF Request
<1> QED BY <1>1, <1>2, <1>3

\* A step that only frees.
Frees ==
    /\ \A s \in Slot : heap'[s] = heap[s] \/ heap'[s] = Free
    /\ inflight' = inflight
    /\ \A d \in Device : applied'[d] = applied[d]

LEMMA WorkerFrees ==
    ASSUME Safe, SwitchWorkerHandler
    PROVE  Frees
<1> DEFINE s == Head(work)
<1>1. s \in Slot /\ NotifyBoundClusterChanged(s, heap[s], heap) /\ inflight' = inflight
  BY DEF SwitchWorkerHandler, Safe, TypeOK
<1> HIDE DEF s
<1>2. heap' = heap \/ heap' = [heap EXCEPT ![s] = Free]
  BY <1>1 DEF NotifyBoundClusterChanged
<1>3. applied' = applied \/ applied' = [applied EXCEPT ![Group][heap[s].id] = @ + 1]
  BY <1>1 DEF NotifyBoundClusterChanged
<1>4. \A d \in Device : applied'[d] = applied[d]
  BY <1>3, DeviceAssumption DEF Safe, TypeOK
<1> QED BY <1>1, <1>2, <1>4 DEF Frees, Safe, TypeOK

LEMMA TableFrees ==
    ASSUME NEW t, BindingTableWritten(t)
    PROVE  Frees
BY DEF BindingTableWritten, Release, Frees, history

\* The session to a device: its commands leave the heap as they are sent.
LEMMA ConnectMoves ==
    ASSUME Safe, SameDevice, NEW d \in Device, ConnectOutcome(d)
    PROVE  /\ \A s \in Slot : heap'[s] = heap[s] \/ heap'[s] = Free
           /\ inflight \subseteq inflight' /\ applied' = applied
           /\ \A i \in inflight' \ inflight : \E s \in Slot :
                 heap[s] # Free /\ heap'[s] = Free /\ ~i.done
                 /\ i = [dev |-> d, data |-> heap[s], done |-> FALSE]
<1>1. /\ pending' = { w \in pending : w[2] # d }
      /\ heap' = Release(heap, { w \in pending : w[2] # d }) /\ applied' = applied
      /\ inflight \subseteq inflight' /\ inflight' \subseteq inflight \cup Invokes(d)
  <2>1. CASE DeviceConnected(d)
    <3>1. PICK sent \in SUBSET Invokes(d) : inflight' = inflight \cup sent
      BY <2>1 DEF DeviceConnected
    <3> QED BY <2>1, <3>1 DEF DeviceConnected, history
  <2>2. CASE ConnectionFailed(d)
    BY <2>2 DEF ConnectionFailed, history
  <2> QED BY <2>1, <2>2 DEF ConnectOutcome
<1>2. ASSUME NEW i \in Invokes(d)
      PROVE  \E s \in Slot : heap[s] # Free /\ heap'[s] = Free /\ ~i.done
                 /\ i = [dev |-> d, data |-> heap[s], done |-> FALSE]
  <2>1. PICK s \in WaitingFor(d) : i = [dev |-> d, data |-> heap[s], done |-> FALSE]
    BY DEF Invokes
  <2>2. s \in Slot /\ <<s, d>> \in pending
    BY <2>1 DEF WaitingFor
  <2>3. heap[s] # Free
    BY <2>2 DEF Safe, NoUseAfterFree, Awaited
  <2>4. \A e \in Device : <<s, e>> \notin { w \in pending : w[2] # d }
    BY DEF SameDevice
  <2>5. heap'[s] = Free
    BY <1>1, <2>2, <2>4 DEF Release
  <2> QED BY <2>1, <2>2, <2>3, <2>5
<1> QED BY <1>1, <1>2 DEF Release

\* The answer to a command: it is over, or its copy takes its place.
LEMMA AnswerMoves ==
    ASSUME Safe, OneWay, NEW i \in inflight, InvokeOutcome(i)
    PROVE  /\ inflight' = inflight \ {i} /\ requests' = requests /\ applied' = applied
           /\ \/ /\ heap' = heap /\ recoveries' = recoveries
                 /\ mCaseSessionRecovered' = mCaseSessionRecovered \/ ~mCaseSessionRecovered'
              \/ /\ i.done => "response" \in Faults
                 /\ ~mCaseSessionRecovered /\ mCaseSessionRecovered'
                 /\ recoveries' = recoveries + 1
                 /\ \/ heap' = heap
                    \/ \E s \in Slot :
                          /\ heap[s] = Free
                          /\ \A r \in Slot \ {s} : heap'[r] = heap[r]
                          /\ heap'[s] = Free \/ heap'[s].id = i.data.id
<1> USE DEF Safe
<1>1. inflight' = inflight \ {i} /\ requests' = requests
  BY DEF InvokeOutcome, InvokeSucceeded, InvokeTimedOut, InvokeFailed, history
<1>2. CASE heap' = heap /\ applied' = applied /\ recoveries' = recoveries
           /\ (mCaseSessionRecovered' = mCaseSessionRecovered \/ mCaseSessionRecovered' = FALSE)
  BY <1>1, <1>2
<1>3. CASE InvokeTimedOut(i) /\ RecoverSession(i.data)
  <2>1. /\ i.done => "response" \in Faults
        /\ ~mCaseSessionRecovered /\ mCaseSessionRecovered' = TRUE
        /\ recoveries' = recoveries + 1
    BY <1>3 DEF InvokeTimedOut, RecoverSession, MarkRecovered
  <2>2. CASE HasRoom
    <3> DEFINE copy == [i.data EXCEPT !.attempt = recoveries + 1]
               h == [heap EXCEPT ![NewSlot] = copy]
    <3>1. NotifyBoundClusterChanged(NewSlot, copy, h)
      BY <1>3, <2>2 DEF RecoverSession
    <3>2. copy.id = i.data.id /\ copy.isGroup = FALSE
      <4>1. i.data \in BindingData /\ i.data.isGroup = FALSE
        BY DEF TypeOK, Invoke, OneWay
      <4> QED BY <4>1 DEF BindingData
    <3> HIDE DEF copy
    <3>3. NewSlot \in Slot /\ heap[NewSlot] = Free
      BY <2>2, NewSlotIsFree
    <3>4. h \in [Slot -> BindingData \cup {Free, copy}]
          /\ h[NewSlot] = copy /\ \A r \in Slot \ {NewSlot} : h[r] = heap[r]
      BY <3>3 DEF TypeOK
    <3> HIDE DEF h
    <3>5. applied' = applied /\ (heap' = h \/ heap' = [h EXCEPT ![NewSlot] = Free])
      BY <3>1, <3>2 DEF NotifyBoundClusterChanged
    <3>6. /\ \A r \in Slot \ {NewSlot} : heap'[r] = heap[r]
          /\ heap'[NewSlot] = copy \/ heap'[NewSlot] = Free
      BY <3>3, <3>4, <3>5
    <3> QED BY <1>1, <2>1, <3>2, <3>3, <3>5, <3>6
  <2>3. CASE ~HasRoom
    <3>1. heap' = heap /\ applied' = applied
      BY <1>3, <2>3 DEF RecoverSession
    <3> QED BY <1>1, <2>1, <3>1
  <2> QED BY <2>2, <2>3
<1> QED
  BY <1>2, <1>3 DEF InvokeOutcome, InvokeSucceeded, InvokeTimedOut, InvokeFailed, GiveUp, history

LEMMA AppliesMoves ==
    ASSUME Safe, NEW i \in inflight, DeviceApplies(i)
    PROVE  /\ heap' = heap /\ requests' = requests /\ recoveries' = recoveries
           /\ mCaseSessionRecovered' = mCaseSessionRecovered
           /\ \A j \in inflight' : j \in inflight \ {i}
                                  \/ (j = [i EXCEPT !.done = TRUE] /\ j.done)
           /\ [i EXCEPT !.done = TRUE].data = i.data
           /\ \A d \in Device, n \in 1..MaxRequests :
                 d # i.dev \/ n # i.data.id => applied'[d][n] = applied[d][n]
           /\ applied'[i.dev][i.data.id] = applied[i.dev][i.data.id] + 1
<1>1. i \in Invoke /\ i.dev \in Device /\ i.data.id \in 1..MaxRequests
  <2>1. i \in Invoke
    BY DEF Safe, TypeOK
  <2> QED BY <2>1 DEF Invoke, BindingData
<1>2. /\ inflight' = (inflight \ {i}) \cup {[i EXCEPT !.done = TRUE]}
      /\ applied' = [applied EXCEPT ![i.dev][i.data.id] = @ + 1]
  BY DEF DeviceApplies
<1>3. [i EXCEPT !.done = TRUE].data = i.data /\ [i EXCEPT !.done = TRUE].done
  BY <1>1 DEF Invoke
<1>4. applied \in [Device \cup {Group} -> [1..MaxRequests -> Nat]]
  BY DEF Safe, TypeOK
<1>5. /\ \A d \in Device, n \in 1..MaxRequests :
            d # i.dev \/ n # i.data.id => applied'[d][n] = applied[d][n]
      /\ applied'[i.dev][i.data.id] = applied[i.dev][i.data.id] + 1
  BY <1>1, <1>2, <1>4
<1>6. \A j \in inflight' : j \in inflight \ {i} \/ (j = [i EXCEPT !.done = TRUE] /\ j.done)
  BY <1>2, <1>3
<1> QED BY <1>3, <1>5, <1>6 DEF DeviceApplies
----------------------------------------------------------------------------
(***************************************************************************)
(* One carrier for each request.                                           *)
(***************************************************************************)
LEMMA LiveIds ==
    ASSUME Safe, OneWay
    PROVE  /\ \A s \in Slot : heap[s] # Free => heap[s].id \in 1..requests
           /\ \A i \in inflight : i.data.id \in 1..requests
<1>1. requests \in Nat
  BY DEF Safe, TypeOK
<1>2. \A x \in Live : x.id \in 1..requests
  BY <1>1, LiveType DEF Safe, OneWay
<1> QED BY <1>2 DEF Live

LEMMA FreesKeepsCarrier ==
    ASSUME OneCarrier, Frees
    PROVE  OneCarrier'
BY DEF OneCarrier, Frees

LEMMA RequestKeepsCarrier ==
    ASSUME Safe, OneWay, OneCarrier,
           \/ \E a \in OnOff : InitiateActionSwitch(a)
           \/ DimmerChangeBrightness
           \/ \E c \in OnOff, g \in BOOLEAN : ShellCommandHandler(c, g)
    PROVE  OneCarrier'
<1>1. requests + 1 \notin 1..requests /\ inflight' = inflight
  BY RequestCarries DEF Safe, TypeOK
<1>2. PICK s \in Slot :
        /\ \A r \in Slot \ {s} : heap'[r] = heap[r]
        /\ heap'[s] = heap[s] \/ (heap[s] = Free /\ heap'[s].id = requests + 1)
  BY RequestCarries
<1> QED BY <1>1, <1>2, LiveIds DEF OneCarrier

LEMMA ConnectKeepsCarrier ==
    ASSUME Safe, SameDevice, OneCarrier, NEW d \in Device, ConnectOutcome(d)
    PROVE  OneCarrier'
<1>1. ASSUME NEW i \in inflight'
      PROVE  \/ i \in inflight
             \/ \E s \in Slot : /\ heap[s] # Free /\ heap'[s] = Free
                               /\ i = [dev |-> d, data |-> heap[s], done |-> FALSE]
  BY ConnectMoves
<1>2. \A s \in Slot : heap'[s] = heap[s] \/ heap'[s] = Free
  BY ConnectMoves
<1>3. \A s, t \in Slot : heap'[s] # Free /\ heap'[t] # Free /\ heap'[s].id = heap'[t].id => s = t
  BY <1>2 DEF OneCarrier
<1>4. \A s \in Slot, i \in inflight' : heap'[s] # Free => heap'[s].id # i.data.id
  BY <1>1, <1>2 DEF OneCarrier
<1>5. ASSUME NEW i \in inflight', NEW j \in inflight', i.data.id = j.data.id
      PROVE  i = j
  <2>1. CASE i \in inflight /\ j \in inflight
    BY <1>5, <2>1 DEF OneCarrier
  <2>2. ASSUME NEW s \in Slot, heap[s] # Free, i.data = heap[s]
        PROVE  j \notin inflight
    BY <1>5, <2>2 DEF OneCarrier
  <2>3. ASSUME NEW s \in Slot, heap[s] # Free, j.data = heap[s]
        PROVE  i \notin inflight
    BY <1>5, <2>3 DEF OneCarrier
  <2>4. ASSUME NEW s \in Slot, heap[s] # Free, i = [dev |-> d, data |-> heap[s], done |-> FALSE],
               NEW t \in Slot, heap[t] # Free, j = [dev |-> d, data |-> heap[t], done |-> FALSE]
        PROVE  i = j
    <3>1. s = t
      BY <1>5, <2>4 DEF OneCarrier
    <3> QED BY <2>4, <3>1
  <2> QED BY <1>1, <2>1, <2>2, <2>3, <2>4
<1> QED BY <1>3, <1>4, <1>5 DEF OneCarrier

LEMMA AnswerKeepsCarrier ==
    ASSUME Safe, OneWay, OneCarrier, NEW i \in inflight, InvokeOutcome(i)
    PROVE  OneCarrier'
<1>1. inflight' = inflight \ {i}
  BY AnswerMoves
<1>2. CASE heap' = heap
  BY <1>1, <1>2 DEF OneCarrier
<1>3. ASSUME NEW s \in Slot, heap[s] = Free, \A r \in Slot \ {s} : heap'[r] = heap[r],
             heap'[s] = Free \/ heap'[s].id = i.data.id
      PROVE  OneCarrier'
  BY <1>1, <1>3 DEF OneCarrier
<1> QED BY <1>2, <1>3, AnswerMoves

LEMMA AppliesKeepsCarrier ==
    ASSUME Safe, OneCarrier, NEW i \in inflight, DeviceApplies(i)
    PROVE  OneCarrier'
<1>1. \A j \in inflight' : \/ j \in inflight \ {i}
                           \/ j = [i EXCEPT !.done = TRUE] /\ j.data = i.data
  BY AppliesMoves
<1>2. heap' = heap
  BY AppliesMoves
<1> QED BY <1>1, <1>2 DEF OneCarrier

LEMMA CarrierStep ==
    ASSUME SameDevice, Safe, OneWay, OneCarrier, [Next]_vars
    PROVE  OneCarrier'
<1>1. CASE UNCHANGED vars
  BY <1>1 DEF vars, OneCarrier
<1> QED
  BY <1>1, RequestKeepsCarrier, WorkerFrees, TableFrees, FreesKeepsCarrier,
     ConnectKeepsCarrier, AnswerKeepsCarrier, AppliesKeepsCarrier DEF Next
----------------------------------------------------------------------------
(***************************************************************************)
(* No command is applied twice, where no response is lost.                 *)
(***************************************************************************)
LEMMA RequestKeepsUnapplied ==
    ASSUME Safe, OneWay, Unapplied,
           \/ \E a \in OnOff : InitiateActionSwitch(a)
           \/ DimmerChangeBrightness
           \/ \E c \in OnOff, g \in BOOLEAN : ShellCommandHandler(c, g)
    PROVE  Unapplied'
<1>1. requests \in Nat /\ MaxRequests \in Nat /\ inflight' = inflight /\ applied' = applied
      /\ requests < MaxRequests
  BY RequestCarries, BoundAssumption DEF Safe, TypeOK
<1>2. requests + 1 \in 1..MaxRequests /\ requests + 1 > requests
  BY <1>1
<1>3. \A d \in Device : applied[d][requests + 1] = 0
  BY <1>2 DEF OneWay
<1>4. PICK s \in Slot :
        /\ \A r \in Slot \ {s} : heap'[r] = heap[r]
        /\ heap'[s] = heap[s] \/ (heap[s] = Free /\ heap'[s].id = requests + 1)
  BY RequestCarries
<1> QED BY <1>1, <1>3, <1>4 DEF Unapplied, AppliedAtMostOnce

LEMMA FreesKeepsUnapplied ==
    ASSUME Unapplied, Frees
    PROVE  Unapplied'
BY DEF Unapplied, AppliedAtMostOnce, Frees

LEMMA ConnectKeepsUnapplied ==
    ASSUME Safe, SameDevice, Unapplied, NEW d \in Device, ConnectOutcome(d)
    PROVE  Unapplied'
<1>1. ASSUME NEW i \in inflight'
      PROVE  i \in inflight \/ \E s \in Slot : heap[s] # Free /\ i.data = heap[s]
  BY ConnectMoves
<1>2. applied' = applied /\ \A s \in Slot : heap'[s] = heap[s] \/ heap'[s] = Free
  BY ConnectMoves
<1> QED BY <1>1, <1>2 DEF Unapplied, AppliedAtMostOnce

LEMMA AnswerKeepsUnapplied ==
    ASSUME Safe, OneWay, Unapplied, "response" \notin Faults,
           NEW i \in inflight, InvokeOutcome(i)
    PROVE  Unapplied'
<1>1. inflight' = inflight \ {i} /\ applied' = applied
  BY AnswerMoves
<1>2. CASE heap' = heap
  BY <1>1, <1>2 DEF Unapplied, AppliedAtMostOnce
<1>3. ASSUME ~i.done, NEW s \in Slot, heap[s] = Free,
             \A r \in Slot \ {s} : heap'[r] = heap[r],
             heap'[s] = Free \/ heap'[s].id = i.data.id
      PROVE  Unapplied'
  BY <1>1, <1>3 DEF Unapplied, AppliedAtMostOnce
<1> QED BY <1>2, <1>3, AnswerMoves

LEMMA AppliesKeepsUnapplied ==
    ASSUME Safe, OneWay, OneCarrier, Unapplied, NEW i \in inflight, DeviceApplies(i)
    PROVE  Unapplied'
<1>0. ~i.done /\ i.dev \in Device
  <2>1. i \in Invoke
    BY DEF Safe, TypeOK
  <2> QED BY <2>1 DEF DeviceApplies, Invoke
<1>1. \A d \in Device, n \in 1..MaxRequests :
        d # i.dev \/ n # i.data.id => applied'[d][n] = applied[d][n]
  BY AppliesMoves
<1>2. applied'[i.dev][i.data.id] = 1
  BY <1>0, AppliesMoves DEF Unapplied
<1>3. AppliedAtMostOnce'
  BY <1>1, <1>2 DEF Unapplied, AppliedAtMostOnce
<1>4. ASSUME NEW s \in Slot, heap'[s] # Free, NEW d \in Device
      PROVE  applied'[d][heap'[s].id] = 0
  <2>1. heap' = heap /\ heap[s].id \in 1..MaxRequests /\ heap[s].id # i.data.id
    <3>1. heap' = heap
      BY AppliesMoves
    <3>2. heap[s] \in BindingData
      BY <1>4, <3>1 DEF Safe, TypeOK
    <3> QED BY <1>4, <3>1, <3>2 DEF OneCarrier, BindingData
  <2> QED BY <1>1, <1>4, <2>1 DEF Unapplied
<1>5. ASSUME NEW j \in inflight', ~j.done, NEW d \in Device
      PROVE  applied'[d][j.data.id] = 0
  <2>1. j \in inflight \ {i}
    BY <1>5, AppliesMoves
  <2>2. j.data.id \in 1..MaxRequests /\ j.data.id # i.data.id
    <3>1. j \in Invoke
      BY <2>1 DEF Safe, TypeOK
    <3> QED BY <2>1, <3>1 DEF OneCarrier, Invoke, BindingData
  <2> QED BY <1>1, <1>5, <2>1, <2>2 DEF Unapplied
<1> QED BY <1>3, <1>4, <1>5 DEF Unapplied

LEMMA UnappliedStep ==
    ASSUME SameDevice, "response" \notin Faults,
           Safe, OneWay, OneCarrier, Unapplied, [Next]_vars
    PROVE  Unapplied'
<1>1. CASE UNCHANGED vars
  BY <1>1 DEF vars, history, Unapplied, AppliedAtMostOnce
<1> QED
  BY <1>1, RequestKeepsUnapplied, WorkerFrees, TableFrees, FreesKeepsUnapplied,
     ConnectKeepsUnapplied, AnswerKeepsUnapplied, AppliesKeepsUnapplied DEF Next

\* No device is given one request twice: with a single device, and where no
\* response is lost, what is sent again has not been applied.
THEOREM AppliedOnce ==
    ASSUME SameDevice, "response" \notin Faults
    PROVE  Spec => []AppliedAtMostOnce
<1>1. Init => OneCarrier /\ Unapplied
  BY DEF Init, OneCarrier, Unapplied, AppliedAtMostOnce
<1>2. Safe /\ OneWay /\ OneCarrier /\ Unapplied /\ [Next]_vars => OneCarrier' /\ Unapplied'
  BY CarrierStep, UnappliedStep
<1>3. Unapplied => AppliedAtMostOnce
  BY DEF Unapplied
<1> QED BY <1>1, <1>2, <1>3, SafeInit, SafeStep, OneWayInit, OneWayStep, PTL DEF Spec
----------------------------------------------------------------------------
(***************************************************************************)
(* Recoveries.  The flag allows the next one only after a success, which   *)
(* ends a request: with what is still carried, the recoveries never pass   *)
(* the requests.                                                           *)
(***************************************************************************)
Carried == { heap[s].id : s \in { r \in Slot : heap[r] # Free } }
           \cup { i.data.id : i \in inflight }

Budget ==
    /\ recoveries <= requests
    /\ mCaseSessionRecovered => recoveries + Cardinality(Carried) <= requests + 1
    /\ ~mCaseSessionRecovered => recoveries + Cardinality(Carried) <= requests

LEMMA CarriedFinite ==
    ASSUME Safe, OneWay
    PROVE  /\ IsFiniteSet(Carried) /\ Cardinality(Carried) \in Nat
           /\ requests \in Nat /\ recoveries \in Nat
<1>1. requests \in Nat /\ recoveries \in Nat
  BY DEF Safe, TypeOK
<1>2. Carried \subseteq 1..requests
  BY LiveIds DEF Carried
<1>3. IsFiniteSet(1..requests)
  BY <1>1, FS_Interval
<1> QED BY <1>1, <1>2, <1>3, FS_Subset, FS_CardinalityType

\* A step that carries nothing new and recovers nothing.
LEMMA BudgetKept ==
    ASSUME Safe, OneWay, Budget, Carried' \subseteq Carried,
           requests' = requests, recoveries' = recoveries,
           mCaseSessionRecovered' = mCaseSessionRecovered
    PROVE  Budget'
<1>1. Cardinality(Carried') <= Cardinality(Carried) /\ Cardinality(Carried') \in Nat
  BY CarriedFinite, FS_Subset, FS_CardinalityType
<1> QED BY <1>1, CarriedFinite DEF Budget

LEMMA RequestKeepsBudget ==
    ASSUME Safe, OneWay, Budget,
           \/ \E a \in OnOff : InitiateActionSwitch(a)
           \/ DimmerChangeBrightness
           \/ \E c \in OnOff, g \in BOOLEAN : ShellCommandHandler(c, g)
    PROVE  Budget'
<1> DEFINE n == requests + 1
<1>1. /\ inflight' = inflight /\ requests' = n /\ recoveries' = recoveries
      /\ mCaseSessionRecovered' = mCaseSessionRecovered
  BY RequestCarries
<1>2. PICK s \in Slot :
        /\ \A r \in Slot \ {s} : heap'[r] = heap[r]
        /\ heap'[s] = heap[s] \/ (heap[s] = Free /\ heap'[s].id = n)
  BY RequestCarries
<1> HIDE DEF n
<1>3. Carried' \subseteq Carried \cup {n}
  BY <1>1, <1>2 DEF Carried
<1>4. /\ IsFiniteSet(Carried \cup {n})
      /\ Cardinality(Carried \cup {n}) \in {Cardinality(Carried), Cardinality(Carried) + 1}
  BY CarriedFinite, FS_AddElement
<1>5. /\ Cardinality(Carried') <= Cardinality(Carried \cup {n})
      /\ Cardinality(Carried') \in Nat
  BY <1>3, <1>4, FS_Subset, FS_CardinalityType
<1>6. Cardinality(Carried') <= Cardinality(Carried) + 1
  BY <1>4, <1>5, CarriedFinite
<1>7. requests' = requests + 1
  BY <1>1 DEF n
<1> QED BY <1>1, <1>5, <1>6, <1>7, CarriedFinite DEF Budget

LEMMA AnswerKeepsBudget ==
    ASSUME Safe, OneWay, OneCarrier, Budget, NEW i \in inflight, InvokeOutcome(i)
    PROVE  Budget'
<1> DEFINE n == i.data.id
<1>0. n \in Carried
  BY DEF Carried
<1>1. inflight' = inflight \ {i} /\ requests' = requests
  BY AnswerMoves
<1>2. CASE /\ heap' = heap /\ recoveries' = recoveries
           /\ mCaseSessionRecovered' = mCaseSessionRecovered \/ ~mCaseSessionRecovered'
  <2>1. Carried' \subseteq Carried \ {n}
    BY <1>1, <1>2 DEF Carried, OneCarrier
  <2> HIDE DEF n
  <2>2. /\ IsFiniteSet(Carried \ {n})
        /\ Cardinality(Carried \ {n}) = Cardinality(Carried) - 1
    BY <1>0, CarriedFinite, FS_RemoveElement
  <2>3. /\ Cardinality(Carried') <= Cardinality(Carried) - 1
        /\ Cardinality(Carried') \in Nat
    BY <2>1, <2>2, FS_Subset, FS_CardinalityType
  <2> QED BY <1>1, <1>2, <2>3, CarriedFinite DEF Budget
<1>3. CASE /\ ~mCaseSessionRecovered /\ mCaseSessionRecovered'
           /\ recoveries' = recoveries + 1
           /\ \/ heap' = heap
              \/ \E s \in Slot :
                    /\ heap[s] = Free
                    /\ \A r \in Slot \ {s} : heap'[r] = heap[r]
                    /\ heap'[s] = Free \/ heap'[s].id = i.data.id
  <2>1. Carried' \subseteq Carried
    BY <1>1, <1>3 DEF Carried
  <2>2. Cardinality(Carried') <= Cardinality(Carried) /\ Cardinality(Carried') \in Nat
    BY <2>1, CarriedFinite, FS_Subset, FS_CardinalityType
  <2> HIDE DEF n
  <2>3. Cardinality(Carried) >= 1
    <3>1. Cardinality(Carried) # 0
      BY <1>0, CarriedFinite, FS_EmptySet
    <3> QED BY <3>1, CarriedFinite
  <2> QED BY <1>1, <1>3, <2>2, <2>3, CarriedFinite DEF Budget
<1> QED BY <1>2, <1>3, AnswerMoves

LEMMA BudgetStep ==
    ASSUME SameDevice, Safe, OneWay, OneCarrier, Budget, [Next]_vars
    PROVE  Budget'
<1>1. CASE UNCHANGED vars
  <2>1. Carried' = Carried
    BY <1>1 DEF vars, Carried
  <2> QED BY <1>1, <2>1, BudgetKept DEF vars, history
<1>2. ASSUME Frees, requests' = requests, recoveries' = recoveries,
             mCaseSessionRecovered' = mCaseSessionRecovered
      PROVE  Budget'
  <2>1. Carried' \subseteq Carried
    BY <1>2 DEF Frees, Carried
  <2> QED BY <1>2, <2>1, BudgetKept
<1>3. CASE SwitchWorkerHandler
  BY <1>2, <1>3, WorkerFrees DEF SwitchWorkerHandler
<1>4. ASSUME NEW t, BindingTableWritten(t)
      PROVE  Budget'
  BY <1>2, <1>4, TableFrees DEF BindingTableWritten, history
<1>5. ASSUME NEW d \in Device, ConnectOutcome(d)
      PROVE  Budget'
  <2>1. \A i \in inflight' \ inflight : \E s \in Slot : heap[s] # Free /\ i.data = heap[s]
    BY <1>5, ConnectMoves
  <2>2. \A s \in Slot : heap'[s] = heap[s] \/ heap'[s] = Free
    BY <1>5, ConnectMoves
  <2>3. Carried' \subseteq Carried
    BY <2>1, <2>2 DEF Carried
  <2>4. requests' = requests /\ recoveries' = recoveries
        /\ mCaseSessionRecovered' = mCaseSessionRecovered
    BY <1>5 DEF ConnectOutcome, DeviceConnected, ConnectionFailed, history
  <2> QED BY <2>3, <2>4, BudgetKept
<1>6. ASSUME NEW i \in inflight, DeviceApplies(i)
      PROVE  Budget'
  <2>1. heap' = heap /\ \A j \in inflight' : \E k \in inflight : j.data = k.data
    BY <1>6, AppliesMoves
  <2>2. Carried' \subseteq Carried
    BY <2>1 DEF Carried
  <2> QED BY <1>6, <2>2, AppliesMoves, BudgetKept
<1> QED
  BY <1>1, <1>3, <1>4, <1>5, <1>6, RequestKeepsBudget, AnswerKeepsBudget DEF Next

\* There are never more recoveries than requests, whatever is lost, as long as
\* there is a single device whose success can clear the flag.  Which request
\* they are for is not said: one may be recovered twice and another never.
THEOREM RecoveriesBounded ==
    ASSUME SameDevice
    PROVE  Spec => []RecoveriesWithinRequests
<1>1. Init => OneCarrier
  BY DEF Init, OneCarrier
<1>2. Init => Budget
  <2> SUFFICES ASSUME Init PROVE Budget
    OBVIOUS
  <2>1. Carried = {} /\ recoveries = 0 /\ requests = 0
    BY DEF Init, Carried
  <2> QED BY <2>1, FS_EmptySet DEF Budget
<1>3. Safe /\ OneWay /\ OneCarrier /\ Budget /\ [Next]_vars => OneCarrier' /\ Budget'
  BY CarrierStep, BudgetStep
<1>4. Budget => RecoveriesWithinRequests
  BY DEF Budget, RecoveriesWithinRequests
<1> QED BY <1>1, <1>2, <1>3, <1>4, SafeInit, SafeStep, OneWayInit, OneWayStep, PTL DEF Spec
============================================================================
