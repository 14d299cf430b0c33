--------------------------- MODULE BindingHandler ---------------------------
(***************************************************************************)
(* How the light switch controls the bound lights (TouchButton /           *)
(* light_switch / src: light_switch.cpp, binding_handler.cpp and           *)
(* shell_commands.cpp).  The application thread and the shell allocate a   *)
(* BindingData and schedule work on the CHIP thread; the CHIP thread looks *)
(* the bindings up, connects to each bound device, sends the command and   *)
(* retransmits it once when the answer does not come.                      *)
(*                                                                         *)
(* The work queue of the CHIP thread, its BindingManager, the sessions and *)
(* the devices are external; they appear as this code uses them.           *)
(***************************************************************************)
EXTENDS Integers, Sequences, FiniteSets

CONSTANTS
    Device,          \* the devices a unicast binding can name
    Requests,        \* what the user asks for: "Toggle", "On", "Off", "Level"
    ShellRequests,   \* the same, over the shell
    Faults,          \* what goes wrong
    TableChanges,    \* does the binding table change while the switch is used?
    MaxData,         \* room on the heap for this many BindingData
    WorkSize,        \* length of the event queue of the CHIP thread
    MaxRequests,     \* bound of the model: requests of the user
    MaxRecoveries    \* bound of the model: recoveries in one behaviour

\* kOnePercentBrightnessApproximation and kMaximumBrightness
Step == 3
MaximumBrightness == 254

Group == "group"      \* the multicast binding
OnOff == {"Toggle", "On", "Off"}
AllFaults == {"request", "response", "other", "connect", "invoke", "notify"}

ASSUME DeviceAssumption == IsFiniteSet(Device) /\ Group \notin Device
ASSUME RequestAssumption == /\ Requests \subseteq OnOff \cup {"Level"}
                            /\ ShellRequests \subseteq OnOff
ASSUME FaultAssumption == Faults \subseteq AllFaults /\ TableChanges \in BOOLEAN
ASSUME BoundAssumption == /\ MaxData \in Nat \ {0} /\ WorkSize \in Nat \ {0}
                          /\ MaxRequests \in Nat /\ MaxRecoveries \in Nat

VARIABLES
    heap,        \* the BindingData objects
    work,        \* SwitchWorkerHandler calls scheduled on the CHIP thread
    pending,     \* BindingManager: contexts that wait for a device to connect
    inflight,    \* invoked commands that have not been answered yet
    table,       \* the binding table
    sBrightness,
    mCaseSessionRecovered,
    crashed,     \* a failed allocation has been dereferenced
    requests,    \* requests made so far (history)
    recoveries,  \* recoveries so far (history)
    applied      \* how often each device, or the group, was given each request (history)

history == <<requests, recoveries, applied>>
vars == <<heap, work, pending, inflight, table, sBrightness, mCaseSessionRecovered,
          crashed, history>>
----------------------------------------------------------------------------
Slot == 1..MaxData
Free == [command |-> "free"]
UInt8 == 0..255

\* id and attempt are history: the request this stems from, and the recovery
\* that made the copy (0 for the original).
BindingData == [command : OnOff \cup {"Level"}, value : UInt8, isGroup : BOOLEAN,
                id : 1..MaxRequests, attempt : 0..MaxRecoveries]

Invoke == [dev : Device, data : BindingData, done : BOOLEAN]

Init ==
    /\ heap = [s \in Slot |-> Free]
    /\ work = <<>> /\ pending = {} /\ inflight = {}
    /\ table \in SUBSET (Device \cup {Group})
    /\ sBrightness = 0
    /\ mCaseSessionRecovered = FALSE /\ crashed = FALSE
    /\ requests = 0 /\ recoveries = 0
    /\ applied = [d \in Device \cup {Group} |-> [i \in 1..MaxRequests |-> 0]]
----------------------------------------------------------------------------
(* The application thread: class LightSwitch, and the shell. *)

FreeSlots == { s \in Slot : heap[s] = Free }
HasRoom   == FreeSlots # {}
NewSlot   == CHOOSE s \in FreeSlots : TRUE

IsGroupBound == Group \in table

\* Mutation: the queue takes what it has no room for.
ScheduleWorkUnbounded(command, value, isGroup) ==
    /\ heap' = [heap EXCEPT ![NewSlot] =
                   [command |-> command, value |-> value, isGroup |-> isGroup,
                    id |-> requests + 1, attempt |-> 0]]
    /\ work' = Append(work, NewSlot)

\* Platform::New and PlatformMgr().ScheduleWork, whose result is ignored: where
\* the queue is full the object is never seen again.
ScheduleWork(command, value, isGroup) ==
    /\ heap' = [heap EXCEPT ![NewSlot] =
                   [command |-> command, value |-> value, isGroup |-> isGroup,
                    id |-> requests + 1, attempt |-> 0]]
    /\ work' = IF Len(work) < WorkSize THEN Append(work, NewSlot) ELSE work

Request ==
    /\ ~crashed
    /\ requests < MaxRequests
    /\ requests' = requests + 1
    /\ UNCHANGED <<pending, inflight, table, mCaseSessionRecovered, recoveries, applied>>

\* Without room on the heap, LightSwitch drops the request.
InitiateActionSwitch(action) ==
    /\ action \in Requests \cap OnOff
    /\ Request
    /\ HasRoom
    /\ ScheduleWork(action, 0, IsGroupBound)
    /\ UNCHANGED <<sBrightness, crashed>>

NextBrightness(b) == IF b + Step > MaximumBrightness THEN 0 ELSE b + Step

DimmerChangeBrightness ==
    /\ "Level" \in Requests
    /\ Request
    /\ HasRoom
    /\ sBrightness' = NextBrightness(sBrightness)
    /\ ScheduleWork("Level", NextBrightness(sBrightness) % 256, IsGroupBound)
    /\ UNCHANGED crashed

\* The handlers of "switch onoff" and "switch groups onoff" do not look at the
\* table, nor at the result of the allocation.
ShellCommandHandler(command, isGroup) ==
    /\ command \in ShellRequests
    /\ Request
    /\ IF HasRoom
       THEN ScheduleWork(command, 0, isGroup) /\ UNCHANGED crashed
       ELSE crashed' = TRUE /\ UNCHANGED <<heap, work>>
    /\ UNCHANGED sBrightness
----------------------------------------------------------------------------
(* The CHIP thread. *)

\* Mutation: the context is released for the first device that is done with it.
ReleaseEarly(h, p) ==
    [s \in Slot |-> IF \E d \in Device : <<s, d>> \in pending \ p THEN Free ELSE h[s]]

\* Mutation: LightSwitchContextReleaseHandler is not registered.
ReleaseNever(h, p) == h

\* Contexts that nothing refers to any more: LightSwitchContextReleaseHandler.
\* p is what is pending after the step, h the heap without the release.
Release(h, p) ==
    [s \in Slot |-> IF /\ \E d \in Device : <<s, d>> \in pending
                       /\ \A d \in Device : <<s, d>> \notin p
                    THEN Free ELSE h[s]]

\* BindingManager::NotifyBoundClusterChanged with context s, holding data; h is
\* the heap.  The multicast bindings are served at once, the unicast ones when
\* the device is connected.  An error leaves the context to the caller.
NotifyBoundClusterChanged(s, data, h) ==
    \/ /\ "notify" \in Faults
       /\ heap' = h
       /\ UNCHANGED <<pending, applied>>
    \/ /\ applied' = IF Group \in table /\ data.isGroup
                     THEN [applied EXCEPT ![Group][data.id] = @ + 1] ELSE applied
       /\ pending' = pending \cup ({s} \X (table \cap Device))
       /\ heap' = IF table \cap Device = {} THEN [h EXCEPT ![s] = Free] ELSE h

SwitchWorkerHandler ==
    /\ ~crashed
    /\ work # <<>>
    /\ work' = Tail(work)
    /\ NotifyBoundClusterChanged(Head(work), heap[Head(work)], heap)
    /\ UNCHANGED <<inflight, table, sBrightness, mCaseSessionRecovered, crashed,
                   requests, recoveries>>

WaitingFor(d) == { s \in Slot : <<s, d>> \in pending }

\* Mutation: a unicast binding is served whatever IsGroup says.
InvokesAlways(d) ==
    { [dev |-> d, data |-> heap[s], done |-> FALSE] : s \in WaitingFor(d) }

\* What LightSwitchChangedHandler sends to a unicast binding.
Invokes(d) ==
    { [dev |-> d, data |-> heap[s], done |-> FALSE] :
          s \in { t \in WaitingFor(d) : ~heap[t].isGroup } }

\* The session to d is up: LightSwitchChangedHandler runs for every context
\* that waits for d, then those contexts are done with d.  An error of one
\* InvokeCommandRequest is only logged, and the others are sent.
DeviceConnected(d) ==
    /\ ~crashed
    /\ WaitingFor(d) # {}
    /\ \E sent \in SUBSET Invokes(d) :
           /\ sent = Invokes(d) \/ "invoke" \in Faults
           /\ inflight' = inflight \cup sent
    /\ pending' = { w \in pending : w[2] # d }
    /\ heap' = Release(heap, { w \in pending : w[2] # d })
    /\ UNCHANGED <<work, table, sBrightness, mCaseSessionRecovered, crashed, history>>

ConnectionFailed(d) ==
    /\ "connect" \in Faults
    /\ ~crashed
    /\ WaitingFor(d) # {}
    /\ pending' = { w \in pending : w[2] # d }
    /\ heap' = Release(heap, { w \in pending : w[2] # d })
    /\ UNCHANGED <<inflight, work, table, sBrightness, mCaseSessionRecovered, crashed,
                   history>>

\* onSuccess
InvokeSucceeded(i) ==
    /\ ~crashed
    /\ i.done
    /\ inflight' = inflight \ {i}
    /\ mCaseSessionRecovered' = FALSE
    /\ UNCHANGED <<heap, work, pending, table, sBrightness, crashed, history>>

\* Mutation: the flag that stops a second recovery is not set.
MarkForgotten == UNCHANGED mCaseSessionRecovered

MarkRecovered == mCaseSessionRecovered' = TRUE

\* OnInvokeCommandFailure with CHIP_ERROR_TIMEOUT for the first time: the
\* command is sent again to everything that is bound.
RecoverSession(data) ==
    LET copy == [data EXCEPT !.attempt = recoveries + 1] IN
    /\ ~mCaseSessionRecovered
    /\ recoveries < MaxRecoveries
    /\ MarkRecovered
    /\ recoveries' = recoveries + 1
    /\ IF HasRoom
       THEN /\ NotifyBoundClusterChanged(NewSlot, copy, [heap EXCEPT ![NewSlot] = copy])
            /\ UNCHANGED crashed
       ELSE crashed' = TRUE /\ UNCHANGED <<heap, pending, applied>>

GiveUp == UNCHANGED <<heap, pending, applied, mCaseSessionRecovered, recoveries, crashed>>

\* No answer came: the request was lost, or its response.
InvokeTimedOut(i) ==
    /\ ~crashed
    /\ IF i.done THEN "response" \in Faults ELSE "request" \in Faults
    /\ inflight' = inflight \ {i}
    /\ RecoverSession(i.data) \/ (mCaseSessionRecovered /\ GiveUp)
    /\ UNCHANGED <<work, table, sBrightness, requests>>

\* Mutation: every error is taken for a timeout.
InvokeFailedRecovers(i) ==
    /\ ~crashed
    /\ "other" \in Faults
    /\ inflight' = inflight \ {i}
    /\ RecoverSession(i.data) \/ (mCaseSessionRecovered /\ GiveUp)
    /\ UNCHANGED <<work, table, sBrightness, requests>>

\* Mutation: after an error the command is sent again on the same session.
InvokeFailedRetries(i) ==
    /\ ~crashed
    /\ "other" \in Faults
    /\ inflight' = (inflight \ {i}) \cup {[i EXCEPT !.done = FALSE]}
    /\ GiveUp
    /\ UNCHANGED <<work, table, sBrightness, requests>>

\* Any other error: the command is given up.
InvokeFailed(i) ==
    /\ ~crashed
    /\ "other" \in Faults
    /\ inflight' = inflight \ {i}
    /\ GiveUp
    /\ UNCHANGED <<work, table, sBrightness, requests>>

\* A device carries the command out (external).
DeviceApplies(i) ==
    /\ ~i.done
    /\ inflight' = (inflight \ {i}) \cup {[i EXCEPT !.done = TRUE]}
    /\ applied' = [applied EXCEPT ![i.dev][i.data.id] = @ + 1]
    /\ UNCHANGED <<heap, work, pending, table, sBrightness, mCaseSessionRecovered, crashed,
                   requests, recoveries>>

\* A controller writes the binding table (external); what waits for a removed
\* binding is dropped.
BindingTableWritten(t) ==
    /\ TableChanges
    /\ ~crashed
    /\ table' = t
    /\ pending' = { w \in pending : w[2] \in t }
    /\ heap' = Release(heap, { w \in pending : w[2] \in t })
    /\ UNCHANGED <<work, inflight, sBrightness, mCaseSessionRecovered, crashed, history>>
----------------------------------------------------------------------------
InvokeOutcome(i) == InvokeSucceeded(i) \/ InvokeTimedOut(i) \/ InvokeFailed(i)
ConnectOutcome(d) == DeviceConnected(d) \/ ConnectionFailed(d)

Next ==
    \/ \E a \in OnOff : InitiateActionSwitch(a)
    \/ DimmerChangeBrightness
    \/ \E c \in OnOff, g \in BOOLEAN : ShellCommandHandler(c, g)
    \/ SwitchWorkerHandler
    \/ \E d \in Device : ConnectOutcome(d)
    \/ \E i \in inflight : InvokeOutcome(i) \/ DeviceApplies(i)
    \/ \E t \in SUBSET (Device \cup {Group}) : BindingTableWritten(t)

Spec == Init /\ [][Next]_vars

\* The CHIP thread runs its work, and every attempt to connect comes to an end.
FairSpec == /\ Spec
            /\ WF_vars(SwitchWorkerHandler)
            /\ \A d \in Device : WF_vars(ConnectOutcome(d))
----------------------------------------------------------------------------
TypeOK ==
    /\ heap \in [Slot -> BindingData \cup {Free}]
    /\ work \in Seq(Slot) /\ Len(work) <= WorkSize
    /\ pending \subseteq Slot \X Device
    /\ inflight \subseteq Invoke
    /\ table \subseteq Device \cup {Group}
    /\ sBrightness \in 0..MaximumBrightness
    /\ mCaseSessionRecovered \in BOOLEAN /\ crashed \in BOOLEAN
    /\ requests \in 0..MaxRequests /\ recoveries \in 0..MaxRecoveries
    /\ applied \in [Device \cup {Group} -> [1..MaxRequests -> Nat]]

Scheduled(s) == \E k \in DOMAIN work : work[k] = s
Awaited(s)   == \E d \in Device : <<s, d>> \in pending

\* What the CHIP thread will use next has not been freed, and no object is both
\* scheduled and already handed to the BindingManager or scheduled twice: no use
\* after free and no double free, across failed connections, writes of the
\* table and recoveries that allocate in the middle of a callback.
NoUseAfterFree ==
    /\ \A s \in Slot : Scheduled(s) \/ Awaited(s) => heap[s] # Free
    /\ \A s \in Slot : ~(Scheduled(s) /\ Awaited(s))
    /\ \A j, k \in DOMAIN work : work[j] = work[k] => j = k

\* Nothing leaks where ScheduleWork and the BindingManager report no error.
NoLeak == \A s \in Slot : heap[s] # Free => Scheduled(s) \/ Awaited(s)

\* A request goes to the group or to the bound devices, never to both, however
\* the table changes between the request, its execution and its recovery.
NeverBothWays ==
    \A i \in 1..MaxRequests :
        applied[Group][i] > 0 => \A d \in Device : applied[d][i] = 0

\* The recoveries stay within the requests: lost answers, the copies a recovery
\* sends and their losses never feed an endless series of recoveries.  It is a
\* bound on all of them together, and holds with one device.  A single request
\* may well be recovered twice: the flag that is set "to not try recover session
\* multiple times" (binding_handler.cpp:33) is cleared by the success of another
\* one (binding_handler.cpp:63-64).
RecoveriesWithinRequests == recoveries <= requests

\* "Establish new CASE session and retrasmit command that was not applied"
\* (binding_handler.cpp:40): no device is given one request twice.
AppliedAtMostOnce ==
    \A d \in Device, i \in 1..MaxRequests : applied[d][i] <= 1

\* What d was given of the requests ids: <<2, 3>> is the third time for request 2.
CarriedOut(d, ids) == UNION { {i} \X (1..applied[d][i]) : i \in ids }

\* What the retransmission is good for with any number of devices: of any set of
\* requests, a device carries out no more than one for each and one for each
\* recovery, however the table changes in between; a multicast is never repeated.
AppliedAsSent ==
    /\ \A d \in Device, ids \in SUBSET (1..requests) :
          Cardinality(CarriedOut(d, ids)) <= Cardinality(ids) + recoveries
    /\ \A i \in 1..requests : applied[Group][i] <= 1

\* "Writing the groupcast table on the devices blocks sending unicast
\* commands" (README.rst:86).
GroupBlocksUnicast ==
    [][\A i \in inflight' \ inflight : i.done \/ Group \notin table]_vars

\* Every object handed to the CHIP thread is released in the end.
ContextsReleased == \A s \in Slot : heap[s] # Free ~> (heap[s] = Free \/ crashed)
============================================================================
