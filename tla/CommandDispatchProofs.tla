----------------------- MODULE CommandDispatchProofs -----------------------
(***************************************************************************)
(* Theorems about CommandDispatch: the two generated files agree, and so   *)
(* every command that a list advertises is served, and answered once.      *)
(***************************************************************************)
EXTENDS CommandDispatch, TLAPS

(***************************************************************************)
(* The tables.  A switch that is put together from parts has the cases of  *)
(* every part.                                                             *)
(***************************************************************************)
LEMMA BesidesCases ==
    ASSUME NEW f, NEW g, DOMAIN f \cap DOMAIN g = {}
    PROVE  /\ DOMAIN Besides(f, g) = DOMAIN f \cup DOMAIN g
           /\ \A c \in DOMAIN f : Besides(f, g)[c] = f[c]
           /\ \A c \in DOMAIN g : Besides(f, g)[c] = g[c]
BY DEF Besides

LEMMA SwitchParts ==
    /\ DOMAIN SwitchWindow = {"AdministratorCommissioning", "DiagnosticLogs",
                              "EthernetNetworkDiagnostics"}
    /\ DOMAIN SwitchCommissioning = {"GeneralCommissioning", "GeneralDiagnostics",
                                     "GroupKeyManagement"}
    /\ DOMAIN SwitchEndpoints = {"Groups", "Identify"}
    /\ DOMAIN SwitchNetwork = {"NetworkCommissioning", "OtaSoftwareUpdateRequestor"}
    /\ DOMAIN SwitchCredentials = {"OperationalCredentials"}
    /\ DOMAIN SwitchDiagnostics = {"SoftwareDiagnostics", "ThreadNetworkDiagnostics",
                                   "WiFiNetworkDiagnostics"}
BY DEF SwitchWindow, SwitchCommissioning, SwitchEndpoints, SwitchNetwork, SwitchCredentials,
       SwitchDiagnostics

\* No cluster has a case in two parts, so that each part says what its cases are.
LEMMA SwitchWhole ==
    /\ DOMAIN SwitchCases = DOMAIN SwitchWindow \cup DOMAIN SwitchCommissioning
                            \cup DOMAIN SwitchEndpoints \cup DOMAIN SwitchNetwork
                            \cup DOMAIN SwitchCredentials \cup DOMAIN SwitchDiagnostics
    /\ \A c \in DOMAIN SwitchWindow : SwitchCases[c] = SwitchWindow[c]
    /\ \A c \in DOMAIN SwitchCommissioning : SwitchCases[c] = SwitchCommissioning[c]
    /\ \A c \in DOMAIN SwitchEndpoints : SwitchCases[c] = SwitchEndpoints[c]
    /\ \A c \in DOMAIN SwitchNetwork : SwitchCases[c] = SwitchNetwork[c]
    /\ \A c \in DOMAIN SwitchCredentials : SwitchCases[c] = SwitchCredentials[c]
    /\ \A c \in DOMAIN SwitchDiagnostics : SwitchCases[c] = SwitchDiagnostics[c]
<1> DEFINE a == Besides(SwitchWindow, SwitchCommissioning)
           b == Besides(SwitchEndpoints, SwitchNetwork)
           c == Besides(SwitchCredentials, SwitchDiagnostics)
           ab == Besides(a, b)
<1>1. SwitchCases = Besides(ab, c)
  BY DEF SwitchCases
<1>2. /\ DOMAIN a = DOMAIN SwitchWindow \cup DOMAIN SwitchCommissioning
      /\ \A x \in DOMAIN SwitchWindow : a[x] = SwitchWindow[x]
      /\ \A x \in DOMAIN SwitchCommissioning : a[x] = SwitchCommissioning[x]
  <2>1. DOMAIN SwitchWindow \cap DOMAIN SwitchCommissioning = {}
    BY SwitchParts
  <2> QED BY <2>1, BesidesCases
<1>3. /\ DOMAIN b = DOMAIN SwitchEndpoints \cup DOMAIN SwitchNetwork
      /\ \A x \in DOMAIN SwitchEndpoints : b[x] = SwitchEndpoints[x]
      /\ \A x \in DOMAIN SwitchNetwork : b[x] = SwitchNetwork[x]
  <2>1. DOMAIN SwitchEndpoints \cap DOMAIN SwitchNetwork = {}
    BY SwitchParts
  <2> QED BY <2>1, BesidesCases
<1>4. /\ DOMAIN c = DOMAIN SwitchCredentials \cup DOMAIN SwitchDiagnostics
      /\ \A x \in DOMAIN SwitchCredentials : c[x] = SwitchCredentials[x]
      /\ \A x \in DOMAIN SwitchDiagnostics : c[x] = SwitchDiagnostics[x]
  <2>1. DOMAIN SwitchCredentials \cap DOMAIN SwitchDiagnostics = {}
    BY SwitchParts
  <2> QED BY <2>1, BesidesCases
<1> HIDE DEF a, b, c
<1>5. /\ DOMAIN ab = DOMAIN a \cup DOMAIN b
      /\ \A x \in DOMAIN a : ab[x] = a[x]
      /\ \A x \in DOMAIN b : ab[x] = b[x]
  <2>1. DOMAIN a \cap DOMAIN b = {}
    BY <1>2, <1>3, SwitchParts
  <2> QED BY <2>1, BesidesCases
<1> HIDE DEF ab
<1>6. /\ DOMAIN SwitchCases = DOMAIN a \cup DOMAIN b \cup DOMAIN c
      /\ \A x \in DOMAIN a : SwitchCases[x] = a[x]
      /\ \A x \in DOMAIN b : SwitchCases[x] = b[x]
      /\ \A x \in DOMAIN c : SwitchCases[x] = c[x]
  <2>1. DOMAIN ab \cap DOMAIN c = {}
    BY <1>2, <1>3, <1>4, <1>5, SwitchParts
  <2>2. /\ DOMAIN Besides(ab, c) = DOMAIN ab \cup DOMAIN c
        /\ \A x \in DOMAIN ab : Besides(ab, c)[x] = ab[x]
        /\ \A x \in DOMAIN c : Besides(ab, c)[x] = c[x]
    BY <2>1, BesidesCases
  <2> QED BY <1>1, <1>5, <2>2
<1> QED BY <1>2, <1>3, <1>4, <1>6

\* What the lists of the light switch name, the switches have a case for.
LEMMA SwitchServed ==
    \A a \in SwitchAccepted : /\ a.cluster \in DOMAIN SwitchCases
                              /\ a.command \in SwitchCases[a.cluster]
<1> SUFFICES ASSUME NEW a \in SwitchAccepted
             PROVE  a.cluster \in DOMAIN SwitchCases /\ a.command \in SwitchCases[a.cluster]
  OBVIOUS
<1>1. CASE a.cluster \in DOMAIN SwitchWindow
  <2>1. a.command \in SwitchWindow[a.cluster]
    BY <1>1 DEF SwitchAccepted, Accepted, SwitchWindow
  <2> QED BY <1>1, <2>1, SwitchWhole
<1>2. CASE a.cluster \in DOMAIN SwitchCommissioning
  <2>1. a.command \in SwitchCommissioning[a.cluster]
    BY <1>2 DEF SwitchAccepted, Accepted, SwitchCommissioning
  <2> QED BY <1>2, <2>1, SwitchWhole
<1>3. CASE a.cluster \in DOMAIN SwitchEndpoints
  <2>1. a.command \in SwitchEndpoints[a.cluster]
    BY <1>3 DEF SwitchAccepted, Accepted, SwitchEndpoints
  <2> QED BY <1>3, <2>1, SwitchWhole
<1>4. CASE a.cluster \in DOMAIN SwitchNetwork
  <2>1. a.command \in SwitchNetwork[a.cluster]
    BY <1>4 DEF SwitchAccepted, Accepted, SwitchNetwork
  <2> QED BY <1>4, <2>1, SwitchWhole
<1>5. CASE a.cluster \in DOMAIN SwitchCredentials
  <2>1. a.command \in SwitchCredentials[a.cluster]
    BY <1>5 DEF SwitchAccepted, Accepted, SwitchCredentials
  <2> QED BY <1>5, <2>1, SwitchWhole
<1>6. CASE a.cluster \in DOMAIN SwitchDiagnostics
  <2>1. a.command \in SwitchDiagnostics[a.cluster]
    BY <1>6 DEF SwitchAccepted, Accepted, SwitchDiagnostics
  <2> QED BY <1>6, <2>1, SwitchWhole
<1> QED BY <1>1, <1>2, <1>3, <1>4, <1>5, <1>6, SwitchParts DEF SwitchAccepted, Accepted

\* And the switches have no other cases.
LEMMA SwitchReached ==
    \A c \in DOMAIN SwitchCases : \A m \in SwitchCases[c] :
        \E a \in SwitchAccepted : a.cluster = c /\ a.command = m
<1> SUFFICES ASSUME NEW c \in DOMAIN SwitchCases, NEW m \in SwitchCases[c]
             PROVE  \E a \in SwitchAccepted : a.cluster = c /\ a.command = m
  OBVIOUS
<1>1. \A e \in 0..2 : LET a == [endpoint |-> e, cluster |-> c, command |-> m]
                      IN  a.cluster = c /\ a.command = m
  OBVIOUS
<1>2. CASE c \in DOMAIN SwitchWindow
  <2>1. m \in SwitchWindow[c]
    BY <1>2, SwitchWhole
  <2>2. \E e \in 0..2 : [endpoint |-> e, cluster |-> c, command |-> m] \in SwitchAccepted
    BY <1>2, <2>1 DEF SwitchAccepted, Accepted, SwitchWindow
  <2> QED BY <1>1, <2>2
<1>3. CASE c \in DOMAIN SwitchCommissioning
  <2>1. m \in SwitchCommissioning[c]
    BY <1>3, SwitchWhole
  <2>2. \E e \in 0..2 : [endpoint |-> e, cluster |-> c, command |-> m] \in SwitchAccepted
    BY <1>3, <2>1 DEF SwitchAccepted, Accepted, SwitchCommissioning
  <2> QED BY <1>1, <2>2
<1>4. CASE c \in DOMAIN SwitchEndpoints
  <2>1. m \in SwitchEndpoints[c]
    BY <1>4, SwitchWhole
  <2>2. \E e \in 0..2 : [endpoint |-> e, cluster |-> c, command |-> m] \in SwitchAccepted
    BY <1>4, <2>1 DEF SwitchAccepted, Accepted, SwitchEndpoints
  <2> QED BY <1>1, <2>2
<1>5. CASE c \in DOMAIN SwitchNetwork
  <2>1. m \in SwitchNetwork[c]
    BY <1>5, SwitchWhole
  <2>2. \E e \in 0..2 : [endpoint |-> e, cluster |-> c, command |-> m] \in SwitchAccepted
    BY <1>5, <2>1 DEF SwitchAccepted, Accepted, SwitchNetwork
  <2> QED BY <1>1, <2>2
<1>6. CASE c \in DOMAIN SwitchCredentials
  <2>1. m \in SwitchCredentials[c]
    BY <1>6, SwitchWhole
  <2>2. \E e \in 0..2 : [endpoint |-> e, cluster |-> c, command |-> m] \in SwitchAccepted
    BY <1>6, <2>1 DEF SwitchAccepted, Accepted, SwitchCredentials
  <2> QED BY <1>1, <2>2
<1>7. CASE c \in DOMAIN SwitchDiagnostics
  <2>1. m \in SwitchDiagnostics[c]
    BY <1>7, SwitchWhole
  <2>2. \E e \in 0..2 : [endpoint |-> e, cluster |-> c, command |-> m] \in SwitchAccepted
    BY <1>7, <2>1 DEF SwitchAccepted, Accepted, SwitchDiagnostics
  <2> QED BY <1>1, <2>2
<1> QED BY <1>2, <1>3, <1>4, <1>5, <1>6, <1>7, SwitchWhole
----------------------------------------------------------------------------
LEMMA TemplateParts ==
    /\ DOMAIN TemplateCommissioning = {"AdministratorCommissioning", "GeneralCommissioning",
                                       "GeneralDiagnostics"}
    /\ DOMAIN TemplateKeys = {"GroupKeyManagement", "Identify"}
    /\ DOMAIN TemplateNetwork = {"NetworkCommissioning", "OtaSoftwareUpdateRequestor"}
    /\ DOMAIN TemplateCredentials = {"OperationalCredentials"}
BY DEF TemplateCommissioning, TemplateKeys, TemplateNetwork, TemplateCredentials

LEMMA TemplateWhole ==
    /\ DOMAIN TemplateCases = DOMAIN TemplateCommissioning \cup DOMAIN TemplateKeys
                              \cup DOMAIN TemplateNetwork \cup DOMAIN TemplateCredentials
    /\ \A c \in DOMAIN TemplateCommissioning : TemplateCases[c] = TemplateCommissioning[c]
    /\ \A c \in DOMAIN TemplateKeys : TemplateCases[c] = TemplateKeys[c]
    /\ \A c \in DOMAIN TemplateNetwork : TemplateCases[c] = TemplateNetwork[c]
    /\ \A c \in DOMAIN TemplateCredentials : TemplateCases[c] = TemplateCredentials[c]
<1> DEFINE a == Besides(TemplateCommissioning, TemplateKeys)
           b == Besides(TemplateNetwork, TemplateCredentials)
<1>1. /\ DOMAIN a = DOMAIN TemplateCommissioning \cup DOMAIN TemplateKeys
      /\ \A x \in DOMAIN TemplateCommissioning : a[x] = TemplateCommissioning[x]
      /\ \A x \in DOMAIN TemplateKeys : a[x] = TemplateKeys[x]
  <2>1. DOMAIN TemplateCommissioning \cap DOMAIN TemplateKeys = {}
    BY TemplateParts
  <2> QED BY <2>1, BesidesCases
<1>2. /\ DOMAIN b = DOMAIN TemplateNetwork \cup DOMAIN TemplateCredentials
      /\ \A x \in DOMAIN TemplateNetwork : b[x] = TemplateNetwork[x]
      /\ \A x \in DOMAIN TemplateCredentials : b[x] = TemplateCredentials[x]
  <2>1. DOMAIN TemplateNetwork \cap DOMAIN TemplateCredentials = {}
    BY TemplateParts
  <2> QED BY <2>1, BesidesCases
<1>3. TemplateCases = Besides(a, b)
  BY DEF TemplateCases
<1> HIDE DEF a, b
<1>4. /\ DOMAIN Besides(a, b) = DOMAIN a \cup DOMAIN b
      /\ \A x \in DOMAIN a : Besides(a, b)[x] = a[x]
      /\ \A x \in DOMAIN b : Besides(a, b)[x] = b[x]
  <2>1. DOMAIN a \cap DOMAIN b = {}
    BY <1>1, <1>2, TemplateParts
  <2> QED BY <2>1, BesidesCases
<1> QED BY <1>1, <1>2, <1>3, <1>4

LEMMA TemplateServed ==
    \A a \in TemplateAccepted : /\ a.cluster \in DOMAIN TemplateCases
                                /\ a.command \in TemplateCases[a.cluster]
<1> SUFFICES ASSUME NEW a \in TemplateAccepted
             PROVE  a.cluster \in DOMAIN TemplateCases /\ a.command \in TemplateCases[a.cluster]
  OBVIOUS
<1>1. CASE a.cluster \in DOMAIN TemplateCommissioning
  <2>1. a.command \in TemplateCommissioning[a.cluster]
    BY <1>1 DEF TemplateAccepted, Accepted, TemplateCommissioning
  <2> QED BY <1>1, <2>1, TemplateWhole
<1>2. CASE a.cluster \in DOMAIN TemplateKeys
  <2>1. a.command \in TemplateKeys[a.cluster]
    BY <1>2 DEF TemplateAccepted, Accepted, TemplateKeys
  <2> QED BY <1>2, <2>1, TemplateWhole
<1>3. CASE a.cluster \in DOMAIN TemplateNetwork
  <2>1. a.command \in TemplateNetwork[a.cluster]
    BY <1>3 DEF TemplateAccepted, Accepted, TemplateNetwork
  <2> QED BY <1>3, <2>1, TemplateWhole
<1>4. CASE a.cluster \in DOMAIN TemplateCredentials
  <2>1. a.command \in TemplateCredentials[a.cluster]
    BY <1>4 DEF TemplateAccepted, Accepted, TemplateCredentials
  <2> QED BY <1>4, <2>1, TemplateWhole
<1> QED BY <1>1, <1>2, <1>3, <1>4, TemplateParts DEF TemplateAccepted, Accepted

LEMMA TemplateReached ==
    \A c \in DOMAIN TemplateCases : \A m \in TemplateCases[c] :
        \E a \in TemplateAccepted : a.cluster = c /\ a.command = m
<1> SUFFICES ASSUME NEW c \in DOMAIN TemplateCases, NEW m \in TemplateCases[c]
             PROVE  \E a \in TemplateAccepted : a.cluster = c /\ a.command = m
  OBVIOUS
<1>1. \A e \in 0..2 : LET a == [endpoint |-> e, cluster |-> c, command |-> m]
                      IN  a.cluster = c /\ a.command = m
  OBVIOUS
<1>2. CASE c \in DOMAIN TemplateCommissioning
  <2>1. m \in TemplateCommissioning[c]
    BY <1>2, TemplateWhole
  <2>2. \E e \in 0..2 : [endpoint |-> e, cluster |-> c, command |-> m] \in TemplateAccepted
    BY <1>2, <2>1 DEF TemplateAccepted, Accepted, TemplateCommissioning
  <2> QED BY <1>1, <2>2
<1>3. CASE c \in DOMAIN TemplateKeys
  <2>1. m \in TemplateKeys[c]
    BY <1>3, TemplateWhole
  <2>2. \E e \in 0..2 : [endpoint |-> e, cluster |-> c, command |-> m] \in TemplateAccepted
    BY <1>3, <2>1 DEF TemplateAccepted, Accepted, TemplateKeys
  <2> QED BY <1>1, <2>2
<1>4. CASE c \in DOMAIN TemplateNetwork
  <2>1. m \in TemplateNetwork[c]
    BY <1>4, TemplateWhole
  <2>2. \E e \in 0..2 : [endpoint |-> e, cluster |-> c, command |-> m] \in TemplateAccepted
    BY <1>4, <2>1 DEF TemplateAccepted, Accepted, TemplateNetwork
  <2> QED BY <1>1, <2>2
<1>5. CASE c \in DOMAIN TemplateCredentials
  <2>1. m \in TemplateCredentials[c]
    BY <1>5, TemplateWhole
  <2>2. \E e \in 0..2 : [endpoint |-> e, cluster |-> c, command |-> m] \in TemplateAccepted
    BY <1>5, <2>1 DEF TemplateAccepted, Accepted, TemplateCredentials
  <2> QED BY <1>1, <2>2
<1> QED BY <1>2, <1>3, <1>4, <1>5, TemplateWhole
----------------------------------------------------------------------------
(***************************************************************************)
(* The way of a command.                                                   *)
(***************************************************************************)
LEMMA TablesAgree ==
    /\ \A a \in AcceptedCommands : a.cluster \in DOMAIN Cases /\ a.command \in Cases[a.cluster]
    /\ NoDeadCase
<1>1. CASE program = "light_switch"
  BY <1>1, SwitchServed, SwitchReached DEF AcceptedCommands, Cases, NoDeadCase
<1>2. CASE program # "light_switch"
  BY <1>2, TemplateServed, TemplateReached DEF AcceptedCommands, Cases, NoDeadCase
<1> QED BY <1>1, <1>2

\* A command that has passed the engine is accepted, and is not answered before
\* it is done with; its only answers are then its own.
Dispatched ==
    /\ TypeOK
    /\ step # "answered" => answers = <<>>
    /\ step \in {"dispatcher", "cluster", "callback"} => request \in AcceptedCommands
    /\ step \in {"engine", "dispatcher", "cluster"} => ~called
    /\ step = "answered" => Len(answers) = 1
    /\ step = "answered" /\ request \in AcceptedCommands
          => answers[1] \in {"InvalidCommand", "response"}
    /\ CalledWithGoodData

LEMMA DispatchedInit == Init => Dispatched
<1> SUFFICES ASSUME Init PROVE Dispatched
  OBVIOUS
<1>1. program \in {"light_switch", "template"}
  BY ProgramAssumption DEF Init
<1>2. answers \in Seq(Status \cup {"response"})
  BY DEF Init
<1> QED BY <1>1, <1>2 DEF Init, Dispatched, TypeOK, CalledWithGoodData

\* The first answer.
LEMMA Answers ==
    ASSUME NEW x \in Status \cup {"response"}, answers = <<>>, answers' = Append(answers, x)
    PROVE  answers' \in Seq(Status \cup {"response"}) /\ Len(answers') = 1 /\ answers'[1] = x
OBVIOUS

LEMMA DispatchedStep == Dispatched /\ [Next]_vars => Dispatched'
<1> SUFFICES ASSUME Dispatched, [Next]_vars PROVE Dispatched'
  OBVIOUS
<1>0. AcceptedCommands' = AcceptedCommands
  BY DEF Next, vars, EnginePasses, DispatchSingleClusterCommand, DispatchServerCommand,
         ServeCommand, Handled, NotHandled, AcceptedCommands
<1> USE DEF AddStatus
<1>1. CASE EnginePasses
  <2>1. CASE request \in AcceptedCommands
    BY <1>0, <1>1, <2>1 DEF EnginePasses, Dispatched, TypeOK, CalledWithGoodData
  <2>2. CASE request \notin AcceptedCommands
    <3>1. /\ answers' \in Seq(Status \cup {"response"}) /\ Len(answers') = 1
      BY <1>1, <2>2, Answers DEF EnginePasses, Dispatched, Status
    <3> QED BY <1>0, <1>1, <2>2, <3>1 DEF EnginePasses, Dispatched, TypeOK, CalledWithGoodData
  <2> QED BY <2>1, <2>2
<1>2. CASE DispatchSingleClusterCommand
  <2>1. request.cluster \in DOMAIN Cases
    BY <1>2, TablesAgree DEF DispatchSingleClusterCommand, Dispatched
  <2> QED BY <1>0, <1>2, <2>1
          DEF DispatchSingleClusterCommand, Dispatched, TypeOK, CalledWithGoodData
<1>3. CASE ServeCommand
  <2>1. request.command \in Cases[request.cluster]
    BY <1>3, TablesAgree DEF ServeCommand, Dispatched
  <2>2. CASE decodes
    BY <1>0, <1>3, <2>1, <2>2 DEF ServeCommand, Dispatched, TypeOK, CalledWithGoodData
  <2>3. CASE ~decodes
    <3>1. /\ answers' \in Seq(Status \cup {"response"}) /\ Len(answers') = 1
          /\ answers'[1] = "InvalidCommand"
      BY <1>3, <2>1, <2>3, Answers DEF ServeCommand, Dispatched, Status
    <3> QED BY <1>0, <1>3, <2>1, <2>3, <3>1
            DEF ServeCommand, Dispatched, TypeOK, CalledWithGoodData
  <2> QED BY <2>2, <2>3
<1>4. CASE Handled \/ NotHandled
  <2>1. /\ answers' \in Seq(Status \cup {"response"}) /\ Len(answers') = 1
        /\ answers'[1] \in {"InvalidCommand", "response"}
    BY <1>4, Answers DEF Handled, NotHandled, Dispatched, Status
  <2> QED BY <1>0, <1>4, <2>1 DEF Handled, NotHandled, Dispatched, TypeOK, CalledWithGoodData
<1>5. CASE UNCHANGED vars
  BY <1>0, <1>5 DEF vars, Dispatched, TypeOK, CalledWithGoodData
<1> QED BY <1>1, <1>2, <1>3, <1>4, <1>5 DEF Next, DispatchServerCommand

\* A command has its place on the way to one answer, whatever program serves it.
THEOREM DispatchCorrect == Spec => []Dispatched
BY DispatchedInit, DispatchedStep, PTL DEF Spec

\* The state of a command is well typed all the way.
THEOREM TypeCorrect == Spec => []TypeOK
<1>1. Dispatched => TypeOK
  BY DEF Dispatched
<1> QED BY <1>1, DispatchCorrect, PTL

\* What a list of accepted commands names, the dispatcher never turns away as
\* unknown: the two generated files agree for every endpoint, cluster and command.
THEOREM Served == Spec => []AdvertisedIsServed
<1>1. Dispatched => AdvertisedIsServed
  BY DEF Dispatched, AdvertisedIsServed
<1> QED BY <1>1, DispatchCorrect, PTL

\* And the dispatcher has no case that the lists never let anything reach.
THEOREM AllReached == Spec => []NoDeadCase
<1>1. NoDeadCase
  BY TablesAgree
<1> QED BY <1>1, PTL

\* Every command gets one answer, whether it is turned away, cannot be decoded,
\* or its call-back leaves the answer to the dispatcher.
THEOREM Answered == Spec => []AnsweredOnce
<1>1. Dispatched => AnsweredOnce
  BY DEF Dispatched, AnsweredOnce
<1> QED BY <1>1, DispatchCorrect, PTL

\* A call-back runs only for an accepted command whose fields have been decoded.
THEOREM GoodData == Spec => []CalledWithGoodData
<1>1. Dispatched => CalledWithGoodData
  BY DEF Dispatched
<1> QED BY <1>1, DispatchCorrect, PTL
============================================================================
