-------------------------- MODULE CommandDispatch --------------------------
(***************************************************************************)
(* How a command that a controller sends reaches a cluster of the light    *)
(* switch or of the touch button template: the generated dispatcher        *)
(* (zap-generated / IMClusterCommandHandler.cpp) and the generated lists of *)
(* accepted commands (endpoint_config.h).                                  *)
(*                                                                         *)
(* The two files say the same thing twice.  The interaction model engine,  *)
(* which is external, lets a command pass if the lists name it; the        *)
(* dispatcher then has a switch on the cluster and one on the command.     *)
(***************************************************************************)
EXTENDS Integers, Sequences

CONSTANT Programs   \* the programs to look at

ASSUME ProgramAssumption == Programs \subseteq {"light_switch", "template"}

VARIABLES
    program,   \* the program that runs
    request,   \* the command being served
    decodes,   \* its fields can be decoded
    step,      \* who has it: "engine", "dispatcher", "cluster", "callback"; "answered"
    called,    \* the call-back of the cluster has been run
    answers    \* the statuses and responses given to it, in order

vars == <<program, request, decodes, step, called, answers>>
----------------------------------------------------------------------------
(* The cases of the switches, by cluster: one namespace of the file each. *)
SwitchWindow ==
    [AdministratorCommissioning |->
        {"OpenCommissioningWindow", "OpenBasicCommissioningWindow", "RevokeCommissioning"},
     DiagnosticLogs |-> {"RetrieveLogsRequest"},
     EthernetNetworkDiagnostics |-> {"ResetCounts"}]

SwitchCommissioning ==
    [GeneralCommissioning |->
        {"ArmFailSafe", "SetRegulatoryConfig", "CommissioningComplete"},
     GeneralDiagnostics |-> {"TestEventTrigger"},
     GroupKeyManagement |->
        {"KeySetWrite", "KeySetRead", "KeySetRemove", "KeySetReadAllIndices"}]

SwitchEndpoints ==
    [Groups |-> {"AddGroup", "ViewGroup", "GetGroupMembership", "RemoveGroup",
                 "RemoveAllGroups", "AddGroupIfIdentifying"},
     Identify |-> {"Identify", "TriggerEffect"}]

SwitchNetwork ==
    [NetworkCommissioning |->
        {"ScanNetworks", "AddOrUpdateWiFiNetwork", "AddOrUpdateThreadNetwork",
         "RemoveNetwork", "ConnectNetwork", "ReorderNetwork"},
     OtaSoftwareUpdateRequestor |-> {"AnnounceOTAProvider"}]

\* Mutation: a generator that leaves out the command with the highest number.
SwitchCredentialsShort ==
    [OperationalCredentials |->
        {"AttestationRequest", "CertificateChainRequest", "CSRRequest", "AddNOC",
         "UpdateNOC", "UpdateFabricLabel", "RemoveFabric"}]

SwitchCredentials ==
    [OperationalCredentials |->
        {"AttestationRequest", "CertificateChainRequest", "CSRRequest", "AddNOC",
         "UpdateNOC", "UpdateFabricLabel", "RemoveFabric", "AddTrustedRootCertificate"}]

SwitchDiagnostics ==
    [SoftwareDiagnostics |-> {"ResetWatermarks"},
     ThreadNetworkDiagnostics |-> {"ResetCounts"},
     WiFiNetworkDiagnostics |-> {"ResetCounts"}]

TemplateCommissioning ==
    [AdministratorCommissioning |->
        {"OpenCommissioningWindow", "OpenBasicCommissioningWindow", "RevokeCommissioning"},
     GeneralCommissioning |->
        {"ArmFailSafe", "SetRegulatoryConfig", "CommissioningComplete"},
     GeneralDiagnostics |-> {"TestEventTrigger"}]

TemplateKeys ==
    [GroupKeyManagement |->
        {"KeySetWrite", "KeySetRead", "KeySetRemove", "KeySetReadAllIndices"},
     Identify |-> {"Identify", "TriggerEffect"}]

TemplateNetwork ==
    [NetworkCommissioning |->
        {"ScanNetworks", "AddOrUpdateWiFiNetwork", "AddOrUpdateThreadNetwork",
         "RemoveNetwork", "ConnectNetwork", "ReorderNetwork"},
     OtaSoftwareUpdateRequestor |-> {"AnnounceOTAProvider"}]

TemplateCredentials ==
    [OperationalCredentials |->
        {"AttestationRequest", "CertificateChainRequest", "CSRRequest", "AddNOC",
         "UpdateNOC", "UpdateFabricLabel", "RemoveFabric", "AddTrustedRootCertificate"}]

\* The cases of f and of g.  (As @@ of TLC, which the provers have no definition of.)
Besides(f, g) ==
    [c \in DOMAIN f \cup DOMAIN g |-> IF c \in DOMAIN f THEN f[c] ELSE g[c]]

\* The switch on the cluster, and for each cluster the cases of its own switch.
SwitchCases ==
    Besides(Besides(Besides(SwitchWindow, SwitchCommissioning),
                    Besides(SwitchEndpoints, SwitchNetwork)),
            Besides(SwitchCredentials, SwitchDiagnostics))
TemplateCases ==
    Besides(Besides(TemplateCommissioning, TemplateKeys),
            Besides(TemplateNetwork, TemplateCredentials))

Cases == IF program = "light_switch" THEN SwitchCases ELSE TemplateCases
----------------------------------------------------------------------------
(* GENERATED_COMMANDS: the AcceptedCommandList of every cluster that has one. *)
Accepted(endpoint, cluster, commands) ==
    { [endpoint |-> endpoint, cluster |-> cluster, command |-> c] : c \in commands }

SwitchAccepted ==
    Accepted(0, "OtaSoftwareUpdateRequestor", {"AnnounceOTAProvider"})
    \cup Accepted(0, "GeneralCommissioning",
            {"ArmFailSafe", "SetRegulatoryConfig", "CommissioningComplete"})
    \cup Accepted(0, "NetworkCommissioning",
            {"ScanNetworks", "AddOrUpdateWiFiNetwork", "AddOrUpdateThreadNetwork",
             "RemoveNetwork", "ConnectNetwork", "ReorderNetwork"})
    \cup Accepted(0, "DiagnosticLogs", {"RetrieveLogsRequest"})
    \cup Accepted(0, "GeneralDiagnostics", {"TestEventTrigger"})
    \cup Accepted(0, "SoftwareDiagnostics", {"ResetWatermarks"})
    \cup Accepted(0, "ThreadNetworkDiagnostics", {"ResetCounts"})
    \cup Accepted(0, "WiFiNetworkDiagnostics", {"ResetCounts"})
    \cup Accepted(0, "EthernetNetworkDiagnostics", {"ResetCounts"})
    \cup Accepted(0, "AdministratorCommissioning",
            {"OpenCommissioningWindow", "OpenBasicCommissioningWindow",
             "RevokeCommissioning"})
    \cup Accepted(0, "OperationalCredentials",
            {"AttestationRequest", "CertificateChainRequest", "CSRRequest", "AddNOC",
             "UpdateNOC", "UpdateFabricLabel", "RemoveFabric",
             "AddTrustedRootCertificate"})
    \cup Accepted(0, "GroupKeyManagement",
            {"KeySetWrite", "KeySetRead", "KeySetRemove", "KeySetReadAllIndices"})
    \cup Accepted(1, "Identify", {"Identify", "TriggerEffect"})
    \cup Accepted(1, "Groups",
            {"AddGroup", "ViewGroup", "GetGroupMembership", "RemoveGroup",
             "RemoveAllGroups", "AddGroupIfIdentifying"})
    \cup Accepted(2, "Identify", {"Identify", "TriggerEffect"})

TemplateAccepted ==
    Accepted(0, "OtaSoftwareUpdateRequestor", {"AnnounceOTAProvider"})
    \cup Accepted(0, "GeneralCommissioning",
            {"ArmFailSafe", "SetRegulatoryConfig", "CommissioningComplete"})
    \cup Accepted(0, "NetworkCommissioning",
            {"ScanNetworks", "AddOrUpdateWiFiNetwork", "AddOrUpdateThreadNetwork",
             "RemoveNetwork", "ConnectNetwork", "ReorderNetwork"})
    \cup Accepted(0, "GeneralDiagnostics", {"TestEventTrigger"})
    \cup Accepted(0, "AdministratorCommissioning",
            {"OpenCommissioningWindow", "OpenBasicCommissioningWindow",
             "RevokeCommissioning"})
    \cup Accepted(0, "OperationalCredentials",
            {"AttestationRequest", "CertificateChainRequest", "CSRRequest", "AddNOC",
             "UpdateNOC", "UpdateFabricLabel", "RemoveFabric",
             "AddTrustedRootCertificate"})
    \cup Accepted(0, "GroupKeyManagement",
            {"KeySetWrite", "KeySetRead", "KeySetRemove", "KeySetReadAllIndices"})
    \cup Accepted(1, "Identify", {"Identify", "TriggerEffect"})

\* Mutation: the lists of the endpoints other than the root are left out.
AcceptedByRoot ==
    { a \in IF program = "light_switch" THEN SwitchAccepted ELSE TemplateAccepted :
          a.endpoint = 0 }

AcceptedCommands == IF program = "light_switch" THEN SwitchAccepted ELSE TemplateAccepted
----------------------------------------------------------------------------
Status == {"UnsupportedCommand", "UnsupportedCluster", "InvalidCommand"}

\* What a controller may send: any command of either program, and one that no
\* server cluster of either has, to any endpoint.
Path == [endpoint : 0..2, cluster : {"OnOff"} \cup { a.cluster : a \in SwitchAccepted },
         command : {"Toggle"} \cup { a.command : a \in SwitchAccepted }]

Init ==
    /\ program \in Programs
    /\ request \in Path /\ decodes \in BOOLEAN
    /\ step = "engine" /\ called = FALSE /\ answers = <<>>

\* CommandHandler::AddStatus; a response is added by the call-back.
AddStatus(status) == answers' = Append(answers, status)

\* The engine (external) asks the lists of accepted commands.
EnginePasses ==
    /\ step = "engine"
    /\ IF request \in AcceptedCommands
       THEN step' = "dispatcher" /\ UNCHANGED answers
       ELSE step' = "answered" /\ AddStatus("UnsupportedCommand")
    /\ UNCHANGED <<program, request, decodes, called>>

DispatchSingleClusterCommand ==
    /\ step = "dispatcher"
    /\ IF request.cluster \in DOMAIN Cases
       THEN step' = "cluster" /\ UNCHANGED answers
       ELSE step' = "answered" /\ AddStatus("UnsupportedCluster")
    /\ UNCHANGED <<program, request, decodes, called>>

\* Mutation: the result of Decode is not looked at.
ServeUndecoded ==
    /\ step = "cluster"
    /\ IF request.command \notin Cases[request.cluster]
       THEN step' = "answered" /\ AddStatus("UnsupportedCommand") /\ UNCHANGED called
       ELSE step' = "callback" /\ called' = TRUE /\ UNCHANGED answers
    /\ UNCHANGED <<program, request, decodes>>

\* Mutation: the case does not end with a break, and the default follows.
ServeFallingThrough ==
    /\ step = "cluster"
    /\ IF request.command \in Cases[request.cluster] /\ decodes
       THEN step' = "callback" /\ called' = TRUE /\ AddStatus("UnsupportedCommand")
       ELSE step' = "answered" /\ AddStatus("InvalidCommand") /\ UNCHANGED called
    /\ UNCHANGED <<program, request, decodes>>

\* DispatchServerCommand of every cluster: the switch, whose default is the end
\* of it, and whose cases decode the fields and run the call-back; ...
ServeCommand ==
    /\ step = "cluster"
    /\ IF request.command \notin Cases[request.cluster]
       THEN step' = "answered" /\ AddStatus("UnsupportedCommand") /\ UNCHANGED called
       ELSE IF decodes
       THEN step' = "callback" /\ called' = TRUE /\ UNCHANGED answers
       ELSE step' = "answered" /\ AddStatus("InvalidCommand") /\ UNCHANGED called
    /\ UNCHANGED <<program, request, decodes>>

\* ... the call-back (external) answers, at once or later, and returns true; ...
Handled ==
    /\ step = "callback"
    /\ answers' = Append(answers, "response")
    /\ step' = "answered"
    /\ UNCHANGED <<program, request, decodes, called>>

\* Mutation: a status the dispatcher does not have.
NotHandledFailure ==
    /\ step = "callback"
    /\ AddStatus("Failure")
    /\ step' = "answered"
    /\ UNCHANGED <<program, request, decodes, called>>

\* ... or it returns false and leaves the answer to the dispatcher.
NotHandled ==
    /\ step = "callback"
    /\ AddStatus("InvalidCommand")
    /\ step' = "answered"
    /\ UNCHANGED <<program, request, decodes, called>>

DispatchServerCommand == ServeCommand \/ Handled \/ NotHandled

Next == EnginePasses \/ DispatchSingleClusterCommand \/ DispatchServerCommand

Spec == Init /\ [][Next]_vars
----------------------------------------------------------------------------
TypeOK ==
    /\ program \in {"light_switch", "template"}
    /\ request \in Path /\ decodes \in BOOLEAN
    /\ step \in {"engine", "dispatcher", "cluster", "callback", "answered"}
    /\ called \in BOOLEAN
    /\ answers \in Seq(Status \cup {"response"})

\* A command that a list of accepted commands names is served: the dispatcher,
\* generated into another file, never answers that it does not know it.
AdvertisedIsServed ==
    step = "answered" /\ request \in AcceptedCommands
        => \A k \in DOMAIN answers :
               answers[k] \notin {"UnsupportedCommand", "UnsupportedCluster"}

\* The dispatcher has no case that the lists keep from ever being reached.
NoDeadCase ==
    \A c \in DOMAIN Cases : \A m \in Cases[c] :
        \E a \in AcceptedCommands : a.cluster = c /\ a.command = m

\* Whatever fails on the way, a command is answered exactly once.
AnsweredOnce == step = "answered" => Len(answers) = 1

\* No cluster ever sees fields that could not be decoded, nor a command that
\* its endpoint does not accept.
CalledWithGoodData == called => decodes /\ request \in AcceptedCommands
============================================================================
