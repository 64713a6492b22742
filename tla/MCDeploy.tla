------------------------------ MODULE MCDeploy ------------------------------
(***************************************************************************)
(* A few requests for TLC.  A request is a record of what it asks for; its *)
(* units are named after the language and, when planned, after the pod.    *)
(***************************************************************************)
EXTENDS Deploy, TLC

Deployment(id, server, group, mode, legacy, planned) ==
    [id |-> id, kind |-> "deploy", server |-> server, group |-> group,
     mode |-> mode, legacy |-> legacy, planned |-> planned]

Deletion(id, server, group) ==
    [id |-> id, kind |-> "delete", server |-> server, group |-> group,
     mode |-> "off", legacy |-> NoUnits, planned |-> NoUnits]

KindOfReq == [r \in Req |-> r.kind]
GroupOfReq == [r \in Req |-> r.group]
ServerOfReq == [r \in Req |-> r.server]
ModeOfReq == [r \in Req |-> r.mode]
LegacyOfReq == [r \in Req |-> r.legacy]
PlannedOfReq == [r \in Req |-> r.planned]

TwoUnits == "app-node" :> "v1" @@ "app-py" :> "v1"
OldUnit == "app-py" :> "v1"
OneUnit == "app-py" :> "v2"
OnePod == "app-node-p0" :> "v2"
TooLarge == "app-node-p0" :> "big"
OtherUnit == "job-py" :> "v1"

\* Planned upgrades of one server and a deletion: the plan is too large and
\* falls back, or it is required and replaces the units.
PlannedAndDelete ==
    {Deployment(1, "api-1", "app", "auto", TwoUnits, TooLarge),
     Deployment(2, "api-1", "app", "required", OneUnit, OnePod),
     Deletion(3, "api-1", "app")}

\* The old and the new API server of a rollout, which share no lock, and a deletion.
Rollout ==
    {Deployment(4, "api-1", "app", "auto", OldUnit, OnePod),
     Deployment(5, "api-2", "app", "off", OneUnit, NoUnits),
     Deletion(3, "api-1", "app")}

\* Deployments of two ids at one server.
TwoIds ==
    {Deployment(4, "api-1", "app", "auto", OldUnit, OnePod),
     Deployment(2, "api-1", "app", "required", OneUnit, OnePod),
     Deployment(7, "api-1", "job", "off", OtherUnit, NoUnits)}

\* A mode there is not.
UnknownMode == {Deployment(6, "api-1", "app", "on", OneUnit, OnePod)}

Workloads == {PlannedAndDelete, Rollout, TwoIds, UnknownMode}
AllRequests == UNION Workloads

\* A deletion while the deployment it is for is being replaced.
DeployAndDelete ==
    {Deployment(1, "api-1", "app", "off", OneUnit, NoUnits),
     Deletion(2, "api-1", "app")}
OnlyDeployAndDelete == {DeployAndDelete}
=============================================================================
