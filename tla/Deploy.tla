------------------------------- MODULE Deploy -------------------------------
(***************************************************************************)
(* Deploying and deleting a group of functions through the API server      *)
(* (src/internal/api/deploy_plan.go, deploy.go).                           *)
(*                                                                         *)
(* A deploy request holds the lock of its deployment id, plans its units,  *)
(* and brings the cluster to them with one Kubernetes call after another:  *)
(* all source ConfigMaps, all Functions, then the prune of what the group  *)
(* no longer has.  A delete request takes no lock.  Every call may fail,   *)
(* with or without its effect, and ends the request there; it may also     *)
(* return late or never.  A server may crash between two calls.  The       *)
(* operator adds and removes the endpoints ConfigMap of each Function      *)
(* meanwhile.                                                              *)
(***************************************************************************)
EXTENDS Naturals, FiniteSets

CONSTANTS
    Req,            \* requests: "deploy" and "delete"
    Arrivals,       \* the sets of requests that may come in one behaviour
    Group,          \* deployment ids
    Unit,           \* unit names: the Function of a unit and its ConfigMaps
    Content,        \* what a source bundle may hold
    Server,         \* API server processes
    ReqKind,        \* ReqKind[r]: "deploy" or "delete"
    ReqGroup,       \* the deployment id it is for
    ReqServer,      \* the server that handles it
    Mode,           \* the planning mode a deploy asks for
    Legacy,         \* the units built from the package; NoUnits if that fails
    Planned,        \* the units after the planner's overlay
    Oversized,      \* contents beyond MaxConfigMapBytes
    PlannerEnabled, \* servers whose planner is configured
    NoUnits,        \* no units: the package or the plan is unusable
    None,           \* no group, no content, no holder
    MaxFaults,      \* bound: Kubernetes calls that fail
    MaxCrashes,     \* bound: API server crashes
    MaxHeld         \* bound: requests held at a time

VARIABLES
    pc,          \* where each request stands
    units,       \* the desired units of each deploy: unit name -> content
    todo,        \* objects the loop that is running has still to visit
    held,        \* requests whose planner or Kubernetes call does not return
    lock,        \* deployLocks of each server: who holds the mutex of a group
    cluster,     \* the objects of the namespace
    undisturbed, \* ghost: requests without a rival since they took their group up
    raced,       \* ghost: groups rivals worked on at once, not redone since
    faults,      \* failed calls so far
    crashes      \* crashes so far

vars == <<pc, units, todo, held, lock, cluster, undisturbed, raced, faults, crashes>>
ghosts == <<undisturbed, raced>>
counters == <<faults, crashes>>

\* The objects a unit u can have: <<"function", u>> is the Function, whose
\* content is the source-hash annotation; <<"source", u>> is the ConfigMap
\* "u-code"; <<"endpoints", u>> is the operator's ConfigMap.
Object == {"function", "source", "endpoints"} \X Unit

\* An object as the selectors see it: the deploy-group label and its content.
Absent == [group |-> None, content |-> None]
Entry == [group : Group \cup {None}, content : Content \cup {None}]

\* Partial functions from units to contents.
UnitMaps == UNION {[D -> Content] : D \in (SUBSET Unit) \ {{}}}

ASSUME RequestsAssumption ==
    /\ ReqKind \in [Req -> {"deploy", "delete"}]
    /\ ReqGroup \in [Req -> Group]
    /\ ReqServer \in [Req -> Server]
    /\ Legacy \in [Req -> UnitMaps \cup {NoUnits}]
    /\ Planned \in [Req -> UnitMaps \cup {NoUnits}]
    /\ NoUnits \notin UnitMaps
    /\ None \notin Group /\ None \notin Content /\ None \notin Req
    /\ Arrivals \subseteq SUBSET Req

\* Units are named after the deployment id (deploy_plan.go:166, 318), so that
\* two groups share a name only when it is cut to 52 characters.
UnitsOf(f) == IF f = NoUnits THEN {} ELSE DOMAIN f
ASSUME NamesAssumption ==
    \A q, r \in Req :
        ReqGroup[q] # ReqGroup[r] =>
            (UnitsOf(Legacy[q]) \cup UnitsOf(Planned[q]))
              \cap (UnitsOf(Legacy[r]) \cup UnitsOf(Planned[r])) = {}

ASSUME BoundsAssumption == MaxFaults \in Nat /\ MaxCrashes \in Nat /\ MaxHeld \in Nat

\* Where a request that works on its group may stand, in order.
DeploySteps == {"planning", "sources", "functions",
                "list functions", "prune functions", "list sources", "prune sources"}
DeleteSteps == {"delete: list functions", "delete functions",
                "delete: list maps", "delete maps"}
Working == DeploySteps \cup DeleteSteps

\* "succeeded" 2xx; "failed" an error after some calls; "rejected" an error
\* before any; "lost" its server crashed; "absent" it never comes.
Finished == {"succeeded", "failed", "rejected", "lost", "absent"}

TypeOK ==
    /\ pc \in [Req -> {"new", "locking"} \cup Working \cup Finished]
    /\ units \in [Req -> UnitMaps \cup {NoUnits}]
    /\ todo \in [Req -> SUBSET Object]
    /\ held \subseteq Req
    /\ lock \in [Server -> [Group -> Req \cup {None}]]
    /\ cluster \in [Object -> Entry]
    /\ undisturbed \subseteq Req
    /\ raced \subseteq Group
    /\ faults \in 0 .. MaxFaults
    /\ crashes \in 0 .. MaxCrashes

Init ==
    /\ \E coming \in Arrivals :
          pc = [r \in Req |-> IF r \in coming THEN "new" ELSE "absent"]
    /\ units = [r \in Req |-> NoUnits]
    /\ todo = [r \in Req |-> {}]
    /\ held = {}
    /\ lock = [s \in Server |-> [g \in Group |-> None]]
    /\ cluster = [o \in Object |-> Absent]
    /\ undisturbed = {}
    /\ raced = {}
    /\ faults = 0
    /\ crashes = 0

-----------------------------------------------------------------------------
(* Taking a group up and putting it down.                                  *)

\* The other requests at work on the group of r that no lock keeps apart from
\* it: one of the two is a delete, or another server handles it.
Rivals(r) ==
    {q \in Req \ {r} :
        /\ ReqGroup[q] = ReqGroup[r]
        /\ pc[q] \in Working
        /\ "delete" \in {ReqKind[q], ReqKind[r]} \/ ReqServer[q] # ReqServer[r]}

\* r starts to work on its group (ghosts only).
TakeUp(r) ==
    /\ undisturbed' = {q \in undisturbed : ReqGroup[q] # ReqGroup[r]}
                        \cup (IF Rivals(r) = {} THEN {r} ELSE {})
    /\ raced' = IF Rivals(r) = {} THEN raced ELSE raced \cup {ReqGroup[r]}

\* lockDeployment: the mutex of the group, in the memory of the server.
LockableAlways(r) == TRUE  \* faulty: the mutex keeps nobody out
Lockable(r) == lock[ReqServer[r]][ReqGroup[r]] = None

Acquire(r) == lock' = [lock EXCEPT ![ReqServer[r]][ReqGroup[r]] = r]

ReleaseNothing(r) == UNCHANGED lock  \* faulty: an error path without unlock

\* The deferred unlock; a delete holds nothing.
Release(r) ==
    lock' = [lock EXCEPT ![ReqServer[r]][ReqGroup[r]] = IF @ = r THEN None ELSE @]

\* The handler returns.
Finish(r, outcome) ==
    /\ pc' = [pc EXCEPT ![r] = outcome]
    /\ todo' = [todo EXCEPT ![r] = {}]
    /\ Release(r)
    /\ raced' = IF outcome = "succeeded" /\ r \in undisturbed
                THEN raced \ {ReqGroup[r]} ELSE raced
    /\ UNCHANGED undisturbed

Fail(r) ==
    /\ faults < MaxFaults
    /\ faults' = faults + 1
    /\ Finish(r, "failed")

-----------------------------------------------------------------------------
(* deployFromSourceWithPlan up to the first call.                          *)

Receive(r) ==
    /\ pc[r] = "new"
    /\ ReqKind[r] = "deploy"
    /\ \/ /\ Mode[r] \in {"off", "auto", "required"}
          /\ pc' = [pc EXCEPT ![r] = "locking"]
          /\ UNCHANGED <<todo, lock, ghosts>>
       \/ /\ Mode[r] \notin {"off", "auto", "required"}
          /\ Finish(r, "rejected")
    /\ UNCHANGED <<units, cluster, counters>>

LockDeployment(r) ==
    /\ pc[r] = "locking"
    /\ Lockable(r)
    /\ Acquire(r)
    /\ pc' = [pc EXCEPT ![r] = "planning"]
    /\ TakeUp(r)
    /\ UNCHANGED <<units, todo, cluster, counters>>

ValidUnchecked(f) == f # NoUnits  \* faulty: the size is not looked at

\* validateDeploymentUnits.
Valid(f) == f # NoUnits /\ \A u \in DOMAIN f : f[u] \notin Oversized

\* The units to deploy, when the planner answers or does not: its own only if
\* they are valid; otherwise "auto" falls back to the legacy units.
Desired(r, answers) ==
    IF Legacy[r] = NoUnits THEN NoUnits
    ELSE IF Mode[r] = "off" THEN Legacy[r]
    ELSE IF answers /\ ReqServer[r] \in PlannerEnabled /\ Valid(Planned[r]) THEN Planned[r]
    ELSE IF Mode[r] = "required" THEN NoUnits
    ELSE Legacy[r]

\* buildLegacyUnits, the planner, its overlay and the validation work on files
\* of this request only, so they are one step.
Plan(r) ==
    /\ pc[r] = "planning"
    /\ \E answers \in BOOLEAN :
          LET desired == Desired(r, answers) IN
          \/ /\ Valid(desired)
             /\ units' = [units EXCEPT ![r] = desired]
             /\ todo' = [todo EXCEPT ![r] = {"source"} \X DOMAIN desired]
             /\ pc' = [pc EXCEPT ![r] = "sources"]
             /\ UNCHANGED <<lock, ghosts>>
          \/ /\ ~Valid(desired)
             /\ Finish(r, "rejected")
             /\ UNCHANGED units
    /\ UNCHANGED <<cluster, counters>>

\* What r is at may not return: the planner process, killed at its time limit,
\* has left its output open to a child of its own, which ExecRunner.Plan waits
\* for; or the Kubernetes API does not answer, which the client gives no time
\* limit.  If it returns after all, r goes on from where it stands.
Hold(r) ==
    /\ pc[r] \in Working
    /\ Cardinality(held) < MaxHeld
    /\ pc[r] = "planning" =>
          /\ Legacy[r] # NoUnits
          /\ Mode[r] # "off" /\ ReqServer[r] \in PlannerEnabled
    /\ held' = held \cup {r}
    /\ UNCHANGED <<pc, units, todo, lock, cluster, ghosts, counters>>

-----------------------------------------------------------------------------
(* Kubernetes calls.  A call that fails ends the request; its effect may    *)
(* have happened all the same (a timeout after the server applied it).      *)

PutLabels(o, entry) ==  \* faulty: labels are written, content is not
    cluster' = [cluster EXCEPT ![o] = [group |-> entry.group]]
Put(o, entry) == cluster' = [cluster EXCEPT ![o] = entry]
Remove(o) == cluster' = [cluster EXCEPT ![o] = Absent]

Listed(kinds, g) == {o \in kinds \X Unit : cluster[o].group = g}

\* o is done with: the loop goes on, or the next stage begins with its own list.
Advance(r, o, next, nextTodo) ==
    LET rest == todo[r] \ {o} IN
    /\ \/ /\ rest # {}
          /\ todo' = [todo EXCEPT ![r] = rest]
          /\ UNCHANGED pc
       \/ /\ rest = {}
          /\ todo' = [todo EXCEPT ![r] = nextTodo]
          /\ pc' = [pc EXCEPT ![r] = next]
    /\ UNCHANGED <<lock, ghosts, faults>>

\* The last loop of a handler: after it the request has succeeded.
AdvanceOrSucceed(r, o) ==
    \/ /\ todo[r] \ {o} # {}
       /\ todo' = [todo EXCEPT ![r] = @ \ {o}]
       /\ UNCHANGED <<pc, lock, ghosts, faults>>
    \/ /\ todo[r] \ {o} = {}
       /\ Finish(r, "succeeded")
       /\ UNCHANGED faults

\* The result of a List begins the loop over it, skipped if it is empty.
Loop(r, found, loop, next) ==
    /\ todo' = [todo EXCEPT ![r] = found]
    /\ pc' = [pc EXCEPT ![r] = IF found = {} THEN next ELSE loop]
    /\ UNCHANGED <<lock, ghosts>>

LoopOrSucceed(r, found, loop) ==
    \/ /\ found # {}
       /\ Loop(r, found, loop, loop)
    \/ /\ found = {}
       /\ Finish(r, "succeeded")

\* Any call that fails without effect: a Get, a List, a conflict, a refusal.
CallFails(r) ==
    /\ pc[r] \in Working \ {"planning"}
    /\ Fail(r)
    /\ UNCHANGED <<units, cluster, undisturbed, crashes>>

-----------------------------------------------------------------------------
(* applyDeploymentUnits.                                                   *)

UpsertSourceConfigMap(r) ==
    /\ pc[r] = "sources"
    /\ \E o \in todo[r] :
          /\ Put(o, [group |-> ReqGroup[r], content |-> units[r][o[2]]])
          /\ \/ Advance(r, o, "functions", {"function"} \X DOMAIN units[r])
             \/ Fail(r)
    /\ UNCHANGED <<units, crashes>>

\* Labels, spec and annotations are overwritten, whoever owned the Function.
UpsertFunction(r) ==
    /\ pc[r] = "functions"
    /\ \E o \in todo[r] :
          /\ Put(o, [group |-> ReqGroup[r], content |-> units[r][o[2]]])
          /\ \/ Advance(r, o, "list functions", {})
             \/ Fail(r)
    /\ UNCHANGED <<units, crashes>>

\* Faulty: every Function of the group is stale.
StaleFunctionsAll(r) == Listed({"function"}, ReqGroup[r])

\* The Functions of the group that are not desired.
StaleFunctions(r) ==
    Listed({"function"}, ReqGroup[r]) \ ({"function"} \X DOMAIN units[r])

ListStaleFunctions(r) ==
    /\ pc[r] = "list functions"
    /\ Loop(r, StaleFunctions(r), "prune functions", "list sources")
    /\ UNCHANGED <<units, cluster, counters>>

DeleteStaleFunction(r) ==
    /\ pc[r] = "prune functions"
    /\ \E o \in todo[r] :
          /\ Remove(o)
          /\ Advance(r, o, "list sources", {}) \/ Fail(r)
    /\ UNCHANGED <<units, crashes>>

\* Faulty: the desired ones are not kept; the component is not selected on.
StaleSourcesAll(r) == Listed({"source"}, ReqGroup[r])
StaleSourcesAnyComponent(r) ==
    Listed({"source", "endpoints"}, ReqGroup[r]) \ ({"source"} \X DOMAIN units[r])

\* Of the ConfigMaps of the group, only those with component=source.
StaleSources(r) ==
    Listed({"source"}, ReqGroup[r]) \ ({"source"} \X DOMAIN units[r])

ListStaleSources(r) ==
    /\ pc[r] = "list sources"
    /\ LoopOrSucceed(r, StaleSources(r), "prune sources")
    /\ UNCHANGED <<units, cluster, counters>>

DeleteStaleSource(r) ==
    /\ pc[r] = "prune sources"
    /\ \E o \in todo[r] :
          /\ Remove(o)
          /\ AdvanceOrSucceed(r, o) \/ Fail(r)
    /\ UNCHANGED <<units, crashes>>

-----------------------------------------------------------------------------
(* deleteDeployment: no lock is taken.                                     *)

BeginDelete(r) ==
    /\ pc[r] = "new"
    /\ ReqKind[r] = "delete"
    /\ pc' = [pc EXCEPT ![r] = "delete: list functions"]
    /\ TakeUp(r)
    /\ UNCHANGED <<units, todo, lock, cluster, counters>>

ListFunctions(r) ==
    /\ pc[r] = "delete: list functions"
    /\ Loop(r, Listed({"function"}, ReqGroup[r]), "delete functions", "delete: list maps")
    /\ UNCHANGED <<units, cluster, counters>>

DeleteFunction(r) ==
    /\ pc[r] = "delete functions"
    /\ \E o \in todo[r] :
          /\ Remove(o)
          /\ Advance(r, o, "delete: list maps", {}) \/ Fail(r)
    /\ UNCHANGED <<units, crashes>>

\* By group alone: the operator's endpoints ConfigMaps are among them.
ListConfigMaps(r) ==
    /\ pc[r] = "delete: list maps"
    /\ LoopOrSucceed(r, Listed({"source", "endpoints"}, ReqGroup[r]), "delete maps")
    /\ UNCHANGED <<units, cluster, counters>>

DeleteConfigMap(r) ==
    /\ pc[r] = "delete maps"
    /\ \E o \in todo[r] :
          /\ Remove(o)
          /\ AdvanceOrSucceed(r, o) \/ Fail(r)
    /\ UNCHANGED <<units, crashes>>

-----------------------------------------------------------------------------
(* The rest of the cluster.                                                *)

\* The process of a server ends: its handlers and its mutexes are gone.
Crash(s) ==
    /\ crashes < MaxCrashes
    /\ crashes' = crashes + 1
    /\ LET lost == {r \in Req : ReqServer[r] = s /\ pc[r] \in Working \cup {"locking"}}
       IN  /\ lost # {}
           /\ pc' = [r \in Req |-> IF r \in lost THEN "lost" ELSE pc[r]]
           /\ todo' = [r \in Req |-> IF r \in lost THEN {} ELSE todo[r]]
           /\ held' = held \ lost
    /\ lock' = [lock EXCEPT ![s] = [g \in Group |-> None]]
    /\ UNCHANGED <<units, cluster, ghosts, faults>>

\* The operator gives every Function an endpoints ConfigMap with its labels.
PublishEndpoints(u) ==
    /\ cluster[<<"function", u>>] # Absent
    /\ Put(<<"endpoints", u>>,
           [group |-> cluster[<<"function", u>>].group, content |-> None])
    /\ cluster' # cluster
    /\ UNCHANGED <<pc, units, todo, held, lock, ghosts, counters>>

\* Kubernetes collects what a deleted Function owned.
CollectEndpoints(u) ==
    /\ cluster[<<"function", u>>] = Absent
    /\ cluster[<<"endpoints", u>>] # Absent
    /\ Remove(<<"endpoints", u>>)
    /\ UNCHANGED <<pc, units, todo, held, lock, ghosts, counters>>

Deploying(r) ==
    \/ Receive(r) \/ LockDeployment(r) \/ Plan(r)
    \/ UpsertSourceConfigMap(r) \/ UpsertFunction(r)
    \/ ListStaleFunctions(r) \/ DeleteStaleFunction(r)
    \/ ListStaleSources(r) \/ DeleteStaleSource(r)

Deleting(r) ==
    \/ BeginDelete(r)
    \/ ListFunctions(r) \/ DeleteFunction(r)
    \/ ListConfigMaps(r) \/ DeleteConfigMap(r)

\* The next step of r: what it waited for, if it did, has returned.
Handle(r) ==
    /\ Deploying(r) \/ Deleting(r) \/ CallFails(r)
    /\ held' = held \ {r}

Next ==
    \/ \E r \in Req : Handle(r) \/ Hold(r)
    \/ \E s \in Server : Crash(s)
    \/ \E u \in Unit : PublishEndpoints(u) \/ CollectEndpoints(u)

\* A handler's goroutine runs, unless it is held; a mutex goes to one of those
\* who wait for it.  Nothing is assumed of the planner or of the Kubernetes API:
\* what is held may stay so.
Proceeds(r) == r \notin held /\ Handle(r)
Fairness == \A r \in Req : WF_vars(Proceeds(r))

Spec == Init /\ [][Next]_vars

FairSpec == Spec /\ Fairness

-----------------------------------------------------------------------------
(* Properties.                                                             *)

HasFunctions(g) == Listed({"function"}, g) # {}

\* Whatever fails and crashes, a Function never refers to a source ConfigMap
\* that does not exist, as long as no two rivals worked on its group at once:
\* sources are written before Functions and pruned after them
\* (deploy_plan.go:378-419, deploy.go:372-395).
FunctionHasSource ==
    \A u \in Unit :
        LET fn == cluster[<<"function", u>>] IN
        fn # Absent /\ fn.group \notin raced => cluster[<<"source", u>>] # Absent

\* The Functions and source ConfigMaps of g are exactly those of f.
Exactly(g, f) ==
    \A kind \in {"function", "source"}, u \in Unit :
        IF f # NoUnits /\ u \in UnitsOf(f)
        THEN cluster[<<kind, u>>] = [group |-> g, content |-> f[u]]
        ELSE cluster[<<kind, u>>].group # g

\* A request that answered success, with no rival at work on its group since it
\* began, has left exactly what was asked: every desired unit with its own
\* source and the hash of that source, nothing stale from earlier requests that
\* failed or were lost; after a delete, nothing (deploy_plan.go:136-140).
SuccessIsExact ==
    \A r \in undisturbed :
        pc[r] = "succeeded" =>
            Exactly(ReqGroup[r], IF ReqKind[r] = "deploy" THEN units[r] ELSE NoUnits)

\* A refused request leaves no trace, and what is in the cluster was accepted:
\* each Function and source is of a unit some request asked for, within the size
\* limit whether the units are planned or the fallback, and never a fallback for
\* a request whose planning is required (deploy_plan.go:111-134).
AcceptedOnly ==
    \A kind \in {"function", "source"}, u \in Unit :
        LET object == cluster[<<kind, u>>] IN
        object # Absent =>
            /\ object.content \notin Oversized
            /\ \E r \in Req :
                  /\ ReqGroup[r] = object.group
                  /\ u \in UnitsOf(units[r])
                  /\ units[r][u] = object.content
                  /\ Mode[r] = "required" => units[r] = Planned[r]

\* An upgrade never takes a group down: a group with Functions is left without
\* any only by a delete request, however a deploy fails and whatever units it
\* replaces (the prune comes last, deploy_plan.go:396-407).
OnlyDeleteEmpties ==
    [][\A g \in Group \ raced :
          HasFunctions(g) /\ ~HasFunctions(g)' =>
              \E r \in Req : /\ ReqGroup[r] = g
                             /\ pc[r] = "delete functions"]_vars

\* The endpoints ConfigMap of a Function is not taken away while the Function
\* exists: neither by the prune of its own group's deploy, which must leave the
\* operator's ConfigMaps alone, nor by a delete before its Functions are gone.
EndpointsOutliveFunction ==
    [][\A u \in Unit :
          /\ cluster[<<"endpoints", u>>] # Absent
          /\ cluster'[<<"endpoints", u>>] = Absent
          /\ cluster[<<"endpoints", u>>].group \notin raced
          => cluster[<<"function", u>>] = Absent]_vars

\* r waits for the mutex of its id, and who has it is held.
WaitsForHeld(r) == pc[r] = "locking" /\ lock[ReqServer[r]][ReqGroup[r]] \in held

\* Every request ends, except one that is held itself or waits for the mutex
\* while its holder is: no failure path, no late answer and no crash leaves the
\* mutex of a deployment id behind, and a held process or call stops only the
\* requests for its id at its server (deploy_plan.go:73-74).
EveryRequestEnds ==
    <>[](\A r \in Req : pc[r] \in Finished \/ r \in held \/ WaitsForHeld(r))

\* Requests for one id that all answered success have an outcome some order of
\* them explains: what one of the deploys asked for, or nothing.
OutcomeIsSerial ==
    \A g \in Group :
        LET requests == {r \in Req : ReqGroup[r] = g} IN
        (\A r \in requests : pc[r] = "succeeded") /\ requests # {} =>
            \E r \in requests :
                Exactly(g, IF ReqKind[r] = "deploy" THEN units[r] ELSE NoUnits)
=============================================================================
