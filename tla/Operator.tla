------------------------------ MODULE Operator ------------------------------
(***************************************************************************)
(* The operator's reconcile loop (src/internal/controller/                 *)
(* function_controller.go) against a cluster it sees through caches.       *)
(*                                                                         *)
(* For each Function the operator keeps an endpoints ConfigMap (its peers  *)
(* of the same deploy group), a Deployment whose template is annotated     *)
(* with hashes of the endpoints and of the source, and a Service.  All it  *)
(* reads, its own children too, comes from informer caches that lag behind *)
(* the cluster independently.  When the watch delivers a Function, or a    *)
(* child it owns, the Function is queued; a source ConfigMap has no owner  *)
(* and queues nothing.  One worker takes Functions from the queue.         *)
(*                                                                         *)
(* What updateStatus writes is the subject of module Status; here it only  *)
(* ends a Reconcile, maybe with an event or another turn.                  *)
(***************************************************************************)
EXTENDS Naturals, FiniteSets

CONSTANTS
    Unit,         \* names of Functions
    Group,        \* deployment ids; NoGroup among them if a Function may have none
    GroupOf,      \* the group each Function is deployed in
    NoGroup,      \* spec.deployGroup is empty
    Version,      \* what a source ConfigMap may hold
    None,         \* no object, no content
    Deployed,     \* the Functions there are already when the model starts
    MaxChanges,   \* bound: changes made through the API
    MaxFaults,    \* bound: calls that fail, restarts of the operator, pods that die
    MaxUnseen     \* bound: children whose last change a watch has still to deliver

ASSUME GroupsAssumption == GroupOf \in [Unit -> Group]

\* The annotations of a Deployment: hashes of endpoints and of source.
Templates == [peers : SUBSET Unit, src : Version \cup {None}]

ASSUME NoneAssumption == None \notin Unit /\ None \notin Version /\ None \notin Templates
ASSUME DeployedAssumption == Deployed \subseteq Unit /\ (Deployed # {} => Version # {})
ASSUME BoundsAssumption ==
    MaxChanges \in Nat /\ MaxFaults \in Nat /\ MaxUnseen \in Nat

VARIABLES
    function,   \* the Functions of the cluster: the source each was deployed with
    source,     \* the source ConfigMaps
    child,      \* the endpoints ConfigMap, Deployment and Service of each name
    pod,        \* the pod of each Deployment: its template and what it mounted
    fnCache,    \* the operator's informer cache of Functions
    behind,     \* Functions of which the watch has something to deliver
    srcCache,   \* the cache of source ConfigMaps
    childCache, \* the caches of the children
    unseen,     \* children of which a watch has something to deliver
    queue,      \* the work queue
    worker,     \* where Reconcile stands
    counts      \* what has been spent of each bound

cluster == <<function, source, child, pod>>
caches == <<fnCache, behind, srcCache, childCache, unseen>>
control == <<queue, worker>>
vars == <<cluster, caches, control, counts>>

\* The children of one name: the peers the ConfigMap lists, the annotations of the
\* Deployment's template, and whether there is a Service.
Kinds == {"endpoints", "deployment", "service"}
Children == [endpoints : (SUBSET Unit) \cup {None},
             deployment : Templates \cup {None},
             service : {"present", None}]
NoChildren == [kind \in Kinds |-> None]

Pods == [template : Templates, peers : SUBSET Unit, src : Version]

\* The worker: the step it is at, the request, whether its Function was found,
\* and the Functions left in the loop of reconcileAllEndpointMaps.
Steps == {"idle", "map", "deployment", "service", "list", "item map",
          "item deployment", "status"}
Workers == [at : Steps, req : Unit \cup {None}, found : BOOLEAN,
            items : SUBSET Unit, item : Unit \cup {None}]

TypeOK ==
    /\ function \in [Unit -> Version \cup {None}]
    /\ source \in [Unit -> Version \cup {None}]
    /\ child \in [Unit -> Children]
    /\ pod \in [Unit -> Pods \cup {None}]
    /\ fnCache \in [Unit -> Version \cup {None}]
    /\ behind \subseteq Unit
    /\ srcCache \in [Unit -> Version \cup {None}]
    /\ childCache \in [Unit -> Children]
    /\ unseen \subseteq Kinds \X Unit
    /\ queue \subseteq Unit
    /\ worker \in Workers
    /\ counts \in [changes : 0 .. MaxChanges, faults : 0 .. MaxFaults]

Idle == [at |-> "idle", req |-> None, found |-> FALSE, items |-> {}, item |-> None]

-----------------------------------------------------------------------------
(* What the operator computes from its caches.                             *)

\* Faulty: a Function without a group is everybody's peer.
SameDeployGroupLoose(a, b) == a = NoGroup \/ b = NoGroup \/ a = b

\* A Function without a group sees all others, a grouped one only its group.
SameDeployGroup(a, b) == a = NoGroup \/ a = b

Listed(fns) == {u \in Unit : fns[u] # None}

\* generateEndpoints: the Functions u shall be able to call.
Peers(fns, u) == {v \in Listed(fns) \ {u} : SameDeployGroup(GroupOf[u], GroupOf[v])}

\* The mesh starts empty, or with Functions deployed and reconciled earlier.
Init ==
    /\ \E v \in Version :
          function = [u \in Unit |-> IF u \in Deployed THEN v ELSE None]
    /\ source = function
    /\ child = [u \in Unit |->
          IF u \in Deployed
          THEN [endpoints |-> Peers(function, u),
                deployment |-> [peers |-> Peers(function, u), src |-> source[u]],
                service |-> "present"]
          ELSE NoChildren]
    /\ pod = [u \in Unit |->
          IF u \in Deployed
          THEN [template |-> child[u].deployment, peers |-> child[u].endpoints,
                src |-> source[u]]
          ELSE None]
    /\ fnCache = function
    /\ behind = {}
    /\ srcCache = source
    /\ childCache = child
    /\ unseen = {}
    /\ queue = {}
    /\ worker = Idle
    /\ counts = [changes |-> 0, faults |-> 0]

-----------------------------------------------------------------------------
(* What is bounded, and what lags.                                         *)

Change ==
    /\ counts.changes < MaxChanges
    /\ counts' = [counts EXCEPT !.changes = @ + 1]

Fault ==
    /\ counts.faults < MaxFaults
    /\ counts' = [counts EXCEPT !.faults = @ + 1]

\* The watches deliver a change of these children of u now, each with an event for
\* its owner, or later.
Changed(kinds, u) ==
    \E late \in SUBSET kinds :
        /\ unseen' = (unseen \ (kinds \X {u})) \cup (late \X {u})
        /\ Cardinality(unseen') <= MaxUnseen
        /\ childCache' = [childCache EXCEPT ![u] =
              [kind \in Kinds |-> IF kind \in kinds \ late THEN child'[u][kind] ELSE @[kind]]]
        /\ queue' = IF kinds \subseteq late THEN queue ELSE queue \cup {u}

Present(kinds, u) == {kind \in kinds : child[u][kind] # None}

-----------------------------------------------------------------------------
(* The API side: deploys and deletes, as the cluster sees them.            *)

\* A deploy writes the source first ...
PutSource(u) ==
    /\ Change
    /\ \E v \in Version : v # source[u] /\ source' = [source EXCEPT ![u] = v]
    /\ UNCHANGED <<function, child, pod, caches, control>>

\* ... and then the Function, with the hash of the source.
PutFunction(u) ==
    /\ source[u] # None
    /\ function[u] # source[u]
    /\ function' = [function EXCEPT ![u] = source[u]]
    /\ behind' = behind \cup {u}
    /\ UNCHANGED <<source, child, pod, fnCache, srcCache, childCache, unseen,
                   control, counts>>

\* A delete removes the Function first ...
RemoveFunction(u) ==
    /\ function[u] # None
    /\ Change
    /\ function' = [function EXCEPT ![u] = None]
    /\ behind' = behind \cup {u}
    /\ UNCHANGED <<source, child, pod, fnCache, srcCache, childCache, unseen, control>>

\* ... then its ConfigMaps, those of the operator too.
RemoveMaps(u) ==
    /\ function[u] = None
    /\ source[u] # None
    /\ source' = [source EXCEPT ![u] = None]
    /\ child' = [child EXCEPT ![u].endpoints = None]
    /\ Changed(Present({"endpoints"}, u), u)
    /\ UNCHANGED <<function, pod, fnCache, behind, srcCache, worker, counts>>

-----------------------------------------------------------------------------
(* Kubernetes.                                                             *)

\* The children of a Function that is gone are collected, if it is not deployed
\* anew before that: then the operator takes them over.
Orphans(u) == function[u] = None /\ (child[u] # NoChildren \/ pod[u] # None)

Collect(u) ==
    /\ Orphans(u)
    /\ child' = [child EXCEPT ![u] = NoChildren]
    /\ pod' = [pod EXCEPT ![u] = None]
    /\ Changed(Present(Kinds, u), u)
    /\ UNCHANGED <<function, source, fnCache, behind, srcCache, worker, counts>>

\* A pod is started when the template is new.  It mounts what the ConfigMaps hold
\* now, and waits for one that does not exist.
Outdated(u) ==
    /\ child[u].deployment # None
    /\ pod[u] # None => pod[u].template # child[u].deployment

\* Faulty: the volume of the source is optional.
StartableWithoutSource(u) == child[u].deployment # None /\ child[u].endpoints # None

Startable(u) ==
    child[u].deployment # None /\ child[u].endpoints # None /\ source[u] # None

\* Its readiness changes the status of its Deployment.
StartPod(u) ==
    /\ Startable(u)
    /\ pod' = [pod EXCEPT ![u] =
          [template |-> child[u].deployment, peers |-> child[u].endpoints,
           src |-> source[u]]]
    /\ child' = child
    /\ Changed({"deployment"}, u)
    /\ UNCHANGED <<function, source, fnCache, behind, srcCache, worker>>

RollOut(u) ==
    /\ Outdated(u)
    /\ StartPod(u)
    /\ UNCHANGED counts

\* A pod dies and its Deployment replaces it.
ReplacePod(u) ==
    /\ pod[u] # None
    /\ Fault
    /\ StartPod(u)

-----------------------------------------------------------------------------
(* The manager: informers and queue.                                       *)

\* The watch of Functions delivers: cache and event.
SyncFunction(u) ==
    /\ u \in behind
    /\ fnCache' = [fnCache EXCEPT ![u] = function[u]]
    /\ behind' = behind \ {u}
    /\ queue' = queue \cup {u}
    /\ UNCHANGED <<cluster, srcCache, childCache, unseen, worker, counts>>

\* The watch of ConfigMaps delivers a source: its owner is nobody, no event.
SyncSource(u) ==
    /\ srcCache[u] # source[u]
    /\ srcCache' = [srcCache EXCEPT ![u] = source[u]]
    /\ UNCHANGED <<cluster, fnCache, behind, childCache, unseen, control, counts>>

\* The watch of a kind of children delivers: cache and event for the owner.
SyncChild(kind, u) ==
    /\ <<kind, u>> \in unseen
    /\ childCache' = [childCache EXCEPT ![u][kind] = child[u][kind]]
    /\ unseen' = unseen \ {<<kind, u>>}
    /\ queue' = queue \cup {u}
    /\ UNCHANGED <<cluster, fnCache, behind, srcCache, worker, counts>>

\* The operator restarts: it lists everything anew and queues every Function,
\* and the owner of every child.
Restart ==
    /\ Fault
    /\ fnCache' = function
    /\ behind' = {}
    /\ srcCache' = source
    /\ childCache' = child
    /\ unseen' = {}
    /\ queue' = {u \in Unit : function[u] # None \/ Orphans(u)}
    /\ worker' = Idle
    /\ UNCHANGED cluster

-----------------------------------------------------------------------------
(* Reconcile.                                                              *)

\* A call fails: Reconcile returns the error and the request is queued again.
CallFails ==
    /\ worker.at # "idle"
    /\ Fault
    /\ worker' = Idle
    /\ queue' = queue \cup {worker.req}
    /\ UNCHANGED <<cluster, caches>>

\* The worker takes a Function and reads it; one that is gone goes straight to
\* the refresh of all others.
Reconcile(u) ==
    /\ worker.at = "idle"
    /\ u \in queue
    /\ queue' = queue \ {u}
    /\ worker' = [Idle EXCEPT !.at = IF fnCache[u] = None THEN "list" ELSE "map",
                             !.req = u,
                             !.found = fnCache[u] # None]
    /\ UNCHANGED <<cluster, caches, counts>>

\* The update of a child is refused when it has changed since the cached copy of
\* it; its creation, when it exists.
Refused(kind, u) ==
    /\ <<kind, u>> \in unseen
    /\ childCache[u][kind] # None \/ child[u][kind] # None

\* CreateOrUpdate: nothing is written when the cached copy is as wanted, be it old
\* or not; a refusal ends the Reconcile with an error and queues the request again.
CreateOrUpdate(kind, u, wanted, next) ==
    \/ /\ childCache[u][kind] = wanted
       /\ worker' = next
       /\ UNCHANGED <<child, childCache, unseen, queue>>
    \/ /\ childCache[u][kind] # wanted
       /\ ~Refused(kind, u)
       /\ child' = [child EXCEPT ![u][kind] = wanted]
       /\ Changed({kind}, u)
       /\ worker' = next
    \/ /\ childCache[u][kind] # wanted
       /\ Refused(kind, u)
       /\ worker' = Idle
       /\ queue' = queue \cup {worker.req}
       /\ UNCHANGED <<child, childCache, unseen>>

\* What a write of a child leaves alone.
others == <<function, source, pod, fnCache, behind, srcCache, counts>>

\* Faulty: the hash the Deployment was created with stays.
TemplateOnce(u) ==
    IF childCache[u].deployment # None THEN childCache[u].deployment
    ELSE [peers |-> Peers(fnCache, u), src |-> srcCache[u]]

\* The hashes in the template: of the endpoints listed once more, and of the
\* source as the cache has it (none if the cache has no such ConfigMap).
Template(u) == [peers |-> Peers(fnCache, u), src |-> srcCache[u]]

ReconcileEndpointConfigMap ==
    /\ worker.at = "map"
    /\ CreateOrUpdate("endpoints", worker.req, Peers(fnCache, worker.req),
                      [worker EXCEPT !.at = "deployment"])
    /\ UNCHANGED others

ReconcileDeployment ==
    /\ worker.at = "deployment"
    /\ CreateOrUpdate("deployment", worker.req, Template(worker.req),
                      [worker EXCEPT !.at = "service"])
    /\ UNCHANGED others

ReconcileService ==
    /\ worker.at = "service"
    /\ CreateOrUpdate("service", worker.req, "present", [worker EXCEPT !.at = "list"])
    /\ UNCHANGED others

\* After the loop over all Functions: the status, unless the request's is gone.
AfterLoop == IF worker.found THEN [worker EXCEPT !.at = "status", !.items = {}, !.item = None]
             ELSE Idle

\* Faulty: a Function that is gone has nothing to refresh.
ToRefreshIfFound == IF worker.found THEN Listed(fnCache) ELSE {}

\* The Functions whose children a Reconcile refreshes.
ToRefresh == Listed(fnCache)

\* reconcileAllEndpointMaps: list the Functions, then for each of them the map
\* and the Deployment.
ListAll ==
    /\ worker.at = "list"
    /\ worker' = IF ToRefresh = {} THEN AfterLoop
                 ELSE [worker EXCEPT !.at = "item map", !.items = ToRefresh]
    /\ UNCHANGED <<cluster, caches, queue, counts>>

ItemMap ==
    /\ worker.at = "item map"
    /\ \E u \in worker.items :
          CreateOrUpdate("endpoints", u, Peers(fnCache, u),
                         [worker EXCEPT !.at = "item deployment", !.item = u,
                                        !.items = @ \ {u}])
    /\ UNCHANGED others

ItemDeployment ==
    /\ worker.at = "item deployment"
    /\ CreateOrUpdate("deployment", worker.item, Template(worker.item),
                      IF worker.items = {} THEN AfterLoop
                      ELSE [worker EXCEPT !.at = "item map", !.item = None])
    /\ UNCHANGED others

\* The request comes back after a conflict, 5 s later when there is more to wait
\* for, or with the event of the status just written.
UpdateStatus ==
    /\ worker.at = "status"
    /\ worker' = Idle
    /\ queue' \in {queue, queue \cup {worker.req}}
    /\ UNCHANGED <<cluster, caches, counts>>

Work ==
    \/ \E u \in Unit : Reconcile(u)
    \/ ReconcileEndpointConfigMap \/ ReconcileDeployment \/ ReconcileService
    \/ ListAll \/ ItemMap \/ ItemDeployment \/ UpdateStatus
    \/ CallFails

Api(u) == PutSource(u) \/ PutFunction(u) \/ RemoveFunction(u) \/ RemoveMaps(u)

Kubernetes(u) == Collect(u) \/ RollOut(u) \/ ReplacePod(u)

Sync(u) ==
    \/ SyncFunction(u) \/ SyncSource(u)
    \/ \E kind \in Kinds : SyncChild(kind, u)

Next ==
    \/ Work
    \/ Restart
    \/ \E u \in Unit : Api(u) \/ Kubernetes(u) \/ Sync(u)

\* The worker runs and takes every request in its turn, watches deliver, and
\* Kubernetes collects orphans and rolls templates out.  Nothing is assumed of
\* the API or of failures.
Fairness ==
    /\ WF_vars(Work)
    /\ \A u \in Unit :
          /\ SF_vars(Reconcile(u))
          /\ WF_vars(SyncFunction(u)) /\ WF_vars(SyncSource(u))
          /\ WF_vars(\E kind \in Kinds : SyncChild(kind, u))
          /\ WF_vars(Collect(u) \/ RollOut(u))

Spec == Init /\ [][Next]_vars

FairSpec == Spec /\ Fairness

-----------------------------------------------------------------------------
(* Properties.                                                             *)

\* Nothing is left for the operator or for Kubernetes to react to: until the
\* next change from outside, this is how the mesh stays.
Quiet ==
    /\ worker = Idle /\ queue = {} /\ behind = {} /\ unseen = {}
    /\ srcCache = source
    /\ \A u \in Unit : ~Orphans(u) /\ ~(Outdated(u) /\ Startable(u))

\* Whatever order changes, cache updates, failed calls and restarts came in,
\* once quiet every Function has a Service and lists exactly the peers it has
\* now, in the ConfigMap and in the hash of its Deployment
\* (function_controller.go:348-363: every reconcile refreshes all of them).
ChildrenConverge ==
    Quiet => \A u \in Listed(function) :
                /\ child[u].endpoints = Peers(function, u)
                /\ child[u].deployment # None
                /\ child[u].deployment.peers = Peers(function, u)
                /\ child[u].service = "present"

\* The API's changes end, since they are bounded; then every Function comes to
\* list its peers, in its ConfigMap and its Deployment, for good, and nothing is
\* left of the deleted ones.
EventuallyInMesh ==
    <>[]\A u \in Unit :
            (/\ function[u] # None => /\ child[u].endpoints = Peers(function, u)
                                      /\ child[u].deployment # None
                                      /\ child[u].deployment.peers = Peers(function, u)
             /\ function[u] = None => ~Orphans(u))

\* "Functions with different IDs cannot resolve each other's endpoints"
\* (README.md:48): neither the ConfigMap of a Function that has an id nor the
\* one its running pod mounted lists a Function of another id or of none.
Isolation ==
    \A u \in Unit :
        GroupOf[u] # NoGroup =>
            /\ child[u].endpoints # None =>
                  \A v \in child[u].endpoints : GroupOf[v] = GroupOf[u]
            /\ pod[u] # None =>
                  \A v \in pod[u].peers : GroupOf[v] = GroupOf[u]

\* Caches are current, and what the operator would write for u is there and
\* rolled out: no reconcile will change anything of u any more.
UpToDate(u) ==
    /\ function[u] # None
    /\ fnCache = function /\ srcCache = source /\ childCache = child
    /\ child[u].endpoints = Peers(function, u)
    /\ child[u].deployment = Template(u)
    /\ pod[u] # None /\ pod[u].template = child[u].deployment

\* "hashing the endpoints to trigger a redeploy when the endpoints change"
\* (function_controller.go:194): when u is up to date, its pod was started with
\* the endpoints its ConfigMap has now.
EndpointsRedeploy ==
    \A u \in Unit : UpToDate(u) => pod[u].peers = child[u].endpoints

\* A redeploy of changed source is to restart the pod ("source hash did not
\* change", function_controller_source_test.go:73): once quiet, a Function whose
\* deploy is complete runs the source it was deployed with.
SourceRedeploys ==
    Quiet => \A u \in Listed(function) :
                pod[u] # None /\ function[u] = source[u] => pod[u].src = source[u]
=============================================================================
