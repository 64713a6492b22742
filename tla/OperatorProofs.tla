---------------------------- MODULE OperatorProofs ----------------------------
(***************************************************************************)
(* Proofs about Operator for any Functions, groups, sources and bounds.    *)
(*                                                                         *)
(* Convergence rests on what is still to come: as long as some Function    *)
(* has children that do not fit the cache, a request is queued, a watch    *)
(* has a child to deliver, a Reconcile has not listed the Functions yet,   *)
(* or its loop will still visit that Function (RefreshInv).  What the      *)
(* caches lack is behind the watches (CacheInv, ChildCacheInv).            *)
(***************************************************************************)
EXTENDS Operator, TLAPS

-----------------------------------------------------------------------------
(* The invariant.                                                          *)

\* The worker has a request, and an item in the second step of the loop.
WorkerInv ==
    /\ worker.at # "idle" => worker.req \in Unit
    /\ worker.at = "item deployment" => worker.item \in Unit

\* Children list what the mesh may call, in every version of the cache.
GroupInv ==
    \A u \in Unit : GroupOf[u] # NoGroup =>
        /\ child[u].endpoints # None => \A v \in child[u].endpoints : GroupOf[v] = GroupOf[u]
        /\ pod[u] # None => \A v \in pod[u].peers : GroupOf[v] = GroupOf[u]

CacheInv == \A u \in Unit : u \notin behind => fnCache[u] = function[u]

ChildCacheInv ==
    \A kind \in Kinds, u \in Unit :
        <<kind, u>> \notin unseen => childCache[u][kind] = child[u][kind]

\* The children of u fit the cache.
MapRight(u) == child[u].endpoints = Peers(fnCache, u)
DeploymentRight(u) ==
    child[u].deployment # None /\ child[u].deployment.peers = Peers(fnCache, u)

\* There is an event to come, or one that waits.
Stirred == queue # {} \/ unseen # {}

\* Whatever does not fit the cache is still to be refreshed,
ToCome(u) ==
    \/ Stirred
    \/ worker.at \in {"map", "deployment", "service", "list"}
    \/ worker.at \in {"item map", "item deployment"} /\ u \in worker.items
    \/ worker.at = "item deployment" /\ u = worker.item /\ MapRight(u)

RefreshInv ==
    \A u \in Listed(fnCache) : ToCome(u) \/ (MapRight(u) /\ DeploymentRight(u))

\* and a Function without a Service has a request of its own, or will get one.
ServiceToCome(u) ==
    \/ u \in queue
    \/ <<"service", u>> \in unseen
    \/ worker.req = u /\ worker.at \in {"map", "deployment", "service"}

ServiceInv ==
    \A u \in Listed(fnCache) : child[u].service = "present" \/ ServiceToCome(u)

IInv ==
    /\ TypeOK
    /\ WorkerInv
    /\ GroupInv
    /\ CacheInv
    /\ ChildCacheInv
    /\ RefreshInv
    /\ ServiceInv

-----------------------------------------------------------------------------
(* Peers and children.                                                     *)

LEMMA PeersAre ==
  ASSUME NEW f, NEW u \in Unit
  PROVE  /\ Peers(f, u) \subseteq Unit
         /\ GroupOf[u] # NoGroup => \A v \in Peers(f, u) : GroupOf[v] = GroupOf[u]
BY DEF Peers, Listed, SameDeployGroup

\* A Deployment as the operator writes it.
LEMMA TemplateIs ==
  ASSUME TypeOK, NEW u \in Unit
  PROVE  Template(u) \in Templates /\ Template(u) # None
         /\ Template(u).peers = Peers(fnCache, u)
BY PeersAre, NoneAssumption DEF Template, Templates, TypeOK

\* What a kind of child may be.
Contents(kind) ==
    CASE kind = "endpoints" -> (SUBSET Unit) \cup {None}
      [] kind = "deployment" -> Templates \cup {None}
      [] kind = "service" -> {"present", None}

\* A name's children are of their types when each kind is.
LEMMA ChildrenAre ==
  ASSUME NEW c
  PROVE  c \in Children <=> c = [kind \in Kinds |-> c[kind]] /\ \A kind \in Kinds : c[kind] \in Contents(kind)
BY DEF Children, Kinds, Contents

\* A change of children is delivered, or a watch has it to deliver.
Delivered(kinds, u) ==
    /\ childCache' \in [Unit -> Children]
    /\ unseen' \subseteq Kinds \X Unit
    /\ queue \subseteq queue' /\ queue' \subseteq Unit
    /\ unseen \ (kinds \X {u}) \subseteq unseen'
    /\ \A kind \in kinds : <<kind, u>> \in unseen' \/ u \in queue'
    /\ \A kind \in Kinds, v \in Unit :
          IF kind \in kinds /\ v = u
          THEN <<kind, v>> \in unseen' \/ childCache'[v][kind] = child'[v][kind]
          ELSE /\ childCache'[v][kind] = childCache[v][kind]
               /\ <<kind, v>> \in unseen' <=> <<kind, v>> \in unseen

LEMMA ChangedIs ==
  ASSUME TypeOK, child' \in [Unit -> Children],
         NEW kinds \in SUBSET Kinds, NEW u \in Unit, Changed(kinds, u)
  PROVE  Delivered(kinds, u)
<1>1. PICK late \in SUBSET kinds :
        /\ unseen' = (unseen \ (kinds \X {u})) \cup (late \X {u})
        /\ childCache' = [childCache EXCEPT ![u] =
              [kind \in Kinds |-> IF kind \in kinds \ late THEN child'[u][kind]
                                 ELSE childCache[u][kind]]]
        /\ queue' = IF kinds \subseteq late THEN queue ELSE queue \cup {u}
  BY DEF Changed, TypeOK
<1>2. childCache'[u] \in Children
  <2>1. childCache[u] \in Children /\ child'[u] \in Children
    BY DEF TypeOK
  <2>2. childCache'[u] = [kind \in Kinds |-> IF kind \in kinds \ late THEN child'[u][kind]
                                            ELSE childCache[u][kind]]
    BY <1>1 DEF TypeOK
  <2>3. \A kind \in Kinds : childCache'[u][kind] \in Contents(kind)
    BY <2>1, <2>2, ChildrenAre
  <2> QED
    BY <2>2, <2>3, ChildrenAre
<1>3. childCache' \in [Unit -> Children]
  BY <1>1, <1>2 DEF TypeOK
<1>4. /\ unseen' \subseteq Kinds \X Unit
      /\ queue \subseteq queue' /\ queue' \subseteq Unit
      /\ unseen \ (kinds \X {u}) \subseteq unseen'
      /\ \A kind \in kinds : <<kind, u>> \in unseen' \/ u \in queue'
  BY <1>1 DEF TypeOK
<1>5. ASSUME NEW kind \in Kinds, NEW v \in Unit, kind \in kinds, v = u
      PROVE  <<kind, v>> \in unseen' \/ childCache'[v][kind] = child'[v][kind]
  BY <1>1, <1>5 DEF TypeOK
<1>6. ASSUME NEW kind \in Kinds, NEW v \in Unit, ~(kind \in kinds /\ v = u)
      PROVE  /\ childCache'[v][kind] = childCache[v][kind]
             /\ <<kind, v>> \in unseen' <=> <<kind, v>> \in unseen
  BY <1>1, <1>6 DEF TypeOK
<1> QED
  BY <1>3, <1>4, <1>5, <1>6 DEF Delivered

\* What CreateOrUpdate does, whichever kind it is for: the cached copy is as wanted
\* and nothing is written, or something is to come.
Written(kind, u, wanted, next) ==
    /\ child' \in [Unit -> Children]
    /\ childCache' \in [Unit -> Children]
    /\ unseen' \subseteq Kinds \X Unit
    /\ queue \subseteq queue' /\ queue' \subseteq Unit
    /\ \/ child' = child
       \/ child' = [child EXCEPT ![u] = [child[u] EXCEPT ![kind] = wanted]]
    /\ worker' = next \/ (worker' = Idle /\ worker.req \in queue')
    /\ \/ worker' = next /\ childCache[u][kind] = wanted
          /\ UNCHANGED <<child, childCache, unseen, queue>>
       \/ Stirred'
    /\ \A k \in Kinds, v \in Unit :
          \/ k = kind /\ v = u
          \/ <<k, v>> \in unseen => <<k, v>> \in unseen'
    /\ ChildCacheInv => ChildCacheInv'

LEMMA WritesAre ==
  ASSUME TypeOK, NEW kind \in Kinds, NEW u \in Unit, NEW wanted \in Contents(kind), NEW next,
         worker.req \in Unit, CreateOrUpdate(kind, u, wanted, next)
  PROVE  Written(kind, u, wanted, next)
<1>1. CASE childCache[u][kind] = wanted /\ worker' = next
           /\ UNCHANGED <<child, childCache, unseen, queue>>
  BY <1>1 DEF TypeOK, ChildCacheInv, Written
<1>2. CASE worker' = Idle /\ queue' = queue \cup {worker.req}
           /\ UNCHANGED <<child, childCache, unseen>>
  BY <1>2 DEF TypeOK, ChildCacheInv, Stirred, Written
<1>3. CASE child' = [child EXCEPT ![u][kind] = wanted] /\ Changed({kind}, u) /\ worker' = next
  <2>1. child' = [child EXCEPT ![u] = [child[u] EXCEPT ![kind] = wanted]]
    BY <1>3
  <2>2. child'[u] \in Children
    <3>1. child[u] \in Children
      BY DEF TypeOK
    <3>2. child'[u] = [child[u] EXCEPT ![kind] = wanted]
      BY <2>1 DEF TypeOK
    <3>3. \A k \in Kinds : child'[u][k] = IF k = kind THEN wanted ELSE child[u][k]
      BY <3>1, <3>2, ChildrenAre
    <3>4. \A k \in Kinds : child'[u][k] \in Contents(k)
      BY <3>1, <3>3, ChildrenAre
    <3>5. child'[u] = [k \in Kinds |-> child'[u][k]]
      BY <3>1, <3>2, ChildrenAre
    <3> QED
      BY <3>4, <3>5, ChildrenAre
  <2>3. child' \in [Unit -> Children]
    BY <2>1, <2>2 DEF TypeOK
  <2>4. \A k \in Kinds, v \in Unit : ~(k = kind /\ v = u) => child'[v][k] = child[v][k]
    BY <2>1, ChildrenAre DEF TypeOK
  <2>5. Delivered({kind}, u)
    <3>1. {kind} \in SUBSET Kinds /\ Changed({kind}, u)
      BY <1>3
    <3> QED
      BY <2>3, <3>1, ChangedIs
  <2>6. ChildCacheInv => ChildCacheInv'
    <3> SUFFICES ASSUME ChildCacheInv, NEW k \in Kinds, NEW v \in Unit, <<k, v>> \notin unseen'
                 PROVE  childCache'[v][k] = child'[v][k]
      BY DEF ChildCacheInv
    <3>1. CASE k = kind /\ v = u
      BY <2>5, <3>1 DEF Delivered
    <3>2. CASE ~(k = kind /\ v = u)
      BY <2>4, <2>5, <3>2 DEF ChildCacheInv, Delivered
    <3> QED
      BY <3>1, <3>2
  <2>7. \A k \in Kinds, v \in Unit :
           (k = kind /\ v = u) \/ (<<k, v>> \in unseen => <<k, v>> \in unseen')
    BY <2>5 DEF Delivered
  <2> QED
    BY <1>3, <2>1, <2>3, <2>5, <2>6, <2>7 DEF Stirred, Delivered, Written
<1> QED
  BY <1>1, <1>2, <1>3 DEF CreateOrUpdate

\* What each step of the worker writes is a child of its kind.
LEMMA WantedAre ==
  ASSUME TypeOK, NEW u \in Unit
  PROVE  /\ Peers(fnCache, u) \in Contents("endpoints")
         /\ Template(u) \in Contents("deployment")
         /\ "present" \in Contents("service")
         /\ "endpoints" \in Kinds /\ "deployment" \in Kinds /\ "service" \in Kinds
BY PeersAre, TemplateIs DEF Contents, Kinds

\* The steps of the worker that write a child.
LEMMA StepsWrite ==
  ASSUME TypeOK, WorkerInv
  PROVE  /\ ReconcileEndpointConfigMap =>
               Written("endpoints", worker.req, Peers(fnCache, worker.req),
                       [worker EXCEPT !.at = "deployment"])
         /\ ReconcileDeployment =>
               Written("deployment", worker.req, Template(worker.req),
                       [worker EXCEPT !.at = "service"])
         /\ ReconcileService =>
               Written("service", worker.req, "present", [worker EXCEPT !.at = "list"])
         /\ ItemMap =>
               \E u \in worker.items :
                  Written("endpoints", u, Peers(fnCache, u),
                          [worker EXCEPT !.at = "item deployment", !.item = u,
                                         !.items = @ \ {u}])
         /\ ItemDeployment =>
               Written("deployment", worker.item, Template(worker.item),
                       IF worker.items = {} THEN AfterLoop
                       ELSE [worker EXCEPT !.at = "item map", !.item = None])
<1>1. worker.at # "idle" => worker.req \in Unit
  BY DEF WorkerInv
<1>2. ASSUME ReconcileEndpointConfigMap
      PROVE  Written("endpoints", worker.req, Peers(fnCache, worker.req),
                     [worker EXCEPT !.at = "deployment"])
  BY <1>1, <1>2, WritesAre, WantedAre DEF ReconcileEndpointConfigMap
<1>3. ASSUME ReconcileDeployment
      PROVE  Written("deployment", worker.req, Template(worker.req),
                     [worker EXCEPT !.at = "service"])
  BY <1>1, <1>3, WritesAre, WantedAre DEF ReconcileDeployment
<1>4. ASSUME ReconcileService
      PROVE  Written("service", worker.req, "present", [worker EXCEPT !.at = "list"])
  BY <1>1, <1>4, WritesAre, WantedAre DEF ReconcileService
<1>5. ASSUME ItemMap
      PROVE  \E u \in worker.items :
                Written("endpoints", u, Peers(fnCache, u),
                        [worker EXCEPT !.at = "item deployment", !.item = u, !.items = @ \ {u}])
  <2>1. PICK u \in worker.items :
           CreateOrUpdate("endpoints", u, Peers(fnCache, u),
                          [worker EXCEPT !.at = "item deployment", !.item = u,
                                         !.items = @ \ {u}])
    BY <1>5 DEF ItemMap
  <2>2. u \in Unit /\ worker.req \in Unit
    BY <1>1, <1>5 DEF ItemMap, TypeOK, Workers
  <2> QED
    BY <2>1, <2>2, WritesAre, WantedAre
<1>6. ASSUME ItemDeployment
      PROVE  Written("deployment", worker.item, Template(worker.item),
                     IF worker.items = {} THEN AfterLoop
                     ELSE [worker EXCEPT !.at = "item map", !.item = None])
  BY <1>1, <1>6, WritesAre, WantedAre DEF ItemDeployment, WorkerInv
<1> QED
  BY <1>2, <1>3, <1>4, <1>5, <1>6

\* What they leave and keep, whichever step it is.
Writing ==
    \/ ReconcileEndpointConfigMap \/ ReconcileDeployment \/ ReconcileService
    \/ ItemMap \/ ItemDeployment

LEMMA WritingIs ==
  ASSUME TypeOK, WorkerInv, Writing
  PROVE  /\ UNCHANGED others
         /\ child' \in [Unit -> Children]
         /\ childCache' \in [Unit -> Children]
         /\ unseen' \subseteq Kinds \X Unit
         /\ queue \subseteq queue' /\ queue' \subseteq Unit
         /\ ChildCacheInv => ChildCacheInv'
<1>1. UNCHANGED others
  BY DEF Writing, ReconcileEndpointConfigMap, ReconcileDeployment, ReconcileService,
         ItemMap, ItemDeployment
<1>2. PICK kind, u, wanted, next : Written(kind, u, wanted, next)
  BY StepsWrite DEF Writing
<1> QED
  BY <1>1, <1>2 DEF Written

\* Kubernetes and the API change children, too.
LEMMA StartedPod ==
  ASSUME TypeOK, NEW u \in Unit, StartPod(u)
  PROVE  /\ pod' \in [Unit -> Pods \cup {None}] /\ child' = child
         /\ childCache' \in [Unit -> Children]
         /\ unseen' \subseteq Kinds \X Unit
         /\ queue \subseteq queue' /\ queue' \subseteq Unit
         /\ Stirred'
         /\ \A v \in Unit : <<"service", v>> \in unseen => <<"service", v>> \in unseen'
         /\ ChildCacheInv => ChildCacheInv'
<1>1. [template |-> child[u].deployment, peers |-> child[u].endpoints, src |-> source[u]] \in Pods
  BY DEF StartPod, Startable, Pods, TypeOK, Children
<1>2. pod' \in [Unit -> Pods \cup {None}]
  BY <1>1 DEF StartPod, TypeOK
<1>3. child' = child /\ child' \in [Unit -> Children] /\ {"deployment"} \in SUBSET Kinds
      /\ Changed({"deployment"}, u)
  BY DEF StartPod, TypeOK, Kinds
<1>4. Delivered({"deployment"}, u)
  BY <1>3, ChangedIs
<1>5. ChildCacheInv => ChildCacheInv'
  BY <1>3, <1>4 DEF ChildCacheInv, Delivered
<1> QED
  BY <1>2, <1>3, <1>4, <1>5 DEF Stirred, Delivered

\* Children that are removed: those of a Function that is gone.
Removes(u) ==
    \/ /\ child' = [child EXCEPT ![u].endpoints = None]
       /\ Changed(Present({"endpoints"}, u), u)
    \/ /\ child' = [child EXCEPT ![u] = NoChildren]
       /\ Changed(Present(Kinds, u), u)

LEMMA RemovedChildren ==
  ASSUME TypeOK, NEW u \in Unit, Removes(u)
  PROVE  /\ child' \in [Unit -> Children]
         /\ childCache' \in [Unit -> Children]
         /\ unseen' \subseteq Kinds \X Unit
         /\ queue \subseteq queue' /\ queue' \subseteq Unit
         /\ child' = child \/ Stirred'
         /\ Stirred => Stirred'
         /\ \A v \in Unit : child'[v].endpoints \in {child[v].endpoints, None}
         /\ \A v \in Unit : child'[v].service = child[v].service
                              \/ v \in queue' \/ <<"service", v>> \in unseen'
         /\ \A v \in Unit : <<"service", v>> \in unseen =>
                                v \in queue' \/ <<"service", v>> \in unseen'
         /\ ChildCacheInv => ChildCacheInv'
<1>1. NoChildren \in Children
  BY DEF NoChildren, Children, Kinds
<1>2. child' \in [Unit -> Children]
  <2>1. child[u] \in Children => [child[u] EXCEPT !.endpoints = None] \in Children
    BY DEF Children
  <2> QED
    BY <1>1, <2>1 DEF Removes, TypeOK
<1>3. PICK kinds \in SUBSET Kinds :
         /\ Changed(kinds, u)
         /\ \A k \in Kinds, v \in Unit : ~(k \in kinds /\ v = u) => child'[v][k] = child[v][k]
  <2>1. CASE child' = [child EXCEPT ![u].endpoints = None]
             /\ Changed(Present({"endpoints"}, u), u)
    <3>1. Present({"endpoints"}, u) \in SUBSET Kinds
      BY DEF Present, Kinds
    <3>2. \A v \in Unit : /\ child'[v].deployment = child[v].deployment
                          /\ child'[v].service = child[v].service
                          /\ v # u => child'[v].endpoints = child[v].endpoints
                          /\ child'[u].endpoints = None
      BY <2>1 DEF TypeOK, Children
    <3> QED
      BY <2>1, <3>1, <3>2 DEF Present, Kinds
  <2>2. CASE child' = [child EXCEPT ![u] = NoChildren] /\ Changed(Present(Kinds, u), u)
    <3>1. Present(Kinds, u) \in SUBSET Kinds
      BY DEF Present
    <3>2. \A k \in Kinds, v \in Unit :
             child'[v][k] = IF v = u THEN None ELSE child[v][k]
      BY <2>2 DEF TypeOK, NoChildren
    <3> QED
      BY <2>2, <3>1, <3>2 DEF Present
  <2> QED
    BY <2>1, <2>2 DEF Removes
<1>4. Delivered(kinds, u)
  BY <1>2, <1>3, ChangedIs
<1>5. child' = child \/ Stirred'
  <2>1. CASE kinds = {}
    <3>1. \A v \in Unit : child'[v] = child[v]
      <4> TAKE v \in Unit
      <4>1. child'[v] \in Children /\ child[v] \in Children
        BY <1>2 DEF TypeOK
      <4>2. \A k \in Kinds : child'[v][k] = child[v][k]
        BY <1>3, <2>1
      <4> QED
        BY <4>1, <4>2, ChildrenAre
    <3> QED
      BY <1>2, <3>1 DEF TypeOK
  <2>2. CASE kinds # {}
    BY <1>4, <2>2 DEF Stirred, Delivered
  <2> QED
    BY <2>1, <2>2
<1>9. Stirred => Stirred'
  <2>1. \A c \in unseen : c \in unseen' \/ c \in kinds \X {u}
    BY <1>4 DEF Delivered
  <2> QED
    BY <1>4, <2>1 DEF Stirred, Delivered
<1>6. \A v \in Unit : child'[v].endpoints \in {child[v].endpoints, None}
  BY DEF Removes, TypeOK, Children, NoChildren, Kinds
<1>7. \A v \in Unit :
         /\ child'[v].service = child[v].service \/ v \in queue' \/ <<"service", v>> \in unseen'
         /\ <<"service", v>> \in unseen => v \in queue' \/ <<"service", v>> \in unseen'
  <2> TAKE v \in Unit
  <2>1. "service" \in Kinds
    BY DEF Kinds
  <2>2. CASE "service" \in kinds /\ v = u
    BY <1>4, <2>2 DEF Delivered
  <2>3. CASE ~("service" \in kinds /\ v = u)
    BY <1>3, <1>4, <2>1, <2>3 DEF Delivered
  <2> QED
    BY <2>2, <2>3
<1>8. ChildCacheInv => ChildCacheInv'
  <2> SUFFICES ASSUME ChildCacheInv, NEW k \in Kinds, NEW v \in Unit, <<k, v>> \notin unseen'
               PROVE  childCache'[v][k] = child'[v][k]
    BY DEF ChildCacheInv
  <2>1. CASE k \in kinds /\ v = u
    BY <1>4, <2>1 DEF Delivered
  <2>2. CASE ~(k \in kinds /\ v = u)
    BY <1>3, <1>4, <2>2 DEF ChildCacheInv, Delivered
  <2> QED
    BY <2>1, <2>2
<1> QED
  BY <1>2, <1>4, <1>5, <1>6, <1>7, <1>8, <1>9 DEF Delivered

-----------------------------------------------------------------------------
(* Types.                                                                  *)

LEMMA TypeInit ==
  ASSUME Init
  PROVE  TypeOK /\ WorkerInv /\ \A u \in Deployed : child[u].deployment \in Templates
<1>1. PICK v \in Version : function = [u \in Unit |-> IF u \in Deployed THEN v ELSE None]
  BY DEF Init
<1>2. function \in [Unit -> Version \cup {None}]
  BY <1>1
<1>3. \A u \in Deployed : u \in Unit /\ source[u] \in Version
  BY <1>1, DeployedAssumption DEF Init
<1>4. \A u \in Deployed :
         child[u] = [endpoints |-> Peers(function, u),
                     deployment |-> [peers |-> Peers(function, u), src |-> source[u]],
                     service |-> "present"]
  BY <1>3 DEF Init
<1>5. \A u \in Deployed : /\ child[u].endpoints \in SUBSET Unit
                          /\ child[u].deployment \in Templates
                          /\ child[u] \in Children
  <2> TAKE u \in Deployed
  <2>1. Peers(function, u) \in SUBSET Unit /\ source[u] \in Version
    BY <1>3, PeersAre
  <2>2. [peers |-> Peers(function, u), src |-> source[u]] \in Templates
    BY <2>1 DEF Templates
  <2>3. child[u] = [endpoints |-> Peers(function, u),
                    deployment |-> [peers |-> Peers(function, u), src |-> source[u]],
                    service |-> "present"]
    BY <1>4
  <2>4. child[u].endpoints \in SUBSET Unit /\ child[u].deployment \in Templates
    BY <2>1, <2>2, <2>3
  <2>5. child[u] \in Children
    BY <2>1, <2>2, <2>3 DEF Children
  <2> QED
    BY <2>4, <2>5
<1>6. child \in [Unit -> Children]
  <2>1. NoChildren \in Children
    BY DEF NoChildren, Children, Kinds
  <2> QED
    BY <1>5, <2>1 DEF Init
<1>7. \A u \in Deployed : pod[u] \in Pods
  BY <1>3, <1>5 DEF Init, Pods
<1>8. pod \in [Unit -> Pods \cup {None}]
  BY <1>7 DEF Init
<1>9. worker \in Workers /\ WorkerInv
  BY DEF Init, Idle, Workers, Steps, WorkerInv
<1>10. counts \in [changes : 0 .. MaxChanges, faults : 0 .. MaxFaults]
  BY BoundsAssumption DEF Init
<1> QED
  BY <1>2, <1>5, <1>6, <1>8, <1>9, <1>10 DEF Init, TypeOK

\* The bounds are kept.
LEMMA CountsStep ==
  ASSUME TypeOK, [Next]_vars
  PROVE  counts' \in [changes : 0 .. MaxChanges, faults : 0 .. MaxFaults]
<1> USE BoundsAssumption
<1>1. CASE UNCHANGED counts
  BY <1>1 DEF TypeOK
<1>2. CASE Change
  BY <1>2 DEF Change, TypeOK
<1>3. CASE Fault
  BY <1>3 DEF Fault, TypeOK
<1>4. UNCHANGED counts \/ Change \/ Fault
  BY DEF Next, vars, Work, Api, Kubernetes, Sync, Reconcile, ReconcileEndpointConfigMap,
         ReconcileDeployment, ReconcileService, ListAll, ItemMap, ItemDeployment, UpdateStatus,
         PutSource, PutFunction, RemoveFunction, RemoveMaps, Collect, RollOut, ReplacePod,
         SyncFunction, SyncSource, SyncChild, Restart, CallFails, others
<1> QED
  BY <1>1, <1>2, <1>3, <1>4

\* A new state of the worker is one of those it may be in.
LEMMA WorkerStep ==
  ASSUME TypeOK, WorkerInv, [Next]_vars
  PROVE  worker' \in Workers /\ WorkerInv'
<1> USE DEF Workers, Steps, WorkerInv
<1>1. Idle \in Workers /\ Idle.at = "idle"
  BY DEF Idle
<1>2. AfterLoop \in Workers /\ AfterLoop.at \in {"status", "idle"}
      /\ (AfterLoop.at = "status" => AfterLoop.req = worker.req)
  BY <1>1 DEF AfterLoop, TypeOK, Idle
<1>3. ToRefresh \subseteq Unit
  BY DEF ToRefresh, Listed
<1>4. CASE UNCHANGED worker
  BY <1>4 DEF TypeOK
<1>5. ASSUME worker' = Idle PROVE worker' \in Workers /\ WorkerInv'
  BY <1>1, <1>5
<1>6. ASSUME NEW u \in Unit, Reconcile(u) PROVE worker' \in Workers /\ WorkerInv'
  <2>1. worker' = [at |-> IF fnCache[u] = None THEN "list" ELSE "map", req |-> u,
                   found |-> fnCache[u] # None, items |-> {}, item |-> None]
    BY <1>6 DEF Reconcile, Idle
  <2>2. (fnCache[u] # None) \in BOOLEAN
    OBVIOUS
  <2>3. (IF fnCache[u] = None THEN "list" ELSE "map") \in {"list", "map"}
    OBVIOUS
  <2>4. worker' \in Workers
    BY <2>1, <2>2, <2>3
  <2>5. worker'.req = u /\ worker'.at \in {"list", "map"}
    BY <2>1, <2>3
  <2> QED
    BY <2>4, <2>5
<1>7. CASE ListAll
  BY <1>2, <1>3, <1>7 DEF ListAll, TypeOK
<1>8. CASE ReconcileEndpointConfigMap
  <2>1. worker' \in {[worker EXCEPT !.at = "deployment"], Idle} /\ worker.at # "idle"
    BY <1>8, StepsWrite DEF Written, ReconcileEndpointConfigMap
  <2> QED
    BY <1>5, <2>1 DEF TypeOK
<1>9. CASE ReconcileDeployment
  <2>1. worker' \in {[worker EXCEPT !.at = "service"], Idle} /\ worker.at # "idle"
    BY <1>9, StepsWrite DEF Written, ReconcileDeployment
  <2> QED
    BY <1>5, <2>1 DEF TypeOK
<1>10. CASE ReconcileService
  <2>1. worker' \in {[worker EXCEPT !.at = "list"], Idle} /\ worker.at # "idle"
    BY <1>10, StepsWrite DEF Written, ReconcileService
  <2> QED
    BY <1>5, <2>1 DEF TypeOK
<1>11. CASE ItemMap
  <2>1. PICK u \in worker.items :
           worker' \in {[worker EXCEPT !.at = "item deployment", !.item = u, !.items = @ \ {u}],
                        Idle}
    BY <1>11, StepsWrite DEF Written
  <2>2. worker.at # "idle" /\ u \in Unit
    BY <1>11 DEF ItemMap, TypeOK
  <2>3. CASE worker' = [worker EXCEPT !.at = "item deployment", !.item = u, !.items = @ \ {u}]
    BY <2>2, <2>3 DEF TypeOK
  <2> QED
    BY <1>5, <2>1, <2>3
<1>12. CASE ItemDeployment
  <2>1. worker' \in {IF worker.items = {} THEN AfterLoop
                     ELSE [worker EXCEPT !.at = "item map", !.item = None], Idle}
        /\ worker.at # "idle"
    BY <1>12, StepsWrite DEF Written, ItemDeployment
  <2> QED
    BY <1>2, <1>5, <2>1 DEF TypeOK
<1>13. \/ UNCHANGED worker \/ worker' = Idle \/ \E u \in Unit : Reconcile(u)
       \/ ReconcileEndpointConfigMap \/ ReconcileDeployment \/ ReconcileService
       \/ ListAll \/ ItemMap \/ ItemDeployment
  BY DEF Next, vars, control, Work, Api, Kubernetes, Sync, UpdateStatus, CallFails, Restart,
         PutSource, PutFunction, RemoveFunction, RemoveMaps, Collect, RollOut, ReplacePod,
         StartPod, SyncFunction, SyncSource, SyncChild
<1> QED
  BY <1>4, <1>5, <1>6, <1>7, <1>8, <1>9, <1>10, <1>11, <1>12, <1>13

\* What the cluster, the caches and the queue hold stays of their types.
ObjectsOK ==
    /\ function \in [Unit -> Version \cup {None}]
    /\ source \in [Unit -> Version \cup {None}]
    /\ child \in [Unit -> Children]
    /\ pod \in [Unit -> Pods \cup {None}]
    /\ fnCache \in [Unit -> Version \cup {None}]
    /\ behind \subseteq Unit
    /\ srcCache \in [Unit -> Version \cup {None}]
    /\ childCache \in [Unit -> Children]
    /\ unseen \subseteq Kinds \X Unit
    /\ queue \subseteq Unit

\* A delivery changes one cached copy.
LEMMA DeliveredChild ==
  ASSUME TypeOK, NEW kind \in Kinds, NEW u \in Unit, SyncChild(kind, u)
  PROVE  /\ childCache' \in [Unit -> Children]
         /\ ChildCacheInv => ChildCacheInv'
<1>1. childCache' = [childCache EXCEPT ![u] = [childCache[u] EXCEPT ![kind] = child[u][kind]]]
  BY DEF SyncChild
<1>2. childCache[u] \in Children /\ child[u] \in Children
  BY DEF TypeOK
<1>3. \A k \in Kinds :
         childCache'[u][k] = IF k = kind THEN child[u][kind] ELSE childCache[u][k]
  BY <1>1, <1>2, ChildrenAre DEF TypeOK
<1>4. childCache'[u] = [k \in Kinds |-> childCache'[u][k]]
  BY <1>1, <1>2, ChildrenAre DEF TypeOK
<1>5. childCache'[u] \in Children
  BY <1>2, <1>3, <1>4, ChildrenAre
<1>6. childCache' \in [Unit -> Children]
  BY <1>1, <1>5 DEF TypeOK
<1>7. \A v \in Unit : v # u => childCache'[v] = childCache[v]
  BY <1>1 DEF TypeOK
<1>8. child' = child /\ unseen' = unseen \ {<<kind, u>>}
  BY DEF SyncChild, cluster
<1> QED
  BY <1>3, <1>6, <1>7, <1>8 DEF ChildCacheInv

LEMMA OutsideStep ==
  ASSUME TypeOK, NEW u \in Unit, Api(u) \/ Kubernetes(u) \/ Sync(u)
  PROVE  ObjectsOK'
<1> USE DEF cluster, caches, control
<1>1. ObjectsOK
  BY DEF TypeOK, ObjectsOK
<1>2. CASE PutSource(u)
  BY <1>1, <1>2 DEF PutSource, ObjectsOK
<1>3. CASE PutFunction(u)
  BY <1>1, <1>3 DEF PutFunction, ObjectsOK
<1>4. CASE RemoveFunction(u)
  BY <1>1, <1>4 DEF RemoveFunction, ObjectsOK
<1>5. CASE RemoveMaps(u)
  <2>1. Removes(u)
    BY <1>5 DEF RemoveMaps, Removes
  <2> QED
    BY <1>1, <1>5, <2>1, RemovedChildren DEF RemoveMaps, ObjectsOK
<1>6. CASE Collect(u)
  <2>1. Removes(u)
    BY <1>6 DEF Collect, Removes
  <2> QED
    BY <1>1, <1>6, <2>1, RemovedChildren DEF Collect, ObjectsOK
<1>7. CASE StartPod(u)
  <2>1. UNCHANGED <<function, source, fnCache, behind, srcCache>>
    BY <1>7 DEF StartPod
  <2> QED
    BY <1>1, <1>7, <2>1, StartedPod DEF ObjectsOK
<1>8. CASE SyncFunction(u)
  BY <1>1, <1>8 DEF SyncFunction, ObjectsOK
<1>9. CASE SyncSource(u)
  BY <1>1, <1>9 DEF SyncSource, ObjectsOK
<1>10. ASSUME NEW kind \in Kinds, SyncChild(kind, u) PROVE ObjectsOK'
  BY <1>1, <1>10, DeliveredChild DEF SyncChild, ObjectsOK
<1> QED
  BY <1>2, <1>3, <1>4, <1>5, <1>6, <1>7, <1>8, <1>9, <1>10
     DEF Api, Kubernetes, Sync, RollOut, ReplacePod

LEMMA OperatorStep ==
  ASSUME TypeOK, WorkerInv, Work \/ Restart
  PROVE  ObjectsOK'
<1> USE DEF cluster, caches
<1>1. ObjectsOK
  BY DEF TypeOK, ObjectsOK
<1>2. worker.at # "idle" => worker.req \in Unit
  BY DEF WorkerInv
<1>3. ASSUME NEW u \in Unit, Reconcile(u) PROVE ObjectsOK'
  BY <1>1, <1>3 DEF Reconcile, ObjectsOK
<1>4. CASE Writing
  BY <1>1, <1>4, WritingIs DEF others, ObjectsOK
<1>5. CASE ListAll
  BY <1>1, <1>5 DEF ListAll, ObjectsOK
<1>6. CASE UpdateStatus
  BY <1>1, <1>2, <1>6 DEF UpdateStatus, ObjectsOK
<1>7. CASE CallFails
  BY <1>1, <1>2, <1>7 DEF CallFails, ObjectsOK
<1>8. CASE Restart
  BY <1>1, <1>8 DEF Restart, ObjectsOK
<1> QED
  BY <1>3, <1>4, <1>5, <1>6, <1>7, <1>8 DEF Work, Writing

LEMMA TypeStep ==
  ASSUME TypeOK, WorkerInv, [Next]_vars
  PROVE  TypeOK' /\ WorkerInv'
<1>1. ObjectsOK'
  <2>1. CASE UNCHANGED vars
    BY <2>1 DEF TypeOK, ObjectsOK, vars, cluster, caches, control
  <2> QED
    BY <2>1, OutsideStep, OperatorStep DEF Next
<1> QED
  BY <1>1, WorkerStep, CountsStep DEF TypeOK, ObjectsOK

-----------------------------------------------------------------------------
(* Groups.                                                                 *)

LEMMA GroupStep ==
  ASSUME TypeOK, WorkerInv, GroupInv, [Next]_vars
  PROVE  GroupInv'
<1> USE DEF cluster
<1>1. ASSUME UNCHANGED pod, \A v \in Unit : child'[v].endpoints \in {child[v].endpoints, None}
      PROVE  GroupInv'
  BY <1>1 DEF GroupInv
<1>2. ASSUME NEW u \in Unit, RemoveMaps(u) \/ Collect(u) PROVE GroupInv'
  <2>1. \A v \in Unit : child'[v].endpoints \in {child[v].endpoints, None}
    BY <1>2, RemovedChildren DEF RemoveMaps, Collect, Removes
  <2>2. \A v \in Unit : pod'[v] \in {pod[v], None}
    BY <1>2 DEF RemoveMaps, Collect, TypeOK
  <2> QED
    BY <2>1, <2>2 DEF GroupInv
<1>3. ASSUME NEW u \in Unit, StartPod(u) PROVE GroupInv'
  BY <1>3 DEF StartPod, Startable, GroupInv, TypeOK
<1>4. ASSUME NEW u \in Unit, NEW wanted, NEW next, UNCHANGED pod,
             \/ Written("endpoints", u, Peers(fnCache, u), next)
             \/ Written("deployment", u, wanted, next)
             \/ Written("service", u, wanted, next)
      PROVE  GroupInv'
  <2>1. \A v \in Unit : \/ child'[v].endpoints = child[v].endpoints
                        \/ child'[v].endpoints = Peers(fnCache, v)
    <3>1. child \in [Unit -> Children]
      BY DEF TypeOK
    <3>2. CASE Written("endpoints", u, Peers(fnCache, u), next)
      BY <3>1, <3>2 DEF Written, Children
    <3>3. CASE Written("deployment", u, wanted, next)
      BY <3>1, <3>3 DEF Written, Children
    <3>4. CASE Written("service", u, wanted, next)
      BY <3>1, <3>4 DEF Written, Children
    <3> QED
      BY <1>4, <3>2, <3>3, <3>4
  <2>2. ASSUME NEW v \in Unit, GroupOf[v] # NoGroup, child'[v].endpoints # None,
               NEW x \in child'[v].endpoints
        PROVE  GroupOf[x] = GroupOf[v]
    BY <2>1, <2>2, PeersAre DEF GroupInv
  <2> QED
    BY <1>4, <2>2 DEF GroupInv
<1>5. CASE ReconcileEndpointConfigMap \/ ReconcileDeployment \/ ReconcileService
  <2>1. worker.req \in Unit /\ UNCHANGED pod
    BY <1>5 DEF ReconcileEndpointConfigMap, ReconcileDeployment, ReconcileService,
                WorkerInv, others
  <2> QED
    BY <1>4, <1>5, <2>1, StepsWrite
<1>6. CASE ItemMap
  <2>1. \A u \in worker.items : u \in Unit
    BY DEF TypeOK, Workers
  <2>2. UNCHANGED pod
    BY <1>6 DEF ItemMap, others
  <2> QED
    BY <1>4, <1>6, <2>1, <2>2, StepsWrite
<1>7. CASE ItemDeployment
  <2>1. worker.item \in Unit /\ UNCHANGED pod
    BY <1>7 DEF ItemDeployment, WorkerInv, others
  <2> QED
    BY <1>4, <1>7, <2>1, StepsWrite
<1>8. \/ UNCHANGED <<child, pod>>
      \/ ReconcileEndpointConfigMap \/ ReconcileDeployment \/ ReconcileService
      \/ ItemMap \/ ItemDeployment
      \/ \E u \in Unit : RemoveMaps(u) \/ Collect(u) \/ StartPod(u)
  BY DEF Next, vars, Work, Api, Kubernetes, Sync, Reconcile, ListAll, UpdateStatus,
         CallFails, Restart, PutSource, PutFunction, RemoveFunction, RollOut, ReplacePod,
         SyncFunction, SyncSource, SyncChild
<1> QED
  BY <1>1, <1>2, <1>3, <1>5, <1>6, <1>7, <1>8

-----------------------------------------------------------------------------
(* The cache.                                                              *)

LEMMA CacheStep ==
  ASSUME TypeOK, CacheInv, [Next]_vars
  PROVE  CacheInv'
<1> USE DEF cluster, caches
<1>1. CASE UNCHANGED <<function, fnCache, behind>>
  BY <1>1 DEF CacheInv
<1>2. ASSUME NEW u \in Unit, PutFunction(u) \/ RemoveFunction(u) PROVE CacheInv'
  BY <1>2 DEF PutFunction, RemoveFunction, CacheInv, TypeOK
<1>3. ASSUME NEW u \in Unit, SyncFunction(u) PROVE CacheInv'
  BY <1>3 DEF SyncFunction, CacheInv, TypeOK
<1>4. CASE Restart
  BY <1>4 DEF Restart, CacheInv
<1>5. \/ UNCHANGED <<function, fnCache, behind>> \/ Restart
      \/ \E u \in Unit : PutFunction(u) \/ RemoveFunction(u) \/ SyncFunction(u)
  BY DEF Next, vars, Work, Api, Kubernetes, Sync, Reconcile, ReconcileEndpointConfigMap,
         ReconcileDeployment, ReconcileService, ListAll, ItemMap, ItemDeployment,
         UpdateStatus, CallFails, PutSource, RemoveMaps, Collect, RollOut, ReplacePod,
         StartPod, SyncSource, SyncChild, others
<1> QED
  BY <1>1, <1>2, <1>3, <1>4, <1>5

LEMMA ChildCacheStep ==
  ASSUME TypeOK, WorkerInv, ChildCacheInv, [Next]_vars
  PROVE  ChildCacheInv'
<1> USE DEF cluster, caches
<1>1. CASE UNCHANGED <<child, childCache, unseen>>
  BY <1>1 DEF ChildCacheInv
<1>2. CASE Writing
  BY <1>2, WritingIs
<1>3. ASSUME NEW u \in Unit, RemoveMaps(u) \/ Collect(u) PROVE ChildCacheInv'
  BY <1>3, RemovedChildren DEF RemoveMaps, Collect, Removes
<1>4. ASSUME NEW u \in Unit, StartPod(u) PROVE ChildCacheInv'
  BY <1>4, StartedPod
<1>5. ASSUME NEW u \in Unit, NEW kind \in Kinds, SyncChild(kind, u) PROVE ChildCacheInv'
  BY <1>5, DeliveredChild
<1>6. CASE Restart
  BY <1>6 DEF Restart, ChildCacheInv
<1>7. \/ UNCHANGED <<child, childCache, unseen>> \/ Writing \/ Restart
      \/ \E u \in Unit : \/ RemoveMaps(u) \/ Collect(u) \/ StartPod(u)
                         \/ \E kind \in Kinds : SyncChild(kind, u)
  BY DEF Next, vars, Work, Writing, Api, Kubernetes, Sync, Reconcile, ListAll, UpdateStatus,
         CallFails, PutSource, PutFunction, RemoveFunction, RollOut, ReplacePod,
         SyncFunction, SyncSource
<1> QED
  BY <1>1, <1>2, <1>3, <1>4, <1>5, <1>6, <1>7

-----------------------------------------------------------------------------
(* The refresh.                                                            *)

LEMMA RefreshStep ==
  ASSUME TypeOK, WorkerInv, ChildCacheInv, RefreshInv, [Next]_vars
  PROVE  RefreshInv'
<1> USE DEF cluster, caches, control
<1>1. CASE Stirred'
  BY <1>1 DEF RefreshInv, ToCome
<1>2. ASSUME worker'.at \in {"map", "deployment", "service", "list"} PROVE RefreshInv'
  BY <1>2 DEF RefreshInv, ToCome
<1>3. ASSUME UNCHANGED <<fnCache, child, worker>>, ~Stirred PROVE RefreshInv'
  BY <1>3 DEF RefreshInv, ToCome, MapRight, DeploymentRight, Peers, Listed
<1>4. ASSUME Stirred, queue \subseteq queue', unseen \subseteq unseen' PROVE RefreshInv'
  BY <1>1, <1>4 DEF Stirred
<1>5. ASSUME NEW u \in Unit, Reconcile(u) PROVE RefreshInv'
  BY <1>2, <1>5 DEF Reconcile, Idle
<1>6. CASE ReconcileEndpointConfigMap \/ ReconcileDeployment \/ ReconcileService
  <2>1. \/ Stirred'
        \/ worker' \in {[worker EXCEPT !.at = "deployment"], [worker EXCEPT !.at = "service"],
                        [worker EXCEPT !.at = "list"]}
    BY <1>6, StepsWrite DEF Written
  <2> QED
    BY <1>1, <1>2, <2>1 DEF TypeOK, Workers
<1>7. CASE ListAll
  <2>1. /\ worker.at = "list"
        /\ UNCHANGED <<queue, unseen, fnCache, child>>
        /\ worker' = IF ToRefresh = {} THEN AfterLoop
                     ELSE [worker EXCEPT !.at = "item map", !.items = ToRefresh]
    BY <1>7 DEF ListAll
  <2>2. Listed(fnCache)' = Listed(fnCache) /\ ToRefresh = Listed(fnCache)
    BY <2>1 DEF Listed, ToRefresh
  <2>3. ToRefresh # {} => worker'.at = "item map" /\ worker'.items = ToRefresh
    BY <2>1 DEF TypeOK, Workers
  <2> QED
    BY <2>2, <2>3 DEF RefreshInv, ToCome
<1>8. CASE ItemMap
  <2>1. PICK u \in worker.items :
           Written("endpoints", u, Peers(fnCache, u),
                   [worker EXCEPT !.at = "item deployment", !.item = u, !.items = @ \ {u}])
    BY <1>8, StepsWrite
  <2>2. u \in Unit /\ UNCHANGED fnCache /\ worker.at = "item map"
    BY <1>8 DEF ItemMap, others, TypeOK, Workers
  <2>3. SUFFICES ASSUME ~Stirred' PROVE RefreshInv'
    BY <1>1
  <2>4. /\ worker' = [worker EXCEPT !.at = "item deployment", !.item = u, !.items = @ \ {u}]
        /\ childCache[u].endpoints = Peers(fnCache, u)
        /\ UNCHANGED <<child, childCache, unseen, queue>>
    BY <2>1, <2>3 DEF Written
  <2>5. /\ worker'.at = "item deployment" /\ worker'.item = u
        /\ worker'.items = worker.items \ {u}
    BY <2>4 DEF TypeOK, Workers
  <2>6. unseen = {} /\ queue = {}
    BY <2>3, <2>4 DEF Stirred
  <2>7. MapRight(u)'
    BY <2>2, <2>4, <2>6 DEF ChildCacheInv, Kinds, MapRight, Peers, Listed
  <2>8. ASSUME NEW v \in Listed(fnCache)
        PROVE  ToCome(v)' \/ (MapRight(v)' /\ DeploymentRight(v)')
    <3>1. CASE v = u
      BY <2>5, <2>7, <3>1 DEF ToCome
    <3>2. CASE v \in worker.items /\ v # u
      BY <2>5, <3>2 DEF ToCome
    <3>3. CASE MapRight(v) /\ DeploymentRight(v)
      BY <2>2, <2>4, <3>3 DEF MapRight, DeploymentRight, Peers, Listed
    <3> QED
      BY <2>2, <2>6, <3>1, <3>2, <3>3 DEF RefreshInv, ToCome, Stirred
  <2> QED
    BY <2>2, <2>8 DEF RefreshInv, Listed
<1>9. CASE ItemDeployment
  <2>1. /\ worker.at = "item deployment" /\ worker.item \in Unit /\ UNCHANGED fnCache
        /\ Written("deployment", worker.item, Template(worker.item),
                   IF worker.items = {} THEN AfterLoop
                   ELSE [worker EXCEPT !.at = "item map", !.item = None])
    BY <1>9, StepsWrite DEF ItemDeployment, WorkerInv, others
  <2>2. SUFFICES ASSUME ~Stirred' PROVE RefreshInv'
    BY <1>1
  <2>3. /\ childCache[worker.item].deployment = Template(worker.item)
        /\ worker' = IF worker.items = {} THEN AfterLoop
                     ELSE [worker EXCEPT !.at = "item map", !.item = None]
        /\ UNCHANGED <<child, childCache, unseen, queue>>
    BY <2>1, <2>2 DEF Written
  <2>4. worker.items # {} => worker'.at = "item map" /\ worker'.items = worker.items
    BY <2>3 DEF TypeOK, Workers
  <2>5. unseen = {} /\ queue = {}
    BY <2>2, <2>3 DEF Stirred
  <2>6. DeploymentRight(worker.item)
    BY <2>1, <2>3, <2>5, TemplateIs DEF ChildCacheInv, Kinds, DeploymentRight
  <2>7. \A v \in Unit : /\ MapRight(v)' <=> MapRight(v)
                        /\ DeploymentRight(v)' <=> DeploymentRight(v)
    BY <2>1, <2>3 DEF MapRight, DeploymentRight, Peers, Listed
  <2>8. ASSUME NEW v \in Listed(fnCache)
        PROVE  ToCome(v)' \/ (MapRight(v)' /\ DeploymentRight(v)')
    <3>1. v \in Unit
      BY DEF Listed
    <3>2. CASE v \in worker.items
      BY <2>4, <3>2 DEF ToCome
    <3>3. CASE v = worker.item /\ MapRight(v)
      BY <2>6, <2>7, <3>1, <3>3
    <3>4. CASE MapRight(v) /\ DeploymentRight(v)
      BY <2>7, <3>1, <3>4
    <3> QED
      BY <2>1, <2>5, <3>2, <3>3, <3>4 DEF RefreshInv, ToCome, Stirred
  <2> QED
    BY <2>1, <2>8 DEF RefreshInv, Listed
<1>10. CASE UpdateStatus
  <2>1. worker.at = "status" /\ queue \subseteq queue' /\ UNCHANGED <<fnCache, child, unseen>>
    BY <1>10 DEF UpdateStatus
  <2>2. CASE Stirred
    BY <1>4, <2>1, <2>2
  <2>3. CASE ~Stirred
    BY <2>1, <2>3 DEF RefreshInv, ToCome, MapRight, DeploymentRight, Peers, Listed
  <2> QED
    BY <2>2, <2>3
<1>11. CASE CallFails
  BY <1>1, <1>11 DEF CallFails, Stirred
<1>12. CASE Restart
  BY <1>1, <1>12 DEF Restart, RefreshInv, Listed, Stirred
<1>13. ASSUME NEW u \in Unit, StartPod(u) PROVE RefreshInv'
  BY <1>1, <1>13, StartedPod
<1>14. ASSUME NEW u \in Unit,
              SyncFunction(u) \/ \E kind \in Kinds : SyncChild(kind, u)
       PROVE  RefreshInv'
  BY <1>1, <1>14 DEF SyncFunction, SyncChild, Stirred
<1>15. ASSUME NEW u \in Unit, RemoveMaps(u) \/ Collect(u) PROVE RefreshInv'
  <2>1. Removes(u) /\ UNCHANGED <<fnCache, worker>>
    BY <1>15 DEF RemoveMaps, Collect, Removes
  <2>2. child' = child \/ Stirred'
    BY <2>1, RemovedChildren
  <2>3. CASE child' = child /\ ~Stirred
    BY <1>3, <2>1, <2>3
  <2>4. CASE child' = child /\ Stirred
    BY <1>1, <2>1, <2>4, RemovedChildren
  <2> QED
    BY <1>1, <2>2, <2>3, <2>4
<1>16. ASSUME UNCHANGED <<fnCache, child, worker, queue, unseen>> PROVE RefreshInv'
  BY <1>3, <1>4, <1>16
<1>17. ASSUME NEW u \in Unit,
              PutSource(u) \/ PutFunction(u) \/ RemoveFunction(u) \/ SyncSource(u)
       PROVE  RefreshInv'
  BY <1>16, <1>17 DEF PutSource, PutFunction, RemoveFunction, SyncSource
<1>18. CASE UNCHANGED vars
  BY <1>16, <1>18 DEF vars
<1> QED
  BY <1>5, <1>6, <1>7, <1>8, <1>9, <1>10, <1>11, <1>12, <1>13, <1>14, <1>15, <1>17, <1>18
     DEF Next, Work, Api, Kubernetes, Sync, RollOut, ReplacePod

-----------------------------------------------------------------------------
(* The Services.                                                           *)

LEMMA ServiceStep ==
  ASSUME TypeOK, WorkerInv, ChildCacheInv, ServiceInv, [Next]_vars
  PROVE  ServiceInv'
<1> USE DEF cluster, caches, control
<1>1. ASSUME UNCHANGED fnCache,
             \A u \in Unit : child[u].service = "present" \/ ServiceToCome(u)
                                => child'[u].service = "present" \/ ServiceToCome(u)'
      PROVE  ServiceInv'
  BY <1>1 DEF ServiceInv, Listed
<1>2. ASSUME UNCHANGED <<fnCache, worker, child>>, queue \subseteq queue',
             \A u \in Unit : <<"service", u>> \in unseen => <<"service", u>> \in unseen'
      PROVE  ServiceInv'
  BY <1>1, <1>2 DEF ServiceToCome
<1>3. ASSUME NEW u \in Unit, Reconcile(u) PROVE ServiceInv'
  BY <1>3 DEF Reconcile, Idle, ServiceInv, ServiceToCome, Listed
<1>4. ASSUME NEW u \in Unit, NEW kind \in {"endpoints", "deployment"}, NEW wanted, NEW next,
             Written(kind, u, wanted, next), UNCHANGED fnCache,
             \/ worker.at \notin {"map", "deployment", "service"}
             \/ next.req = worker.req /\ next.at \in {"deployment", "service"}
      PROVE  ServiceInv'
  <2>1. \A v \in Unit : child'[v].service = child[v].service
    BY <1>4 DEF Written, TypeOK, Children
  <2>2. \A v \in Unit : /\ v \in queue => v \in queue'
                        /\ <<"service", v>> \in unseen => <<"service", v>> \in unseen'
    BY <1>4 DEF Written, Kinds
  <2>3. worker' = next \/ worker.req \in queue'
    BY <1>4 DEF Written
  <2> QED
    BY <1>1, <1>4, <2>1, <2>2, <2>3 DEF ServiceToCome
<1>5. CASE ReconcileEndpointConfigMap
  BY <1>4, <1>5, StepsWrite DEF ReconcileEndpointConfigMap, WorkerInv, others, TypeOK, Workers
<1>6. CASE ReconcileDeployment
  BY <1>4, <1>6, StepsWrite DEF ReconcileDeployment, WorkerInv, others, TypeOK, Workers
<1>7. CASE ItemMap
  BY <1>4, <1>7, StepsWrite DEF ItemMap, others, TypeOK, Workers
<1>8. CASE ItemDeployment
  BY <1>4, <1>8, StepsWrite DEF ItemDeployment, WorkerInv, others
<1>9. CASE ReconcileService
  <2>1. /\ Written("service", worker.req, "present", [worker EXCEPT !.at = "list"])
        /\ UNCHANGED fnCache /\ worker.req \in Unit /\ worker.at = "service"
    BY <1>9, StepsWrite DEF ReconcileService, WorkerInv, others
  <2>2. ASSUME NEW v \in Unit, v # worker.req
        PROVE  /\ child'[v].service = child[v].service
               /\ v \in queue => v \in queue'
               /\ <<"service", v>> \in unseen => <<"service", v>> \in unseen'
    BY <2>1, <2>2 DEF Written, TypeOK, Kinds
  <2>3. child[worker.req] \in Children
    BY <2>1 DEF TypeOK
  <2>4. CASE worker' = Idle /\ worker.req \in queue'
    BY <1>1, <2>1, <2>2, <2>4 DEF ServiceToCome, Idle
  <2>5. CASE child' = [child EXCEPT ![worker.req] = [child[worker.req] EXCEPT !.service = "present"]]
    <3>1. child'[worker.req].service = "present"
      BY <2>1, <2>3, <2>5 DEF TypeOK, Children
    <3> QED
      BY <1>1, <2>1, <2>2, <3>1 DEF ServiceToCome
  <2>6. CASE childCache[worker.req].service = "present"
             /\ UNCHANGED <<child, childCache, unseen, queue>>
    <3>1. child[worker.req].service = "present" \/ <<"service", worker.req>> \in unseen
      BY <2>1, <2>6 DEF ChildCacheInv, Kinds
    <3> QED
      BY <1>1, <2>1, <2>2, <2>6, <3>1 DEF ServiceToCome
  <2> QED
    BY <1>9, <2>4, <2>5, <2>6 DEF ReconcileService, CreateOrUpdate
<1>10. CASE ListAll \/ UpdateStatus
  BY <1>1, <1>10 DEF ListAll, UpdateStatus, ServiceToCome
<1>11. CASE CallFails
  BY <1>1, <1>11 DEF CallFails, ServiceToCome
<1>12. CASE Restart
  BY <1>12 DEF Restart, ServiceInv, ServiceToCome, Listed
<1>13. ASSUME NEW u \in Unit, RemoveMaps(u) \/ Collect(u) PROVE ServiceInv'
  <2>1. Removes(u) /\ UNCHANGED <<fnCache, worker>>
    BY <1>13 DEF RemoveMaps, Collect, Removes
  <2> QED
    BY <1>1, <2>1, RemovedChildren DEF ServiceToCome
<1>14. ASSUME NEW u \in Unit, StartPod(u) PROVE ServiceInv'
  <2>1. UNCHANGED <<fnCache, worker>>
    BY <1>14 DEF StartPod
  <2> QED
    BY <1>2, <1>14, <2>1, StartedPod
<1>15. ASSUME NEW u \in Unit, SyncFunction(u) PROVE ServiceInv'
  BY <1>15 DEF SyncFunction, ServiceInv, ServiceToCome, Listed, TypeOK
<1>16. ASSUME NEW u \in Unit, NEW kind \in Kinds, SyncChild(kind, u) PROVE ServiceInv'
  BY <1>1, <1>16 DEF SyncChild, ServiceToCome
<1>17. ASSUME NEW u \in Unit,
              PutSource(u) \/ PutFunction(u) \/ RemoveFunction(u) \/ SyncSource(u)
       PROVE  ServiceInv'
  BY <1>2, <1>17 DEF PutSource, PutFunction, RemoveFunction, SyncSource
<1>18. CASE UNCHANGED vars
  BY <1>2, <1>18 DEF vars
<1> QED
  BY <1>3, <1>5, <1>6, <1>7, <1>8, <1>9, <1>10, <1>11, <1>12, <1>13, <1>14, <1>15, <1>16,
     <1>17, <1>18
     DEF Next, Work, Api, Kubernetes, Sync, RollOut, ReplacePod

-----------------------------------------------------------------------------
(* The theorems.                                                           *)

LEMMA InitInv == Init => IInv
<1> SUFFICES ASSUME Init PROVE IInv
  OBVIOUS
<1>1. TypeOK /\ WorkerInv
  BY TypeInit
<1>2. CacheInv /\ ChildCacheInv
  BY DEF Init, CacheInv, ChildCacheInv
<1>3. \A u \in Deployed : /\ child[u].endpoints = Peers(function, u)
                          /\ pod[u].peers = Peers(function, u)
                          /\ child[u].deployment.peers = Peers(function, u)
                          /\ child[u].service = "present"
  BY DeployedAssumption DEF Init
<1>4. \A u \in Unit \ Deployed : child[u].endpoints = None /\ pod[u] = None
  BY DEF Init, NoChildren, Kinds
<1>5. GroupInv
  <2>1. ASSUME NEW u \in Unit, u \in Deployed, GroupOf[u] # NoGroup, NEW v \in Peers(function, u)
        PROVE  GroupOf[v] = GroupOf[u]
    BY <2>1, PeersAre
  <2> QED
    BY <1>3, <1>4, <2>1 DEF GroupInv
<1>6. fnCache = function /\ Listed(function) \subseteq Deployed
  BY DEF Init, Listed
<1>7. \A u \in Deployed : child[u].deployment # None
  BY TypeInit, NoneAssumption
<1>8. RefreshInv /\ ServiceInv
  BY <1>3, <1>6, <1>7 DEF RefreshInv, ServiceInv, MapRight, DeploymentRight
<1> QED
  BY <1>1, <1>2, <1>5, <1>8 DEF IInv

\* Every reachable state of the cluster, the caches, the queue and the worker
\* satisfies IInv, whatever order changes, cache updates, failed calls and
\* restarts come in.
THEOREM InductiveInvariant == Spec => []IInv
<1>1. IInv /\ [Next]_vars => IInv'
  BY TypeStep, GroupStep, CacheStep, ChildCacheStep, RefreshStep, ServiceStep DEF IInv
<1> QED
  BY <1>1, InitInv, PTL DEF Spec

\* The state is of its types.
THEOREM TypeCorrect == Spec => []TypeOK
<1>1. IInv => TypeOK
  BY DEF IInv
<1> QED
  BY <1>1, InductiveInvariant, PTL

\* Neither the ConfigMap of a Function that has an id nor the one its pod mounted
\* ever lists a Function of another id or of none (SameDeployGroup in
\* generateEndpoints; README.md:48).
THEOREM IsolationCorrect == Spec => []Isolation
<1>1. IInv => Isolation
  BY DEF IInv, GroupInv, Isolation
<1> QED
  BY <1>1, InductiveInvariant, PTL

\* Once nothing is queued or still to be delivered and the worker is idle, every Function has its
\* Service and lists exactly its peers, in the ConfigMap and in the hash of its
\* Deployment (reconcileAllEndpointMaps in every Reconcile).
THEOREM ChildrenConvergeCorrect == Spec => []ChildrenConverge
<1>1. IInv => ChildrenConverge
  <2> SUFFICES ASSUME IInv, Quiet, NEW u \in Listed(function)
               PROVE  /\ child[u].endpoints = Peers(function, u)
                      /\ child[u].deployment # None
                      /\ child[u].deployment.peers = Peers(function, u)
                      /\ child[u].service = "present"
    BY DEF ChildrenConverge
  <2>1. fnCache = function
    BY DEF IInv, TypeOK, CacheInv, Quiet
  <2>2. queue = {} /\ unseen = {} /\ worker.at = "idle"
    BY DEF Quiet, Idle
  <2>3. child[u].service = "present"
    BY <2>1, <2>2 DEF IInv, ServiceInv, ServiceToCome, Listed
  <2>4. MapRight(u) /\ DeploymentRight(u)
    BY <2>1, <2>2 DEF IInv, RefreshInv, ToCome, Stirred
  <2> QED
    BY <2>1, <2>3, <2>4 DEF MapRight, DeploymentRight
<1> QED
  BY <1>1, InductiveInvariant, PTL
=============================================================================
