# A TLA+ verification of function-mesh

function-mesh runs functions of several languages as pods on Kubernetes and
lets them call each other. A package is deployed through an HTTP API, becomes
one `Function` resource per unit, the operator turns each of those into a
Deployment with a Service and a list of peers, and the runtime in the pod
discovers the functions of its peers and serves calls.

This directory holds TLA+ modules of the parts whose correctness depends on
the order of steps, TLC configurations that check them on small instances, and
TLAPS proofs. Line numbers refer to this commit; `PROJECT.json` maps each
definition to the lines it models.

## 1. Inventory

| Part | Source | State | Operations |
|---|---|---|---|
| Runtime discovery | `src/runtime/server.js` 160-375, 568-610 | `remoteState` (pending, loaded, failed, attempts, live), `remotePassRunning`, the retry timer | listen, read the mounted endpoints, `loadRemotePass`, `/status`, `/health/ready`, restart |
| Runtime calls | `server.js` 377-566, 591-613 | `functions`, `localReady`, the listening `server`; requests in flight with their promises and timers | `/call`, `/await` with timeouts, `/inspect`, shutdown |
| Deploy and delete | `internal/api/deploy_plan.go`, `deploy.go` | `deployLocks` (memory of one process); Functions and ConfigMaps in the cluster | `deployFromSourceWithPlan`, `applyDeploymentUnits`, `deleteDeployment` |
| API handlers | `internal/api/server.go` | staging directories of uploads and clones | package create, repository add, file list, deploy create/delete, inspect, logs, forwarded calls |
| Units and planning | `deploy_plan.go` 143-370, `deploy.go`, `internal/planner` | the planner's output directory | find configurations, build legacy units, run the planner, validate and overlay its manifest, name units |
| Operator: children | `internal/controller/function_controller.go` 101-417 | none of its own; informer caches, work queue; endpoints ConfigMap, Deployment, Service per Function | `Reconcile`, `reconcileAllEndpointMaps` |
| Operator: status | `function_controller.go` 419-601 | `Function.status` | `updateStatus`, polling `/status` and `/inspect` |
| Source bundle | `internal/sourcebundle` | none | paths to ConfigMap keys and back |
| Router | `internal/router` | the route table | refresh, lookup, proxy |
| Processes, charts, monitoring | `cmd/`, `deploy/`, `internal/monitoring` | none | flags and wiring |

### How the parts interact

* A **package** arrives as an archive, a git repository or a directory of the
  server. The API server stages it, builds one unit per `metacall*.json`, may
  ask the **planner**, an external program, how to merge them into pods, encodes
  the files of each unit as the data of a ConfigMap, and removes what it staged.
* The **API server** writes, for each unit, a source ConfigMap and a Function
  through the Kubernetes API. It tells the operator nothing: the operator
  *watches* Functions and its own children. A source ConfigMap has no owner and
  is no reason for a reconcile.
* The **operator** reads Functions and source ConfigMaps from informer caches,
  which lag behind the cluster and behind each other, and writes children
  through the API. Every reconcile refreshes the children of *all* Functions,
  because a Function that joins or leaves changes what its peers must list.
* A **runtime pod** mounts its endpoints ConfigMap and its source when it
  starts and never reads them again. What has changed reaches it only by a new
  template hash, that is, a new pod.
* **Runtimes** poll each other's `/status` and `/health/ready` and load each
  other's functions with a synchronous native call, during which the loading
  runtime answers nobody.
* The **operator** polls the runtimes for the status of each Function; the
  **router** polls the Functions for its route table.

### What is hard, and what makes each part correct

| Part | Hard | Correct when |
|---|---|---|
| Discovery | blocking loads, turns taken over a network, lost requests, restarts, partial views of the group | turns are respected, no ring of blocked runtimes, the bookkeeping of peers is exact, every runtime decides |
| Deploy/delete | calls that fail with or without effect or never return, crashes, two servers, a delete that takes no lock | no Function without source, an upgrade never empties a group, success means exactly what was asked, whoever ends lets its lock go |
| Operator: children | caches that lag apart, of its own children too, two lists in one reconcile, one queue, restarts, errors | all peers are listed in the end, ids stay isolated, a change of endpoints or source restarts the pod |
| Operator: status | a pod replaced between two reads, conflicts, a runtime that announces nothing | polling stops only at the truth, the status comes to be true |
| Runtime calls | functions that run inside the event loop and call each other, a timed-out call that answers late, shutdown with calls in flight | one response per call, every call is answered, no runtime stays blocked |
| Router | a table that is made from a list which is old by then, failed refreshes, one name at several Functions | the table is right for one moment and never goes back; a call stays in the id it names |
| Units, bundle, planner | cut names, files and settings of merged units that disagree, invalid manifests, names that are reserved | every configuration runs as it was uploaded, decode inverts encode, no two units collide |
| API handlers | errors at every stage of a request that has files on the disk, an optional plan that fails | nothing stays behind, a fallback is complete, an id names itself |

`PROJECT.json` lists the single hazards with their lines.

## 2. Modules

| Module | Models | Checked by | Proved in |
|---|---|---|---|
| `Discovery` | remote discovery of all runtimes of a group | `MCDiscovery`: group, restarts, mutual_block | `DiscoveryProofs` |
| `UnitNames` | `sanitizeName`, deployment ids, unit names | through `Package` | `UnitsProofs` |
| `SourceBundle` | files as ConfigMap data and back | through `Package` | `UnitsProofs` |
| `Units` | from a file tree to units, the manifest, the merge, the validation; extends the two above | through `Package` | `UnitsProofs` |
| `Package` | the requests that bring sources, from arrival to answer; extends `Units` | `MCPackage`: package, sandbox | `PackageProofs` |
| `Deploy` | deploys and deletes on several API servers | `MCDeploy`: upgrades, delete_race | `DeployProofs` |
| `Operator` | reconcile of all Functions, children only | `MCOperator`: converges, endpoint_race, source_race | `OperatorProofs` |
| `Status` | `updateStatus` of one Function | `MCStatus`: status | `StatusProofs` |
| `RouteTable` | what a route table promises (abstract) | through `Router` | `RouterProofs` |
| `Router` | the router's refresh; implements `RouteTable` | through `Calls` | `RouterProofs` |
| `Calls` | calls from the API and the router to runtimes and between them, and the pods' ends; extends `Router` | `MCCalls`: calls | `CallsProofs` |

The MC modules only name small instances. Definitions commented "Faulty" are
mutated forms of the definition below them: replacing it by them must break a
property.

### Discovery

`pc[p]` says where pod *p* stands: `down`, `timer` (waiting for `setImmediate`
or the retry timer), `settling` (awaiting `/status` of an earlier peer),
`probing` (awaiting `/health/ready`), `loading` (event loop blocked), `done`.
`peers`, `pending`, `loaded`, `failed`, `attempts`, `live` are the fields of
`remoteState`; `todo`, `target`, `reply` the loop and the request in flight.

| Action | Code |
|---|---|
| `ListenUnreadable`, `ListenUnnamed`, `Listen` | the listen callback with `startRemoteLoading` |
| `BeginPass`, `Ask`, `EarlierSettled`, `EarlierPending` | `loadRemotePass` with `earlierRuntimesSettled` |
| `Answer`, `NoAnswer` | the peer's handlers, and an error or timeout of `getJSON`; asking and reading the reply are different steps, so that a reply can be stale when it is used |
| `BeginLoad`, `LoadDone`, `LoadFailed`, `ProbeFailed` | `remoteReady`, `loadOneRemote`, `recordRemoteFailure` |
| `CutOff` | an answer that stops in the middle: the pass hangs (`pc` is `hung`) |
| `Crash` | the end of the process: everything in memory is lost |

A pod that is `loading` or `down` answers nothing. A request to it ends only by
its timeout; one to a responsive pod may be lost within `MaxGlitches`. A peer
may also stall after the headers of its answer: then the timeout of `getJSON`
destroys the request without an error, the promise is never settled, and the
pass that awaits it hangs (`CutOff`, within `MaxCuts`). A pod that hangs still
answers its own peers, and only a restart makes it discover again. A name
may stand for several pods (replicas, a rolling update): any of them answers.
The order in which a loop visits peers is left open.

### UnitNames, SourceBundle, Units

Pure definitions, translated function by function. A name is a sequence of
characters, for it matters where it is cut; `Limit` stands for the 52
characters. A path is the sequence of its components and a tree a function from
paths to contents, of which only links and configurations are told apart from
text. `Resolve` is `filepath.Join`, `Clean` and `NormalizePath` in one: what
climbs above the root stays outside. `SourceFiles` is the bundle of one
configuration (the walk below its sources, the nearest dependency manifests,
the scripts, the configuration rewritten), `LegacyUnits` all units or
`NoUnits`, `ValidManifest` the checks of the planner's output, `PlannedUnits`
the overlay with its merges, and `ValidUnits` the last check before anything is
written. The error of a Go function is `NoUnits` or a false guard.

In `SourceBundle` a ConfigMap key is either the name itself or the digest of
the path, which no other path has. `Mounted` is what a pod finds: nothing if
the index does not describe the data.

### Package

| Action | Code |
|---|---|
| `PackageCreate`, `RepositoryAdd`, `FileList`, `DeployCreate` | the handlers of server.go up to the sources: which id, which directory |
| `Fetch`, `FetchFails` | `extractPackage`, `cloneRepository`, `unzip`, and the list of files |
| `Build` | mode and lock, `buildLegacyUnits`, the planner that is not there |
| `StartPlanner`, `PlannerAnswers`, `PlannerFails` | `ExecRunner.Plan` and the overlay; the planner may write any of the request's manifests, fail, or be killed |
| `Hold`, `LetGo` | `cmd.Run` after git or the planner was killed, while a child of it keeps the output open |
| `Validate`, `ApplyDeploymentUnits`, `ApplyFails` | the last validation, and the writes |
| `Acknowledge`, `DeployDelete` | `deploymentExists`, `deleteDeployment` |
| `Crash` | the server process ends, its disk stays |

`Run` waits until the output of the process is closed, and a killed process may
have left it to a child. Then the request hangs (`Hold`, within `MaxHeld`), a
planner's with the lock of its id, until that child ends, if it ever does.

`dirs` are the directories on the disk, owned by a request and a purpose. Two
requests interleave at every action. An apply that succeeds is one step here:
what may happen between its calls is the subject of `Deploy`, which in turn
takes units and their names as given. `Deploy` assumes that names of different
ids differ; `ShortIdsStayApart` says when they do.

### Deploy

Each request has a `pc` through the steps of its handler. The cluster is a
function from objects (Function, source ConfigMap, endpoints ConfigMap of each
unit name) to a label and a content. One Kubernetes call is one step; it may
fail without effect (`CallFails`) or after it (the `Fail` disjunct of each
write), and either ends the request and releases the lock. A call that fails is
fatal to the request in the code too: there is no retry there. The units of the
package and those of the planner are inputs; `Plan` models which are chosen:
the plan if the planner is configured, answers and its units are valid, else
the legacy units for `auto`, else a refusal. The lock is per server and per id;
a delete takes none. A crash of a server ends its requests and its locks.

`held` are the requests that stand in a call which does not return (`Hold`,
within `MaxHeld`): the planner as in `Package`, or the Kubernetes API, for
cmd/api/main.go 59 builds its client without a time limit. A deploy that is held
keeps the lock of its id. It may go on later from where it stands.

`undisturbed` and `raced` are ghosts. Two requests are *rivals* when they work
on one id and nothing keeps them apart (two servers, or a delete). Properties
that rivals can break are stated for groups that are not `raced`; a request
that succeeds undisturbed afterwards makes the group count again. What happens
to raced groups is shown by the run delete_race.

### Operator

The cluster (`function`, `source`, `child`, `pod`) and the operator's view of it
(`fnCache`, `srcCache`, `childCache`) are separate. `child[u]` are the endpoints
ConfigMap, the template annotations of the Deployment and the Service of *u*.
`SyncFunction` delivers a watch event and queues the Function, `SyncSource`
updates the cache of sources and queues nothing. A change of children, by the
operator or by Kubernetes, is delivered with an event for the owner at once, or
left for `SyncChild` (`unseen`, at most `MaxUnseen` at a time).

The worker goes through `Reconcile` one call at a time: map, Deployment (with
the hashes of a *second* list of peers and of the cached source), Service, the
list of all Functions, map and Deployment of each, status. `CreateOrUpdate`
compares what is wanted with the *cached* child: equal, it writes nothing, right
or wrong; different, it writes, unless the child has changed since, when the
write is refused and ends the Reconcile with an error (`Refused`). `CallFails`
ends a Reconcile anywhere and queues it again; `Restart` loses queue and worker
and lists everything anew. The API side writes source then Function, and deletes
Function then maps. The rest (collection of orphans, rollout, replacement of a
dead pod) is Kubernetes and marked external.

### Status

One Function, its Deployment's replicas, its pod and the caches. `Reconcile`
copies the cached Function; the copy is used until the end and a write based on
an old revision conflicts. `ReadDeployment`, `FetchRemoteStatus`,
`InspectFunctions` and `WriteStatus` are separate steps, and the pod may start,
decide, be replaced or go away between any two. `/inspect` lists functions of
the source the pod runs. `Fire` is `RequeueAfter`.

### RouteTable and Router

`routes` is the map of `Registry`, as a function from id and name to a Function
or `None`. A refresh is two steps, the list (`ListFunctions`, `ListFails`) and
the swap (`StoreRoutes`), because the cluster (`Publish`) and the calls go on
between them. `Route` says in one expression what the loop of `Refresh` leaves
behind: within an id the last exporter in list order, without an id the first,
unless a Function without id overwrites it. The list order is that of the names
(`Rank`).

`RouteTable` says nothing of that order. Its table is right for one list of
the cluster: each key leads to one of its exporters, if there is one. `Renew`
may move to any later list, never back. `Router` implements it with the ghosts
`hist` (the lists of the cluster since the one the table is made of) and `mark`
(where in `hist` the running refresh has listed).

### Calls

| Action | Code |
|---|---|
| `ForwardCall` | the API's `handleFallback` and `forwardCall` |
| `HandleCall` | the router's `handleCall`: lookup, 404 or the request to the runtime |
| `GiveUp`, `Deliver` | `httpClient.Do` in `proxy` and `forwardCall`: its timeout, or the copy of the response |
| `Receive` | both handlers of the runtime up to the function, and their 404 |
| `CallPeer`, `PeerAnswers`, `PeerFails` | the function calls a peer's through the rpc loader, with `METACALL_RPC_TIMEOUT_MS` |
| `Return`, `Throw`, `Settle`, `TimerFires` | the end of both handlers, the promise and the timer of `/await` |
| `Shutdown`, `ExitAfterShutdown`, `Kill`, `StartPod` | SIGTERM with `server.close` and the 10 s timer, a process that dies, a new pod |

`loop[u]` is the call that keeps the event loop of *u* busy. A busy loop
receives nothing, serves no peer, fires no timer and sees no signal. `response`
is what the runtime has sent, `answer` what the client got: a client of the
router gets 502 when it gives up, and the call goes on. The timer of `/call` is
set and cleared in the turn in which the function runs, so it has no action: a
function of `/call` that never returns is answered by nobody but the router.

## 3. Runs

| Run | Instance | Shows |
|---|---|---|
| group | 3 runtimes, each finds any part of the group mounted, 1 lost request, 1 answer cut off, 2 attempts | `TurnTaking`, `NoWaitCycle`, and `EventuallyDecides` |
| restarts | 2 names, 2 pods behind one, 1 restart, an unreadable configuration, a pod without name | `TypeOK`, `RetryBudget`, `VerdictMatchesPeers` hold under all of that |
| mutual_block | 2 runtimes, 1 restart | **violated**: `NoMutualBlock` |
| package | 2 requests out of 30 kinds, `Limit` 10: packages with nested sources, shared and own manifests, other settings, other languages, three services, 7 broken ones, one too large for a ConfigMap, one too large for the planner; 14 manifests; a repository, a list of files, a directory, acknowledgements and a delete; with and without a planner, 1 crash, 1 killed process whose output stays open | `TypeOK`, `StagingIsRemoved`, `EveryConfigRuns`, `BundlesOpen`, `IdNamesItself`, `ShortIdsStayApart`, `DeployedWhole`, and `RequestsAnswered` |
| sandbox | 2 planned packages with ids of 7 characters that differ in the last, `Limit` 10 | **violated**: `Sandbox` |
| upgrades | deploys of one id in modes auto, required, on (refused), with a plan too large, on 2 servers; a delete; a deploy of another id; 1 failed call, 1 crash, 1 call that does not return; one workload of up to three requests per behaviour | `TypeOK`, `FunctionHasSource`, `AcceptedOnly`, `SuccessIsExact`, `OnlyDeleteEmpties`, `EndpointsOutliveFunction`, and `EveryRequestEnds` |
| delete_race | a deploy and a delete | **violated**: `OutcomeIsSerial` |
| converges | 3 Functions (two ids, one without), 1 change, 1 fault (a failed call, a restart or a pod's death), 1 child at a time of which the cache is behind | `TypeOK`, `ChildrenConverge`, `Isolation`, and `EventuallyInMesh` |
| endpoint_race | 2 Functions, 2 changes | **violated**: `EndpointsRedeploy` |
| source_race | 1 Function, 2 sources, 1 redeploy | **violated**: `SourceRedeploys` |
| calls | 2 Functions of one id that call each other, 1 of another id with a name of theirs; a call through the router and one to a runtime, 1 change of names, 1 failed refresh, 1 pod stopped or killed | `TypeOK`, `StaysInGroup`, `RoutesAreOfOneMoment` (`Router` implements `RouteTable`), `RespondsOnce`, `EveryCallIsAnswered`, `LoopsComeFree` |
| status | 1 Function, 2 sources, 2 changes, 1 failed call, 1 further pod | `TypeOK`, `StatusConverges`, `EventuallyReported` |

### Why the bounds are enough

* *Package.* Names are cut at 10 instead of 52 characters, so that cuts fall on
  a dash, into a language, and before the suffix of a pod. Two services are
  enough for every disagreement of a merge, a third for a merge that is too
  large while its parts are not. A ConfigMap holds 8 entries of equal weight,
  the planner takes 8 files: both limits are met exactly and exceeded. Two
  requests give every order of two deployments, including one inside the other,
  and a held planner meets a request for its own id and one for another.
* *Discovery.* Turns compare pairs of names; a ring needs at least three to
  differ from a pair. Two attempts tell "retry" from "exhausted". A second lost
  request would only repeat what the first does to another peer. The proofs
  below do not depend on any of these numbers.
* *Deploy.* A race needs two requests; recovery needs a third after one that
  failed or was lost. Two units tell "some" from "all" in every loop. One fault
  ends one request, and the others then meet what it left. One held call keeps
  one lock, or none when a delete is held, while others wait, end or go on.
* *Operator.* Two Functions of one group are the smallest case in which one
  changes the other's endpoints, one of each of two ids and one of none the
  smallest for isolation. Every bounded event (change, failed call, restart,
  death) can happen at every point. Convergence is about what follows the last of
  them. The two race runs deliver changes of children at once: their violations
  need no stale child.
* *Status.* Two changes allow a deploy followed by a redeploy, a scaling to
  zero or a delete at any point of a reconcile; one further pod and one failed
  call are enough for a read that is out of date when it is written.
* *Calls.* Two calls whose functions call each other's runtime make the ring in
  which both loops are blocked. One change before, during or after a refresh
  tells a new table from an old one and from a mixture; the refinement is also
  proved for any number. One stop hits a pod at every stage of a call.

Deadlock is not checked (`CHECK_DEADLOCK FALSE`) where the system really stops:
all runtimes have decided, all requests have ended, or the operator has nothing
to do once the bounded changes are spent. That it does not stop too early is
what the liveness properties and the `Quiet`/`Unattended` invariants say.

### Fairness

* *Discovery*: the kubelet starts each pod, timers fire, every request ends by
  its timeout. Weak fairness for each pod's start and pass. Crashes and losses are not
  fair. A pass that hangs on an answer that was cut off gets no fairness: a
  runtime decides unless its own pass or that of an earlier runtime hangs, and
  `EventuallyDecides` says no more.
* *Deploy*: weak fairness of each request that is not held (`Proceeds`). A
  goroutine runs, and a mutex that is free goes to a waiter; requests are finitely
  many, so weak fairness is enough for the lock. Nothing is assumed of the planner
  or of the Kubernetes API: `EveryRequestEnds` excepts what is held, and who waits
  for the lock of a request that is held.
* *Package*: weak fairness of each request that can go on (`GoesOn`): it has the
  lock or finds it free. Archives end, git is killed when its client goes, the
  planner when its time is up. A write to the cluster is a single step here and
  returns (one that does not is `Deploy`'s). A request that waits for the children of a killed
  process gets no fairness, and `RequestsAnswered` excepts it and those that wait
  for its lock. Which outcome a step has is never fair.
* *Operator*: weak fairness of the worker, each watch, the collector and
  rollouts; strong fairness of taking each queued Function, because the work
  queue is first-in first-out without duplicates, while the model's queue is a
  set. Nothing is assumed of the API or of failures.
* *Status*: the same, with the timer, starting and stopping of the pod and the
  end of discovery (which `EventuallyDecides` justifies).
* *Calls*: weak fairness of each call. Requests travel, event loops turn,
  functions return or throw, native calls end by their timeout, timers fire.
  Pods told to stop do, and Kubernetes starts others. A promise need not ever be
  settled, and nothing is assumed of refreshes, changes and kills.

## 4. Findings

Each is a run whose single property quotes the repository and is violated.

1. **mutual_block.** server.js 307-308: turns are taken "so a circular pair
   never blocks both event loops at once". A runtime with an earlier name that
   restarts waits for nobody; it may start to load from a later one while that
   one is loading from it. Both wait until the native timeout.
2. **delete_race.** `deleteDeployment` takes no lock. Between the calls of a
   deploy of the same id it can remove the source and leave the Function; both
   requests answer success.
3. **endpoint_race.** function_controller.go 194 promises "a redeploy when the
   endpoints change". The ConfigMap and the hash come from two lists. If a
   Function arrives in between, the pod started for the new hash may mount the old
   ConfigMap, and nothing restarts it when the ConfigMap follows.
4. **sandbox.** README.md 48: "The `id` acts as a deployment sandbox." A planned
   unit is named after the id cut to 52 characters less its suffix
   (`plannedUnitName`), and `upsertFunction` takes over whatever has that name.
   Of two ids that differ only behind the cut the second turns the first one's
   Function into its own.
5. **source_race.** The test in function_controller_source_test.go 73 demands
   that new source changes the template. The source is read from a cache that
   may be older than the Function event, and its own arrival triggers no
   reconcile: the pod keeps the old source until something else happens.

## 5. What is proved

`DiscoveryProofs` holds for all pods, names, mounts, retry budgets and bounds,
with the assumptions of `Discovery` (names are ranked without ties, a runtime is
not its own peer, at least one attempt).

* `InductiveInvariant`: `Spec => []IInv`. `IInv` is the type invariant with
  `PodInv(p)` for each pod: its bookkeeping (`BudgetInv`), what a running loop
  implies about target and reply (`LoopInv`), what a pod that is down
  has (`DownInv`), and when it says live (`VerdictInv`). A step of one pod leaves
  the others' part alone (`OthersKeepPodInv`), so each action is looked at for its
  own pod. `RetryBudget`
  and `VerdictMatchesPeers` alone are not inductive: that a failed attempt
  keeps the partition needs the target to be pending, which the loop ensures.
* `TypeCorrect`, `BudgetCorrect`, `VerdictCorrect` follow from it, with
  restarts, shared names, unreadable configurations, lost requests and answers
  that are cut off.
* `TurnTakingCorrect`, under one pod per name and no restart: `TurnInv` adds,
  for each pair, that a later runtime which has *released* an earlier one (got a
  settled answer, has passed it in its loop, or is at its turn) did so after that
  one had decided; `DoneStays` says decisions are final.
* `NoMutualBlockCorrect` follows for pairs (`TurnsExclude`: of two runtimes that
  know each other one is the earlier).
* `NoWaitCycleCorrect`, for groups of any size whose ranks are bounded: of any
  set of blocked runtimes the last in the name order (`LastPod`) loads from one that is not in
  the set, since an earlier peer of it has decided and a later one is not there.

The two extra assumptions are necessary: the run mutual_block drops the second
and finds the pair blocked.

`RouterProofs` holds for any Functions, ids, names and bounds, with the
assumptions of `Router` (names are ranked without ties) and a bound on the
ranks, that is, finitely many Functions, so that "the last exporter" exists.

* `RefreshIsRight`: whatever `Route` chooses is an exporter of the key, and it
  chooses one if there is one. It rests on `FirstIsMember` and `LastIsMember`.
* `HistoryCorrect`: `RoutesSpec => []HistoryInv`. The ghosts say the truth:
  `hist` ends in the present, the running refresh holds `hist[mark]`, and the
  table is made of `hist[1]`.
* `RouterImplementsTable`: `RoutesSpec => Table!Spec`. A list or a failed list
  is a stutter, `Publish` is `Change`, and `StoreRoutes` is `Renew` with `mark`
  as the list it moves to.

`CallsProofs` holds for any calls, Functions, names and bounds, with the
assumptions of `Calls` and again a bound on the ranks.

* `InductiveInvariant`: `Spec => []IInv`, where `IInv` joins the invariant of the
  router (`RouterInv`: its types and `HistoryInv`), of the calls, of the pods, and
  `StaysInGroup`. A call stays in its id because the table is made of one list by
  one loop (`RefreshIsRight`): a table of which nothing is known could lead
  anywhere. A busy loop works on a call that was sent to its own pod.
* `TypeCorrect`, `StaysInGroupCorrect` and the action property
  `RespondsOnceCorrect` follow: who may respond is *running*, *peer* or
  *returned*, and has not responded.
* `MeshRoutesAreOfOneMoment`: `Router` implements `RouteTable` while calls,
  shutdowns and the ends of pods go on; a step of a call is a stutter.

`DeployProofs` holds for any requests, ids, units, servers and bounds, with the
assumptions of `Deploy`: the units of different ids have different names, which
`Package` shows of short ids.

* `InductiveInvariant`: `Spec => []IInv`. Per request it says what its loop still
  has to do (`TodoInv`), that units are chosen once and as the mode allows
  (`UnitsInv`), that a deploy at work holds the lock of its id (`LockInv`), and
  that an undisturbed request is alone in its group (`AloneInv`). Of such a
  request `StageInv` says what it has written and pruned at each stage: that a
  success leaves exactly the units asked for is only the last of its parts, and
  not inductive without the others. `OwnerInv` says that every object is labelled
  with the id its name was made of, so that requests of other ids do not touch
  it. Every action of a handler is a `WorkStep`, which keeps the invariant of
  all other requests (`MoveKeeps`).
* `TypeCorrect`, `FunctionHasSourceCorrect`, `AcceptedOnlyCorrect`,
  `SuccessIsExactCorrect`, and the action properties `OnlyDeleteEmptiesCorrect`
  and `EndpointsOutliveFunctionCorrect` follow, with failures before and after
  every call to the cluster, and crashes.
* `LockExcludes`: two deploys of one id on one server are never past the lock
  together.

`OperatorProofs` holds for any Functions, ids, sources and bounds, the lag of the
caches included.

* `InductiveInvariant`: `Spec => []IInv`. `ChildrenConverge` speaks of quiet
  states only and says nothing of how they come about, so `RefreshInv` says it of
  all: while the children of a listed Function do not fit the cache, a request is
  queued, a watch has a child to deliver, a Reconcile has yet to list the
  Functions, or its loop has yet to visit that one (`ToCome`). `ServiceInv` says
  the same of Services, `CacheInv` and `ChildCacheInv` that what the caches lack
  is behind the watches, `GroupInv` that whatever was computed from any version of
  the cache is of one id. `WritesAre` says of every `CreateOrUpdate` that either
  the cached child is as wanted and nothing is written, or something is to come:
  so a step of the loop settles a child only when nothing is unseen.
* `TypeCorrect`, `IsolationCorrect` and `ChildrenConvergeCorrect` follow. That
  the operator becomes quiet is liveness, and stays with TLC.

`StatusProofs` holds for any sources and bounds.

* `InductiveInvariant`: `Spec => []IInv`. `CacheInv` and `CopyInv` say when the
  cache and the copy of a Reconcile are the present. `SeenInv` is the core: what
  a Reconcile has read of the pod still holds at each later step, unless
  something is behind the watch or queued, or the Reconcile is going to ask for
  another look (`poll`). Only a decision of the runtime goes unannounced, and a
  verdict that may still change is never taken without `poll`.
* `TypeCorrect` and `StatusConvergesCorrect` follow.

`UnitsProofs` has the lemmas about `UnitNames`, `SourceBundle` and `Units`, for
any characters, languages, files, packages and manifests, with the assumptions
those modules name: the dash and the letters of `pkg-` are characters a name
keeps, a digit is not a dash, a lower case character is kept, a language is a
word without a dash that does not end in a digit, and dependency manifests are
not configurations.

* Names: `SanitizeIs` (whatever it is given, `Sanitize` returns a name: kept
  characters, no dash at either end, at most `Limit`) and `SanitizeKeeps` (it
  leaves a name as it is), from `CleanedKeeps`, `TrimIs`, `TrimRightIs` and
  `FirstIs`. `ShortNamesApart`: the names of units of different short ids
  differ. A name is read from its right end: its last characters tell which tail
  it has (none, the number of a unit, the number of a pod: `TailTold`), then the
  last dash before it tells the language and so the id (`IdTold`).
* Bundles: `KeysApart`: a key tells its path, and none is the key of the index.
  `Encoded` says what `Encode` makes of files without its CHOOSE. From both
  follows `MountedInvertsEncode`: what is encoded is mounted again.
* Paths: `ResolveIs`, that what climbs and descends is a path. `Resolve` is a
  recursive function; that its definition has a solution (`PlacesExist`) and that
  all of its places are paths is shown by the least place that is not one, in
  place of an induction.
* Units: `LegacyUnitsOf` and `PlannedUnitsOf` take the two constructions apart:
  every unit is made of a configuration or merged from such (`UnitOf`,
  `MergedFrom`), and every configuration has its unit. `SourcesCarried` and
  `MergedCarries`: the files of a unit are those of the package, the nearest
  manifests included. A merge keeps them because it refuses files with two contents
  and because the entrypoint it adds has the name of a configuration, which
  hides neither a file nor a manifest.

`PackageProofs` holds for any requests, packages, manifests and bounds, with
`InputsAssumption`: packages and manifests are finite, and packages are trees (a
file has nothing below it, a configuration gives paths).

* `InductiveInvariant`: `Spec => []IInv`. `StageInv(r)` says what is on the disk
  at each point of a request (`StagingIsRemoved` alone does not say that a
  request still fetching has its directory, or a planned one no longer its
  output), `UnitsInv(r)` that units are well and, when applied, valid,
  `NameInv(r)` that its id is a name and its units are named after it, and
  `PlanInv(r)` that what is planned from are the configured units and what is
  validated runs the package. A step of one request leaves the part of the
  others alone (`StepOf`).
* `TypeCorrect`: with the length of ids from `SanitizeIs`, and one Function per
  name from `PutIsApart`.
* `StagingCorrect`; `BundlesOpenCorrect`, with `MountedInvertsEncode`;
  `IdNamesItselfCorrect`, with `SanitizeKeeps`.
* `DeployedWholeCorrect`: the only step that succeeds from applying is
  `ApplyDeploymentUnits`, after which the group is in bijection with the units
  (`AppliedWhole`), because valid units differ in their names.
* `EveryConfigRunsCorrect`, if `Numbered`: every number of a pod has the name of
  a configuration (`mergePlannerGroup` makes one for any number). `LegacyRuns` and
  `MergedRuns` follow the entrypoint of a unit to its scripts and files, and
  `PlannedAllRun` joins them.
* `ShortIdsStayApartCorrect`, if every number has a character. A number counts as
  one character here, in the length of ids that are short as well.

The last two hypotheses are not assumptions of the modules because TLC's small
instances have four numbers.

So every safety property of the passing runs, invariant or action property, has a
theorem. Only model-checked are the liveness properties (`EventuallyDecides`,
`EveryRequestEnds`, `EventuallyInMesh`, `EventuallyReported`,
`EveryCallIsAnswered`, `LoopsComeFree`, `RequestsAnswered`), for fairness and
ENABLED are out of the prover's reach, and that the violations of section 4 can
happen. What `Resolve` computes for a given path, and not only that it is a path,
is induction over data and stays with TLC, too.

## 6. Abstractions

* One pod per Deployment in `Operator` and `Status`, replicas 0 or 1.
* A cache that is synced jumps to the latest state, the states in between being
  those of a later sync.
* In `Operator` objects of one name have no UIDs. A child of a deleted Function is
  collected unless a Function of that name is deployed anew before; then the new
  one takes it over. In the code the collector may still take it then, whose event
  makes the operator create it again.
* `Operator` leaves the outcome of `updateStatus` open (the request may come
  back); `Status` leaves the children out but for the replicas.
* Unit names of different ids are different in `Deploy` (`NamesAssumption`).
  `Package` has the names as they are: `ShortIdsStayApart` shows the assumption
  for ids short enough, and the run sandbox how longer ones break it.
* In `Package` no two contents have one digest, a link is a leaf of the tree
  and never followed, every entry of a ConfigMap weighs the same, and file
  names have no backslash. A Function is put together with its ConfigMap.
* What the planner writes is one of a given set of manifests, sound or not; a
  file that is missing, cut off or no JSON is `PlannerFails`. Confidence and
  dependencies of a manifest change nothing that is deployed.
* In `Calls` functions return or throw; one that hangs in native code without a
  call to a peer is not modelled. What a function calls at a peer calls no
  further function. Which peer a remote name stands for is given; how it is discovered
  is `Discovery`.
* `Publish` lets a Function's list of names change at any time and apart from
  its pod; how it comes to be true is `Status`. The mesh lives in one
  namespace, and the service URL of a Function never changes.
* Contents, hashes and annotations are model values: equal exactly when the
  data are. Wording, logs, metrics, resources and probes are left out.

## 7. Not modelled, and the plan

Written so far, in this order: `Discovery`, `Deploy`, `Operator`, `Status`,
`Router`, `Calls`, then `UnitNames`, `SourceBundle`, `Units` and `Package`, each
with its proofs. Next:

1. `Mesh`: `Deploy` and `Operator` composed over one cluster.
2. An abstract specification of a deployment id (what a client may observe of
   its group) that `Deploy` implements as long as no rivals race.

Two things seen on the way that no text of the repository contradicts:

* Two configurations in one directory are hardly ever merged: each bundle has its
  own configuration rewritten and the other's as it was, which mergePlannerGroup
  (deploy_plan.go 276) takes for a conflict unless both files were written just
  as the server would. `auto` falls back, `required` fails.
* A package whose id is `function` gets another name (server.go 307), a
  directory deployed without a suffix gets the id `function` (346), and such a
  deployment can never be acknowledged (362).

Left out for good: process wiring, Helm charts, dashboards, scheme registration
and generated deep copies (no state); the HTTP framing, logs, metrics, the
listing of branches, billing and validation stubs; and the inspection, which
only reads statuses (module `Status`).
