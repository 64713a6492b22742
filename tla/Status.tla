------------------------------- MODULE Status -------------------------------
(***************************************************************************)
(* How a Function gets its status: updateStatus of the operator            *)
(* (src/internal/controller/function_controller.go), one Function.         *)
(*                                                                         *)
(* A Reconcile reads the Function from the cache, brings its children up   *)
(* to date (module Operator; here only the replicas), reads the readiness  *)
(* of the pod from the cached Deployment, asks the runtime for /status and *)
(* then for /inspect, and writes phase and functions to the copy it read   *)
(* at the start.  Between any two of these the pod may be replaced, the    *)
(* runtime may decide, and the Function may be redeployed, scaled or       *)
(* deleted.  The runtime tells nobody when it decides: the operator has to *)
(* poll.                                                                   *)
(***************************************************************************)
EXTENDS Naturals

CONSTANTS
    Version,     \* sources: each lets /inspect list other functions
    None,        \* no object, no list
    MaxChanges,  \* bound: deploys, scalings and deletes
    MaxErrors,   \* bound: calls that fail
    MaxPods      \* bound: pods started after the first of a Deployment

ASSUME NoneAssumption == None \notin Version
ASSUME BoundsAssumption == MaxChanges \in Nat /\ MaxErrors \in Nat /\ MaxPods \in Nat

VARIABLES
    function,    \* the Function, or None
    fnCache,     \* the operator's cache of it
    replicas,    \* the replicas of its Deployment, or None
    pod,         \* its pod, or None
    readyCache,  \* whether the cached Deployment has a ready replica
    behind,      \* the objects whose watch has something to deliver
    queued,      \* the Function is in the work queue
    timer,       \* it will be, in 5 s
    worker,      \* where Reconcile stands
    counts       \* what has been spent of each bound

vars == <<function, fnCache, replicas, pod, readyCache, behind, queued, timer, worker, counts>>

Phase == {"", "Pending", "ScaledDown", "Initializing", "Degraded", "Live"}
Statuses == [phase : Phase, funcs : Version \cup {None}]
Functions == [replicas : 0 .. 1, status : Statuses]

\* What /status tells (module Discovery): "ready" while peers are pending, "live"
\* once all are loaded, "degraded" from the first peer that failed for good.
Pods == [src : Version, state : {"starting", "ready", "live", "degraded"}]

ASSUME ObjectsAssumption == None \notin Functions /\ None \notin Pods

\* The worker: its step, the Function it read, whether that is still the current
\* revision, the status it puts together, and whether to look again.
Steps == {"idle", "children", "deployment", "fetch", "inspect", "write"}
Workers == [at : Steps, copy : Functions \cup {None}, current : BOOLEAN,
            next : Statuses, poll : BOOLEAN]

TypeOK ==
    /\ function \in Functions \cup {None}
    /\ fnCache \in Functions \cup {None}
    /\ replicas \in 0 .. 1 \cup {None}
    /\ pod \in Pods \cup {None}
    /\ readyCache \in BOOLEAN
    /\ behind \subseteq {"Function", "Deployment"}
    /\ queued \in BOOLEAN
    /\ timer \in BOOLEAN
    /\ worker \in Workers
    /\ counts \in [changes : 0 .. MaxChanges, errors : 0 .. MaxErrors, pods : 0 .. MaxPods]

NoStatus == [phase |-> "", funcs |-> None]

Idle == [at |-> "idle", copy |-> None, current |-> FALSE, next |-> NoStatus, poll |-> FALSE]

Init ==
    /\ function = None
    /\ fnCache = None
    /\ replicas = None
    /\ pod = None
    /\ readyCache = FALSE
    /\ behind = {}
    /\ queued = FALSE
    /\ timer = FALSE
    /\ worker = Idle
    /\ counts = [changes |-> 0, errors |-> 0, pods |-> 0]

Spend(what, max) ==
    /\ counts[what] < max
    /\ counts' = [counts EXCEPT ![what] = @ + 1]

\* Every write of an object gives it a new revision and the watches something to
\* deliver.
FunctionChanged ==
    /\ behind' = behind \cup {"Function"}
    /\ worker' = [worker EXCEPT !.current = FALSE]

-----------------------------------------------------------------------------
(* The API and its users.                                                  *)

\* A deploy replaces the spec, replicas with it, and keeps the status.
Deploy ==
    /\ Spend("changes", MaxChanges)
    /\ function' = IF function = None THEN [replicas |-> 1, status |-> NoStatus]
                   ELSE [function EXCEPT !.replicas = 1]
    /\ FunctionChanged
    /\ UNCHANGED <<fnCache, replicas, pod, readyCache, queued, timer>>

\* spec.runtime.replicas, set by hand.
Scale ==
    /\ function # None
    /\ Spend("changes", MaxChanges)
    /\ function' = [function EXCEPT !.replicas = 1 - @]
    /\ FunctionChanged
    /\ UNCHANGED <<fnCache, replicas, pod, readyCache, queued, timer>>

\* A delete, and the collection of the children.
Delete ==
    /\ function # None
    /\ Spend("changes", MaxChanges)
    /\ function' = None
    /\ replicas' = None
    /\ pod' = None
    /\ behind' = behind \cup {"Function", "Deployment"}
    /\ worker' = [worker EXCEPT !.current = FALSE]
    /\ UNCHANGED <<fnCache, readyCache, queued, timer>>

-----------------------------------------------------------------------------
(* The pod.  Its readiness is part of the Deployment's status.             *)

Answers == pod # None /\ pod.state # "starting"

DeploymentChanged == behind' = behind \cup {"Deployment"}

StartPod ==
    /\ replicas = 1
    /\ \E v \in Version : pod' = [src |-> v, state |-> "starting"]
    /\ DeploymentChanged
    /\ UNCHANGED <<function, fnCache, replicas, readyCache, queued, timer, worker>>

FirstPod ==
    /\ pod = None
    /\ StartPod
    /\ UNCHANGED counts

\* A rollout or a restart: another pod, perhaps with another source.
NextPod ==
    /\ pod # None
    /\ Spend("pods", MaxPods)
    /\ StartPod

StopPod ==
    /\ replicas = 0
    /\ pod # None
    /\ pod' = None
    /\ DeploymentChanged
    /\ UNCHANGED <<function, fnCache, replicas, readyCache, queued, timer, worker, counts>>

BecomeReady ==
    /\ pod # None
    /\ pod.state = "starting"
    /\ pod' = [pod EXCEPT !.state = "ready"]
    /\ DeploymentChanged
    /\ UNCHANGED <<function, fnCache, replicas, readyCache, queued, timer, worker, counts>>

\* Discovery ends: no object changes, nobody is told.
Decide ==
    /\ pod # None
    /\ pod.state = "ready"
    /\ \E verdict \in {"live", "degraded"} : pod' = [pod EXCEPT !.state = verdict]
    /\ UNCHANGED <<function, fnCache, replicas, readyCache, behind, queued, timer, worker, counts>>

-----------------------------------------------------------------------------
(* The manager.                                                            *)

SyncFunction ==
    /\ "Function" \in behind
    /\ fnCache' = function
    /\ behind' = behind \ {"Function"}
    /\ queued' = TRUE
    /\ UNCHANGED <<function, replicas, pod, readyCache, timer, worker, counts>>

SyncDeployment ==
    /\ "Deployment" \in behind
    /\ readyCache' = Answers
    /\ behind' = behind \ {"Deployment"}
    /\ queued' = TRUE
    /\ UNCHANGED <<function, fnCache, replicas, pod, timer, worker, counts>>

\* RequeueAfter.
Fire ==
    /\ timer
    /\ timer' = FALSE
    /\ queued' = TRUE
    /\ UNCHANGED <<function, fnCache, replicas, pod, readyCache, behind, worker, counts>>

-----------------------------------------------------------------------------
(* Reconcile.                                                              *)

\* It returns an error: the request is queued again.
Abort ==
    /\ worker' = Idle
    /\ queued' = TRUE

CallFails ==
    /\ worker.at \in {"children", "write"}
    /\ Spend("errors", MaxErrors)
    /\ Abort
    /\ UNCHANGED <<function, fnCache, replicas, pod, readyCache, behind, timer>>

\* A Function that is gone has no status.
Reconcile ==
    /\ worker.at = "idle"
    /\ queued
    /\ queued' = FALSE
    /\ worker' = IF fnCache = None THEN Idle
                 ELSE [Idle EXCEPT !.at = "children", !.copy = fnCache,
                                   !.current = "Function" \notin behind]
    /\ UNCHANGED <<function, fnCache, replicas, pod, readyCache, behind, timer, counts>>

\* reconcileDeployment for the copy, then once more for what the list has now; a
\* Deployment for a Function that is gone is collected at once.
ReconcileChildren ==
    /\ worker.at = "children"
    /\ worker' = [worker EXCEPT !.at = "deployment"]
    /\ LET wanted == IF fnCache = None THEN worker.copy.replicas ELSE fnCache.replicas
           made == IF function = None THEN None ELSE wanted
       IN  /\ replicas' = made
           /\ behind' = IF made = replicas THEN behind ELSE behind \cup {"Deployment"}
    /\ UNCHANGED <<function, fnCache, pod, readyCache, queued, timer, counts>>

\* No replica is ready: none is wanted, or it is waited for.
WithoutReadyPod(copy) ==
    IF copy.replicas = 0 THEN [phase |-> "ScaledDown", poll |-> FALSE]
    ELSE [phase |-> "Pending", poll |-> TRUE]

\* updateStatus reads the cached Deployment; there is an error if it is gone.
ReadDeployment ==
    /\ worker.at = "deployment"
    /\ \/ /\ replicas = None
          /\ Abort
       \/ /\ replicas # None
          /\ worker' = IF readyCache THEN [worker EXCEPT !.at = "fetch"]
                       ELSE LET found == WithoutReadyPod(worker.copy)
                            IN  [worker EXCEPT !.at = "write", !.poll = found.poll,
                                   !.next = [phase |-> found.phase, funcs |-> None]]
          /\ UNCHANGED queued
    /\ UNCHANGED <<function, fnCache, replicas, pod, readyCache, behind, timer, counts>>

\* Faulty: the word of the runtime is the phase.
SeenAsIs(state) == [phase |-> state, poll |-> state # "live"]

\* Faulty: a runtime that is ready has nothing more to tell.
SeenUnlessStarting(state) ==
    CASE state = "ready" -> [phase |-> "Initializing", poll |-> FALSE]
      [] state = "live" -> [phase |-> "Live", poll |-> FALSE]
      [] state = "degraded" -> [phase |-> "Degraded", poll |-> TRUE]

\* The phase /status stands for, and whether to look again in 5 s.
Seen(state) ==
    CASE state = "ready" -> [phase |-> "Initializing", poll |-> TRUE]
      [] state = "live" -> [phase |-> "Live", poll |-> FALSE]
      [] state = "degraded" -> [phase |-> "Degraded", poll |-> TRUE]

FetchRemoteStatus ==
    /\ worker.at = "fetch"
    /\ Answers
    /\ LET seen == Seen(pod.state)
       IN  worker' = [worker EXCEPT !.at = "inspect", !.next.phase = seen.phase,
                                    !.poll = seen.poll]
    /\ UNCHANGED <<function, fnCache, replicas, pod, readyCache, behind, queued, timer, counts>>

InspectFunctions ==
    /\ worker.at = "inspect"
    /\ Answers
    /\ worker' = [worker EXCEPT !.at = "write", !.next.funcs = pod.src]
    /\ UNCHANGED <<function, fnCache, replicas, pod, readyCache, behind, queued, timer, counts>>

\* There is no pod to answer, or it does not answer within 2 s.
Silence == IF Answers THEN Spend("errors", MaxErrors) ELSE UNCHANGED counts

FetchFails ==
    /\ worker.at = "fetch"
    /\ Silence
    /\ worker' = [worker EXCEPT !.at = "inspect", !.next.phase = "Initializing", !.poll = TRUE]
    /\ UNCHANGED <<function, fnCache, replicas, pod, readyCache, behind, queued, timer>>

\* Faulty: the functions are read again with the next event only.
AfterSilenceNothing(w) == [w EXCEPT !.at = "write", !.next.funcs = None]

\* /inspect failed: no functions, and another look.
AfterSilence(w) == [w EXCEPT !.at = "write", !.next.funcs = None, !.poll = TRUE]

InspectFails ==
    /\ worker.at = "inspect"
    /\ Silence
    /\ worker' = AfterSilence(worker)
    /\ UNCHANGED <<function, fnCache, replicas, pod, readyCache, behind, queued, timer>>

\* The copy is not the Function any more.
Conflict == function # None /\ ~worker.current

\* The status as it was is not written; a Function that is gone is passed over.
WriteStatus ==
    /\ worker.at = "write"
    /\ LET same == worker.next = worker.copy.status
           done == /\ worker' = Idle
                   /\ timer' = (timer \/ worker.poll)
                   /\ UNCHANGED queued
       IN  \/ /\ same \/ function = None
              /\ done
              /\ UNCHANGED <<function, behind>>
           \/ /\ ~same
              /\ Conflict
              /\ Abort
              /\ UNCHANGED <<function, behind, timer>>
           \/ /\ ~same
              /\ function # None
              /\ ~Conflict
              /\ function' = [function EXCEPT !.status = worker.next]
              /\ behind' = behind \cup {"Function"}
              /\ done
    /\ UNCHANGED <<fnCache, replicas, pod, readyCache, counts>>

Work ==
    \/ Reconcile \/ ReconcileChildren \/ ReadDeployment
    \/ FetchRemoteStatus \/ FetchFails \/ InspectFunctions \/ InspectFails
    \/ WriteStatus \/ CallFails

Next ==
    \/ Work
    \/ Deploy \/ Scale \/ Delete
    \/ FirstPod \/ NextPod \/ StopPod \/ BecomeReady \/ Decide
    \/ SyncFunction \/ SyncDeployment \/ Fire

\* The worker runs, watches deliver, the timer fires, Kubernetes starts and stops
\* pods, and discovery ends (module Discovery).  Nothing is assumed of users, of
\* restarts or of failures.
Fairness ==
    /\ WF_vars(Work)
    /\ WF_vars(SyncFunction) /\ WF_vars(SyncDeployment) /\ WF_vars(Fire)
    /\ WF_vars(FirstPod) /\ WF_vars(StopPod) /\ WF_vars(BecomeReady) /\ WF_vars(Decide)

Spec == Init /\ [][Next]_vars

FairSpec == Spec /\ Fairness

-----------------------------------------------------------------------------
(* Properties.                                                             *)

\* What the status of the Function ought to be.
TrueStatus ==
    IF Answers THEN [phase |-> Seen(pod.state).phase, funcs |-> pod.src]
    ELSE [phase |-> IF function.replicas = 0 THEN "ScaledDown" ELSE "Pending",
          funcs |-> None]

\* Nothing will make the operator look at the Function again.
Unattended == worker.at = "idle" /\ ~queued /\ ~timer /\ behind = {}

\* The operator stops looking only at a Function whose status is true and final:
\* a read of a pod that was replaced since, a decision nobody announced, a
\* conflict or an answer that did not come all lead to another look
\* (function_controller.go:427-480).
StatusConverges ==
    Unattended /\ function # None =>
        /\ function.status = TrueStatus
        /\ function.status.phase \in {"Live", "ScaledDown"}

\* Once users, restarts and failures leave it alone, the Function comes to show
\* what its runtime decided and lists the functions of the source that runs.
EventuallyReported == <>[](function # None => function.status = TrueStatus)
=============================================================================
