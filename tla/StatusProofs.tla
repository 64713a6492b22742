----------------------------- MODULE StatusProofs -----------------------------
(***************************************************************************)
(* Proofs about Status for any sources and bounds.                         *)
(*                                                                         *)
(* What a Reconcile has read stays true as long as nothing is to be        *)
(* delivered and nothing is queued, but for a decision of the runtime,     *)
(* which nobody announces: a verdict that may still change is therefore    *)
(* only ever taken along with another look (SeenInv).                      *)
(***************************************************************************)
EXTENDS Status, TLAPS

-----------------------------------------------------------------------------
(* The invariant.                                                          *)

\* What a cache lacks is behind its watch.
CacheInv ==
    /\ "Function" \notin behind => fnCache = function
    /\ "Deployment" \notin behind => readyCache = Answers

\* The copy is the Function as long as nothing was written since, and a write is
\* behind the watch or has been queued.
CopyInv ==
    worker.at # "idle" =>
        /\ worker.copy \in Functions
        /\ worker.current => worker.copy = function
        /\ "Function" \notin behind /\ ~queued => worker.current

\* Whether the pod answers is as it was read.
PodAsRead == "Deployment" \notin behind /\ ~queued

\* The status put together is true and final.
NextIsFinal ==
    \/ /\ Answers /\ pod.state = "live"
       /\ worker.next = [phase |-> "Live", funcs |-> pod.src]
    \/ /\ ~Answers /\ worker.copy.replicas = 0
       /\ worker.next = [phase |-> "ScaledDown", funcs |-> None]

\* What was read of the pod still holds, if there is not to be another look.
SeenInv ==
    PodAsRead =>
        /\ worker.at \in {"fetch", "inspect"} => Answers
        /\ worker.at = "inspect" /\ ~worker.poll =>
              worker.next.phase = "Live" /\ pod.state = "live"
        /\ worker.at = "write" /\ ~worker.poll => NextIsFinal

IInv ==
    /\ TypeOK
    /\ CacheInv
    /\ CopyInv
    /\ SeenInv
    /\ StatusConverges

-----------------------------------------------------------------------------
(* The runtime's word.                                                     *)

\* Only a runtime that is live needs no other look.
LEMMA SeenIs ==
  ASSUME NEW state \in {"ready", "live", "degraded"}
  PROVE  /\ Seen(state).phase \in {"Initializing", "Live", "Degraded"}
         /\ Seen(state).poll \in BOOLEAN
         /\ ~Seen(state).poll => state = "live"
         /\ Seen("live").phase = "Live"
BY DEF Seen

LEMMA AnswersIs ==
  ASSUME TypeOK, Answers
  PROVE  pod \in Pods /\ pod.state \in {"ready", "live", "degraded"}
BY DEF TypeOK, Pods, Answers

-----------------------------------------------------------------------------
(* Types.                                                                  *)

Counts == [changes : 0 .. MaxChanges, errors : 0 .. MaxErrors, pods : 0 .. MaxPods]

\* The bounds are kept.
LEMMA SpendIs ==
  ASSUME TypeOK
  PROVE  /\ Spend("changes", MaxChanges) => counts' \in Counts
         /\ Spend("errors", MaxErrors) => counts' \in Counts
         /\ Spend("pods", MaxPods) => counts' \in Counts
BY BoundsAssumption DEF Spend, TypeOK, Counts

LEMMA StatusesAre ==
  /\ NoStatus \in Statuses /\ Idle \in Workers /\ Idle.at = "idle"
  /\ \A f \in Functions, s \in Statuses : [f EXCEPT !.status = s] \in Functions
  /\ \A f \in Functions : /\ [f EXCEPT !.replicas = 1] \in Functions
                          /\ [f EXCEPT !.replicas = 1 - @] \in Functions
  /\ [replicas |-> 1, status |-> NoStatus] \in Functions
<1>1. NoStatus \in Statuses
  BY DEF NoStatus, Statuses, Phase
<1>2. Idle \in Workers /\ Idle.at = "idle"
  BY <1>1 DEF Idle, Workers, Steps
<1>3. \A f \in Functions : 1 - f.replicas \in 0 .. 1
  BY DEF Functions
<1> QED
  BY <1>1, <1>2, <1>3 DEF Functions

\* What users, pods and the manager do.
LEMMA TypeOutside ==
  ASSUME TypeOK,
         \/ Deploy \/ Scale \/ Delete
         \/ FirstPod \/ NextPod \/ StopPod \/ BecomeReady \/ Decide
         \/ SyncFunction \/ SyncDeployment \/ Fire
  PROVE  TypeOK'
<1> USE DEF FunctionChanged, DeploymentChanged
<1>1. worker \in Workers /\ [worker EXCEPT !.current = FALSE] \in Workers
  BY DEF TypeOK, Workers
<1>2. function # None => function \in Functions
  BY DEF TypeOK
<1>3. pod # None => pod \in Pods
  BY DEF TypeOK
<1>4. CASE Deploy
  <2>1. function' \in Functions
    BY <1>2, <1>4, StatusesAre DEF Deploy
  <2> QED
    BY <1>1, <1>4, <2>1, SpendIs DEF Deploy, TypeOK, Counts
<1>5. CASE Scale
  <2>1. function' \in Functions
    BY <1>2, <1>5, StatusesAre DEF Scale
  <2> QED
    BY <1>1, <1>5, <2>1, SpendIs DEF Scale, TypeOK, Counts
<1>6. CASE Delete
  BY <1>1, <1>6, SpendIs DEF Delete, TypeOK, Counts
<1>7. ASSUME StartPod, counts' \in Counts PROVE TypeOK'
  <2>1. pod' \in Pods
    BY <1>7 DEF StartPod, Pods
  <2> QED
    BY <1>7, <2>1 DEF StartPod, TypeOK, Counts
<1>8. CASE FirstPod
  BY <1>7, <1>8 DEF FirstPod, TypeOK, Counts
<1>9. CASE NextPod
  BY <1>7, <1>9, SpendIs DEF NextPod
<1>10. CASE StopPod
  BY <1>10 DEF StopPod, TypeOK
<1>11. CASE BecomeReady
  <2>1. pod' \in Pods
    BY <1>3, <1>11 DEF BecomeReady, Pods
  <2> QED
    BY <1>11, <2>1 DEF BecomeReady, TypeOK
<1>12. CASE Decide
  <2>1. pod' \in Pods
    BY <1>3, <1>12 DEF Decide, Pods
  <2> QED
    BY <1>12, <2>1 DEF Decide, TypeOK
<1>13. CASE SyncFunction
  BY <1>13 DEF SyncFunction, TypeOK
<1>14. CASE SyncDeployment
  BY <1>14 DEF SyncDeployment, TypeOK, Answers
<1>15. CASE Fire
  BY <1>15 DEF Fire, TypeOK
<1> QED
  BY <1>4, <1>5, <1>6, <1>8, <1>9, <1>10, <1>11, <1>12, <1>13, <1>14, <1>15

\* What a Reconcile does.
LEMMA TypeWork ==
  ASSUME TypeOK, CopyInv, Work
  PROVE  TypeOK'
<1>1. /\ worker \in Workers /\ worker.next \in Statuses /\ worker.next.phase \in Phase
      /\ Idle \in Workers
  BY StatusesAre DEF TypeOK, Workers, Statuses
<1>2. Answers => /\ pod.src \in Version
                 /\ Seen(pod.state).phase \in Phase /\ Seen(pod.state).poll \in BOOLEAN
  BY AnswersIs, SeenIs DEF Pods, Phase
<1>3. ASSUME UNCHANGED <<function, fnCache, replicas, pod, readyCache, behind>>,
             worker' \in Workers, queued' \in BOOLEAN, timer' \in BOOLEAN, counts' \in Counts
      PROVE  TypeOK'
  BY <1>3 DEF TypeOK, Counts
<1>4. queued \in BOOLEAN /\ timer \in BOOLEAN /\ counts \in Counts
  BY DEF TypeOK, Counts
<1>5. CASE Reconcile
  <2>1. fnCache # None => fnCache \in Functions
    BY DEF TypeOK
  <2>2. ("Function" \notin behind) \in BOOLEAN
    OBVIOUS
  <2>3. fnCache # None =>
            worker' = [at |-> "children", copy |-> fnCache, current |-> "Function" \notin behind,
                       next |-> NoStatus, poll |-> FALSE]
    BY <1>5 DEF Reconcile, Idle
  <2>4. worker' \in Workers
    BY <1>1, <1>5, <2>1, <2>2, <2>3, StatusesAre DEF Reconcile, Workers, Steps
  <2> QED
    BY <1>3, <1>4, <1>5, <2>4 DEF Reconcile
<1>6. CASE ReconcileChildren
  <2>1. worker' \in Workers
    BY <1>1, <1>6 DEF ReconcileChildren, Workers, Steps
  <2>2. replicas' \in (0 .. 1) \cup {None} /\ behind' \subseteq {"Function", "Deployment"}
    BY <1>6 DEF ReconcileChildren, CopyInv, Functions, TypeOK
  <2> QED
    BY <1>6, <2>1, <2>2 DEF ReconcileChildren, TypeOK
<1>7. CASE ReadDeployment
  <2> DEFINE found == WithoutReadyPod(worker.copy)
             next == [phase |-> found.phase, funcs |-> None]
  <2>1. next \in Statuses /\ found.poll \in BOOLEAN
    BY DEF WithoutReadyPod, Phase, Statuses
  <2>2. worker' \in Workers
    <3>1. \/ worker' = Idle
          \/ worker' = [worker EXCEPT !.at = "fetch"]
          \/ worker' = [worker EXCEPT !.at = "write", !.poll = found.poll, !.next = next]
      BY <1>7 DEF ReadDeployment, Abort
    <3> HIDE DEF found, next
    <3> QED
      BY <1>1, <2>1, <3>1 DEF Workers, Steps
  <2> QED
    BY <1>3, <1>4, <1>7, <2>2 DEF ReadDeployment, Abort
<1>8. CASE FetchRemoteStatus
  <2>1. worker' \in Workers
    BY <1>1, <1>2, <1>8 DEF FetchRemoteStatus, Workers, Steps, Statuses
  <2> QED
    BY <1>3, <1>4, <1>8, <2>1 DEF FetchRemoteStatus
<1>9. CASE InspectFunctions
  <2>1. worker' \in Workers
    BY <1>1, <1>2, <1>9 DEF InspectFunctions, Workers, Steps, Statuses
  <2> QED
    BY <1>3, <1>4, <1>9, <2>1 DEF InspectFunctions
<1>10. Silence => counts' \in Counts
  BY <1>4, SpendIs DEF Silence
<1>11. CASE FetchFails
  <2>1. worker' \in Workers
    BY <1>1, <1>11 DEF FetchFails, Workers, Steps, Statuses, Phase
  <2> QED
    BY <1>3, <1>4, <1>10, <1>11, <2>1 DEF FetchFails
<1>12. CASE InspectFails
  <2>1. worker' \in Workers
    BY <1>1, <1>12 DEF InspectFails, AfterSilence, Workers, Steps, Statuses
  <2> QED
    BY <1>3, <1>4, <1>10, <1>12, <2>1 DEF InspectFails
<1>13. CASE CallFails
  BY <1>1, <1>3, <1>4, <1>13, SpendIs DEF CallFails, Abort
<1>14. CASE WriteStatus
  <2>1. worker' = Idle /\ queued' \in BOOLEAN /\ timer' \in BOOLEAN
        /\ behind' \subseteq {"Function", "Deployment"}
    BY <1>1, <1>4, <1>14 DEF WriteStatus, Abort, Workers, TypeOK
  <2>2. function # None => function \in Functions
    BY DEF TypeOK
  <2>3. function' \in Functions \cup {None}
    BY <1>1, <1>14, <2>2, StatusesAre DEF WriteStatus
  <2> QED
    BY <1>1, <1>14, <2>1, <2>3 DEF WriteStatus, TypeOK
<1> QED
  BY <1>5, <1>6, <1>7, <1>8, <1>9, <1>11, <1>12, <1>13, <1>14 DEF Work

LEMMA TypeStep ==
  ASSUME TypeOK, CopyInv, [Next]_vars
  PROVE  TypeOK'
<1>1. CASE UNCHANGED vars
  BY <1>1 DEF vars, TypeOK
<1> QED
  BY <1>1, TypeOutside, TypeWork DEF Next

-----------------------------------------------------------------------------
(* Caches and copies.                                                      *)

\* Nothing but a delivery takes an object from behind its watch, and whatever
\* changes one puts it there.
LEMMA CacheStep ==
  ASSUME TypeOK, CacheInv, [Next]_vars
  PROVE  CacheInv'
<1> USE DEF CacheInv, Answers
<1>1. CASE Deploy \/ Scale \/ Delete
  BY <1>1 DEF Deploy, Scale, Delete, FunctionChanged
<1>2. CASE FirstPod \/ NextPod \/ StopPod \/ BecomeReady
  BY <1>2 DEF FirstPod, NextPod, StartPod, StopPod, BecomeReady, DeploymentChanged
<1>3. CASE Decide
  <2>1. pod' # None /\ pod'.state # "starting"
    <3>1. PICK verdict \in {"live", "degraded"} : pod' = [pod EXCEPT !.state = verdict]
      BY <1>3 DEF Decide
    <3>2. pod \in Pods
      BY <1>3 DEF Decide, TypeOK
    <3>3. pod' \in Pods /\ pod'.state = verdict
      BY <3>1, <3>2 DEF Pods
    <3> QED
      BY <3>1, <3>3, ObjectsAssumption
  <2> QED
    BY <1>3, <2>1 DEF Decide
<1>4. CASE SyncFunction \/ SyncDeployment \/ Fire
  BY <1>4 DEF SyncFunction, SyncDeployment, Fire
<1>5. CASE Work
  <2>1. CASE WriteStatus
    BY <2>1 DEF WriteStatus
  <2>2. CASE ReconcileChildren
    BY <2>2 DEF ReconcileChildren
  <2> QED
    BY <1>5, <2>1, <2>2
    DEF Work, Reconcile, ReadDeployment, FetchRemoteStatus, FetchFails, InspectFunctions,
        InspectFails, CallFails
<1>6. CASE UNCHANGED vars
  BY <1>6 DEF vars
<1> QED
  BY <1>1, <1>2, <1>3, <1>4, <1>5, <1>6 DEF Next

LEMMA CopyStep ==
  ASSUME TypeOK, CacheInv, CopyInv, [Next]_vars
  PROVE  CopyInv'
<1>1. ASSUME UNCHANGED <<function, queued>>, behind \subseteq behind',
             worker'.at # "idle" => /\ worker.at # "idle"
                                    /\ worker'.copy = worker.copy
                                    /\ worker'.current = worker.current
      PROVE  CopyInv'
  BY <1>1 DEF CopyInv
<1>2. ASSUME worker' = Idle PROVE CopyInv'
  BY <1>2 DEF CopyInv, Idle
<1>3. ASSUME "Function" \in behind',
             worker' = [worker EXCEPT !.current = FALSE]
      PROVE  CopyInv'
  BY <1>3 DEF CopyInv, TypeOK, Workers
<1>4. CASE Deploy \/ Scale \/ Delete
  BY <1>3, <1>4 DEF Deploy, Scale, Delete, FunctionChanged
<1>5. CASE FirstPod \/ NextPod \/ StopPod \/ BecomeReady \/ Decide
  BY <1>1, <1>5 DEF FirstPod, NextPod, StartPod, StopPod, BecomeReady, Decide, DeploymentChanged
<1>6. CASE SyncFunction \/ SyncDeployment \/ Fire
  BY <1>6 DEF SyncFunction, SyncDeployment, Fire, CopyInv
<1>7. CASE Reconcile
  <2>1. CASE fnCache = None
    BY <1>2, <1>7, <2>1 DEF Reconcile
  <2>2. CASE fnCache # None
    <3>1. worker'.copy = fnCache /\ worker'.current = ("Function" \notin behind)
      BY <1>7, <2>2 DEF Reconcile, Idle
    <3>2. fnCache \in Functions
      BY <2>2 DEF TypeOK
    <3> QED
      BY <1>7, <3>1, <3>2 DEF Reconcile, CopyInv, CacheInv
  <2> QED
    BY <2>1, <2>2
<1>8. CASE ReconcileChildren
  BY <1>1, <1>8 DEF ReconcileChildren, TypeOK, Workers
<1>9. CASE ReadDeployment
  <2>1. CASE worker' = Idle
    BY <1>2, <2>1
  <2>2. CASE replicas # None
    <3> DEFINE found == WithoutReadyPod(worker.copy)
               next == [phase |-> found.phase, funcs |-> None]
    <3>1. /\ \/ worker' = [worker EXCEPT !.at = "fetch"]
             \/ worker' = [worker EXCEPT !.at = "write", !.poll = found.poll, !.next = next]
          /\ UNCHANGED <<function, queued, behind>> /\ worker.at = "deployment"
      BY <1>9, <2>2 DEF ReadDeployment
    <3> HIDE DEF found, next
    <3>2. worker'.copy = worker.copy /\ worker'.current = worker.current
      BY <3>1 DEF TypeOK, Workers
    <3> QED
      BY <1>1, <3>1, <3>2
  <2> QED
    BY <1>9, <2>1, <2>2 DEF ReadDeployment, Abort
<1>10. CASE FetchRemoteStatus \/ FetchFails
  BY <1>1, <1>10 DEF FetchRemoteStatus, FetchFails, TypeOK, Workers
<1>11. CASE InspectFunctions \/ InspectFails
  BY <1>1, <1>11 DEF InspectFunctions, InspectFails, AfterSilence, TypeOK, Workers
<1>12. CASE WriteStatus \/ CallFails
  BY <1>2, <1>12 DEF WriteStatus, CallFails, Abort
<1>13. CASE UNCHANGED vars
  BY <1>1, <1>13 DEF vars
<1> QED
  BY <1>4, <1>5, <1>6, <1>7, <1>8, <1>9, <1>10, <1>11, <1>12, <1>13 DEF Next, Work

-----------------------------------------------------------------------------
(* What was read.                                                          *)

\* A pod that was read to be live, or not to answer, is not going to decide.
LEMMA DecideKeeps ==
  ASSUME TypeOK, SeenInv, Decide
  PROVE  SeenInv'
<1>1. /\ pod.state = "ready" /\ Answers
      /\ UNCHANGED <<behind, queued, worker>>
  BY DEF Decide, Answers
<1>2. Answers'
  <2>1. PICK verdict \in {"live", "degraded"} : pod' = [pod EXCEPT !.state = verdict]
    BY DEF Decide
  <2>2. pod' \in Pods /\ pod'.state = verdict
    BY <2>1 DEF Decide, TypeOK, Pods
  <2> QED
    BY <2>1, <2>2, ObjectsAssumption DEF Answers
<1>3. PodAsRead => /\ worker.at = "inspect" => worker.poll
                   /\ worker.at = "write" => worker.poll
  BY <1>1 DEF SeenInv, NextIsFinal
<1> QED
  BY <1>1, <1>2, <1>3 DEF SeenInv, PodAsRead

LEMMA SeenStep ==
  ASSUME TypeOK, CacheInv, SeenInv, [Next]_vars
  PROVE  SeenInv'
<1>1. ASSUME ~PodAsRead' PROVE SeenInv'
  BY <1>1 DEF SeenInv
<1>2. ASSUME worker'.at \notin {"fetch", "inspect", "write"} PROVE SeenInv'
  BY <1>2 DEF SeenInv
<1>3. ASSUME UNCHANGED <<pod, queued>>, behind \subseteq behind',
             \/ UNCHANGED worker
             \/ worker' = [worker EXCEPT !.current = FALSE]
      PROVE  SeenInv'
  BY <1>3 DEF SeenInv, PodAsRead, NextIsFinal, Answers, TypeOK, Workers
<1>4. Idle.at = "idle"
  BY DEF Idle
<1>5. CASE Deploy \/ Scale
  BY <1>3, <1>5 DEF Deploy, Scale, FunctionChanged
<1>6. CASE Delete \/ FirstPod \/ NextPod \/ StopPod \/ BecomeReady
  BY <1>1, <1>6 DEF Delete, FirstPod, NextPod, StartPod, StopPod, BecomeReady,
                    DeploymentChanged, PodAsRead
<1>7. CASE Decide
  BY <1>7, DecideKeeps
<1>8. CASE SyncFunction \/ SyncDeployment \/ Fire \/ CallFails
  BY <1>1, <1>8 DEF SyncFunction, SyncDeployment, Fire, CallFails, Abort, PodAsRead
<1>9. CASE Reconcile
  <2>1. worker'.at \in {"idle", "children"}
    BY <1>4, <1>9 DEF Reconcile, Idle
  <2> QED
    BY <1>2, <2>1
<1>10. CASE ReconcileChildren
  BY <1>2, <1>10 DEF ReconcileChildren, TypeOK, Workers
<1>11. CASE WriteStatus
  BY <1>2, <1>4, <1>11 DEF WriteStatus, Abort
<1>12. CASE ReadDeployment
  <2>1. CASE replicas = None
    BY <1>2, <1>4, <1>12, <2>1 DEF ReadDeployment, Abort
  <2>2. CASE replicas # None /\ readyCache
    <3>1. worker'.at = "fetch" /\ UNCHANGED <<pod, queued, behind>>
      BY <1>12, <2>2 DEF ReadDeployment, TypeOK, Workers
    <3> QED
      BY <2>2, <3>1 DEF SeenInv, PodAsRead, CacheInv, Answers
  <2>3. CASE replicas # None /\ ~readyCache
    <3> DEFINE found == WithoutReadyPod(worker.copy)
    <3>1. /\ worker' = [worker EXCEPT !.at = "write", !.poll = found.poll,
                                !.next = [phase |-> found.phase, funcs |-> None]]
          /\ UNCHANGED <<pod, queued, behind>>
      BY <1>12, <2>3 DEF ReadDeployment
    <3>2. ~found.poll => worker.copy.replicas = 0 /\ found.phase = "ScaledDown"
      BY DEF WithoutReadyPod
    <3> HIDE DEF found
    <3>3. /\ worker'.at = "write" /\ worker'.poll = found.poll
          /\ worker'.copy = worker.copy
          /\ worker'.next = [phase |-> found.phase, funcs |-> None]
      BY <3>1 DEF TypeOK, Workers
    <3>4. PodAsRead => ~Answers
      BY <2>3 DEF PodAsRead, CacheInv
    <3> QED
      BY <3>1, <3>2, <3>3, <3>4 DEF SeenInv, PodAsRead, NextIsFinal, Answers
  <2> QED
    BY <2>1, <2>2, <2>3
<1>13. CASE FetchRemoteStatus
  <2> DEFINE seen == Seen(pod.state)
  <2>1. /\ worker' = [worker EXCEPT !.at = "inspect", !.next.phase = seen.phase,
                                    !.poll = seen.poll]
        /\ Answers /\ UNCHANGED <<pod, queued, behind>>
    BY <1>13 DEF FetchRemoteStatus
  <2>2. ~seen.poll => seen.phase = "Live" /\ pod.state = "live"
    BY <2>1, AnswersIs, SeenIs
  <2> HIDE DEF seen
  <2>3. worker'.at = "inspect" /\ worker'.poll = seen.poll /\ worker'.next.phase = seen.phase
    BY <2>1 DEF TypeOK, Workers, Statuses
  <2> QED
    BY <2>1, <2>2, <2>3 DEF SeenInv, Answers
<1>14. CASE FetchFails
  <2>1. worker'.at = "inspect" /\ worker'.poll /\ UNCHANGED <<pod, queued, behind>>
    BY <1>14 DEF FetchFails, TypeOK, Workers
  <2> QED
    BY <1>14, <2>1 DEF FetchFails, SeenInv, PodAsRead, Answers
<1>15. CASE InspectFunctions
  <2>1. /\ worker'.at = "write" /\ worker'.poll = worker.poll
        /\ worker'.next = [phase |-> worker.next.phase, funcs |-> pod.src]
        /\ UNCHANGED <<pod, queued, behind>> /\ Answers
    BY <1>15 DEF InspectFunctions, TypeOK, Workers, Statuses
  <2> QED
    BY <1>15, <2>1 DEF InspectFunctions, SeenInv, PodAsRead, NextIsFinal, Answers
<1>16. CASE InspectFails
  <2>1. worker'.at = "write" /\ worker'.poll
    BY <1>16 DEF InspectFails, AfterSilence, TypeOK, Workers
  <2> QED
    BY <2>1 DEF SeenInv
<1>17. CASE UNCHANGED vars
  BY <1>3, <1>17 DEF vars
<1> QED
  BY <1>5, <1>6, <1>7, <1>8, <1>9, <1>10, <1>11, <1>12, <1>13, <1>14, <1>15, <1>16, <1>17
     DEF Next, Work

-----------------------------------------------------------------------------
(* What is written last.                                                   *)

\* A status that is left as it is, with no other look to come, is true and final.
LEMMA WriteConverges ==
  ASSUME TypeOK, CacheInv, CopyInv, SeenInv, WriteStatus
  PROVE  StatusConverges'
<1> SUFFICES ASSUME Unattended', function' # None
             PROVE  /\ function'.status = TrueStatus'
                    /\ function'.status.phase \in {"Live", "ScaledDown"}
  BY DEF StatusConverges
<1>1. /\ worker.next = worker.copy.status /\ ~worker.poll
      /\ UNCHANGED <<function, behind, queued, pod>>
      /\ behind = {} /\ ~queued /\ worker.at = "write"
  <2>1. ~queued' /\ ~timer' /\ behind' = {} /\ worker.at = "write" /\ UNCHANGED pod
    BY DEF WriteStatus, Unattended
  <2>2. /\ worker.next = worker.copy.status /\ UNCHANGED <<function, behind, queued>>
        /\ timer' = (timer \/ worker.poll)
    BY <2>1 DEF WriteStatus, Abort
  <2> QED
    BY <2>1, <2>2
<1>2. worker.copy = function
  BY <1>1 DEF CopyInv
<1>3. NextIsFinal
  BY <1>1 DEF SeenInv, PodAsRead
<1>4. TrueStatus' = TrueStatus
  BY <1>1 DEF TrueStatus, Answers
<1>5. worker.next = TrueStatus /\ worker.next.phase \in {"Live", "ScaledDown"}
  <2>1. CASE /\ Answers /\ pod.state = "live"
             /\ worker.next = [phase |-> "Live", funcs |-> pod.src]
    BY <2>1, SeenIs DEF TrueStatus
  <2>2. CASE /\ ~Answers /\ worker.copy.replicas = 0
             /\ worker.next = [phase |-> "ScaledDown", funcs |-> None]
    BY <1>2, <2>2 DEF TrueStatus
  <2> QED
    BY <1>3, <2>1, <2>2 DEF NextIsFinal
<1> QED
  BY <1>1, <1>2, <1>4, <1>5

LEMMA ConvergesStep ==
  ASSUME TypeOK, CacheInv, CopyInv, SeenInv, StatusConverges, [Next]_vars
  PROVE  StatusConverges'
<1>1. ASSUME ~Unattended' PROVE StatusConverges'
  BY <1>1 DEF StatusConverges
<1>2. CASE Deploy \/ Scale \/ Delete \/ FirstPod \/ NextPod \/ StopPod \/ BecomeReady
  BY <1>1, <1>2 DEF Deploy, Scale, Delete, FirstPod, NextPod, StartPod, StopPod, BecomeReady,
                    FunctionChanged, DeploymentChanged, Unattended
<1>3. CASE SyncFunction \/ SyncDeployment \/ Fire \/ CallFails
  BY <1>1, <1>3 DEF SyncFunction, SyncDeployment, Fire, CallFails, Abort, Unattended
<1>4. CASE Decide
  <2>1. /\ UNCHANGED <<function, behind, queued, timer, worker>>
        /\ Answers /\ pod.state = "ready"
    BY <1>4 DEF Decide, Answers
  <2>2. Answers => TrueStatus.phase = Seen(pod.state).phase
    BY DEF TrueStatus
  <2>3. TrueStatus.phase = "Initializing"
    BY <2>1, <2>2 DEF Seen
  <2>4. ~(Unattended /\ function # None)
    BY <2>3 DEF StatusConverges
  <2> QED
    BY <2>1, <2>4 DEF StatusConverges, Unattended
<1>5. CASE Reconcile
  <2>1. CASE fnCache = None
    BY <1>5, <2>1 DEF Reconcile, CacheInv, StatusConverges, Unattended
  <2>2. CASE fnCache # None
    BY <1>1, <1>5, <2>2 DEF Reconcile, Idle, Unattended
  <2> QED
    BY <2>1, <2>2
<1>6. CASE ReconcileChildren
  BY <1>1, <1>6 DEF ReconcileChildren, Unattended, TypeOK, Workers
<1>7. CASE ReadDeployment
  <2> DEFINE found == WithoutReadyPod(worker.copy)
             next == [phase |-> found.phase, funcs |-> None]
  <2>1. \/ queued'
        \/ worker' = [worker EXCEPT !.at = "fetch"]
        \/ worker' = [worker EXCEPT !.at = "write", !.poll = found.poll, !.next = next]
    BY <1>7 DEF ReadDeployment, Abort
  <2> HIDE DEF found, next
  <2> QED
    BY <1>1, <2>1 DEF Unattended, TypeOK, Workers
<1>8. CASE FetchRemoteStatus \/ FetchFails
  BY <1>1, <1>8 DEF FetchRemoteStatus, FetchFails, Unattended, TypeOK, Workers
<1>9. CASE InspectFunctions \/ InspectFails
  BY <1>1, <1>9 DEF InspectFunctions, InspectFails, AfterSilence, Unattended, TypeOK, Workers
<1>10. CASE WriteStatus
  BY <1>10, WriteConverges
<1>11. CASE UNCHANGED vars
  BY <1>11 DEF vars, StatusConverges, Unattended, TrueStatus, Answers
<1> QED
  BY <1>2, <1>3, <1>4, <1>5, <1>6, <1>7, <1>8, <1>9, <1>10, <1>11 DEF Next, Work

-----------------------------------------------------------------------------
(* The theorems.                                                           *)

LEMMA InitInv == Init => IInv
<1> SUFFICES ASSUME Init PROVE IInv
  OBVIOUS
<1>1. TypeOK
  <2>1. counts \in [changes : 0 .. MaxChanges, errors : 0 .. MaxErrors, pods : 0 .. MaxPods]
    BY BoundsAssumption DEF Init
  <2>2. worker \in Workers
    BY StatusesAre DEF Init
  <2>3. readyCache \in BOOLEAN /\ queued \in BOOLEAN /\ timer \in BOOLEAN
    BY DEF Init
  <2> QED
    BY <2>1, <2>2, <2>3 DEF Init, TypeOK
<1>2. worker.at = "idle" /\ function = None
  BY DEF Init, Idle
<1>3. CacheInv
  <2>1. ~Answers /\ ~readyCache
    BY DEF Init, Answers
  <2>2. readyCache = Answers
    BY <2>1, <1>1 DEF TypeOK, Answers
  <2> QED
    BY <2>2 DEF Init, CacheInv
<1>4. CopyInv /\ SeenInv /\ StatusConverges
  BY <1>2 DEF CopyInv, SeenInv, StatusConverges
<1> QED
  BY <1>1, <1>3, <1>4 DEF IInv

\* What caches, copies and a Reconcile under way know of the Function and its pod
\* is as IInv says in every reachable state.
THEOREM InductiveInvariant == Spec => []IInv
<1>1. IInv /\ [Next]_vars => IInv'
  BY TypeStep, CacheStep, CopyStep, SeenStep, ConvergesStep DEF IInv
<1> QED
  BY <1>1, InitInv, PTL DEF Spec

\* The state is of its types.
THEOREM TypeCorrect == Spec => []TypeOK
<1>1. IInv => TypeOK
  BY DEF IInv
<1> QED
  BY <1>1, InductiveInvariant, PTL

\* Whenever nothing will make the operator look at the Function again, its status
\* is what its pod tells and final: no decision, replacement, redeploy, conflict or
\* missing answer leaves a stale one behind (function_controller.go:427-480).
THEOREM StatusConvergesCorrect == Spec => []StatusConverges
<1>1. IInv => StatusConverges
  BY DEF IInv
<1> QED
  BY <1>1, InductiveInvariant, PTL
===============================================================================
