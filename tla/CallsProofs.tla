----------------------------- MODULE CallsProofs -----------------------------
(***************************************************************************)
(* Proofs about Calls for any calls, Functions, names, ids and bounds.     *)
(*                                                                         *)
(* A call for an id stays in that id because the table it is looked up in  *)
(* is made of one list by one loop (HistoryInv and RefreshIsRight, both    *)
(* from RouterProofs).  An event loop is always busy with a call that was  *)
(* sent to its own pod, which TypeOK says and every step keeps.            *)
(***************************************************************************)
EXTENDS Calls, RouterProofs

-----------------------------------------------------------------------------
(* The invariant.                                                          *)

\* What TypeOK says of the calls and of the event loops that run them,
CallsInv ==
    /\ pc \in [Call -> PC]
    /\ target \in [Call -> Unit \cup {None}]
    /\ \A c \in Call : pc[c] \in AtRuntime => target[c] \in Unit
    /\ response \in [Call -> Status \cup {None}]
    /\ answer \in [Call -> Status \cup {None}]
    /\ loop \in [Unit -> Call \cup {None}]
    /\ \A u \in Unit : loop[u] # None =>
          /\ target[loop[u]] = u
          /\ pc[loop[u]] \in {"running", "peer", "returned"}

\* and of the pods.
PodsInv ==
    /\ pod = [u \in Unit |-> pod[u]]
    /\ \A u \in Unit : pod[u] \in Sources[u] \cup {None}
    /\ closing \subseteq {u \in Unit : pod[u] # None}
    /\ stops \in 0 .. MaxStops

IInv ==
    /\ RouterInv
    /\ CallsInv
    /\ PodsInv
    /\ StaysInGroup

-----------------------------------------------------------------------------
(* Steps of calls.                                                         *)

\* A group's route leads into the group, whatever list the table is made of.
LEMMA RoutesStayInGroup ==
  ASSUME RouterInv, NEW group \in Group, group # NoGroup, NEW name \in FnName,
         routes[<<group, name>>] # None,
         NEW K \in Nat, \A u \in Unit : Rank[u] <= K
  PROVE  GroupOf[routes[<<group, name>>]] = group
<1> DEFINE key == <<group, name>>
<1>1. hist[1] \in Lists /\ routes = NextRoutes(hist[1])
  BY DEF RouterInv, RoutesTypeOK, HistoryInv
<1>2. Table!RightFor(hist[1], routes)
  BY <1>1, RefreshIsRight
<1>3. key \in Table!Keys /\ key[1] = group
  BY DEF Table!Keys
<1>4. routes[key] \in Table!Exporters(hist[1], key)
  BY <1>2, <1>3 DEF Table!RightFor
<1> QED
  BY <1>3, <1>4 DEF Table!Exporters

\* A step that sends no call anywhere keeps every call in its group.
LEMMA SameTargets ==
  ASSUME StaysInGroup, target' = target
  PROVE  StaysInGroup'
BY DEF StaysInGroup

\* A call that no event loop is busy with ends, or goes on, on its way.
LEMMA MoveOnTheWay ==
  ASSUME CallsInv, NEW c \in Call, pc[c] \notin {"running", "peer", "returned"},
         NEW place \in PC, GoTo(c, place), place \in AtRuntime => pc[c] \in AtRuntime,
         target' = target, loop' = loop,
         response' \in [Call -> Status \cup {None}], answer' \in [Call -> Status \cup {None}]
  PROVE  CallsInv'
<1>1. /\ pc' \in [Call -> PC] /\ pc'[c] = place
      /\ \A d \in Call \ {c} : pc'[d] = pc[d]
  BY DEF CallsInv, GoTo
<1>2. ASSUME NEW u \in Unit, loop[u] # None
      PROVE  loop[u] \in Call \ {c}
  BY <1>2 DEF CallsInv
<1> QED
  BY <1>1, <1>2 DEF CallsInv

\* A step of calls alone leaves the router and the pods as they are.
LEMMA CallsAlone ==
  ASSUME IInv, UNCHANGED routing, UNCHANGED <<pod, closing, stops>>, CallsInv', StaysInGroup'
  PROVE  IInv'
BY DEF IInv, routing, RouterInv, RoutesTypeOK, HistoryInv, NextRoutes, PodsInv

LEMMA RefuseKeeps ==
  ASSUME IInv, NEW c \in Call, pc[c] \in {"new", "forwarded", "sent"},
         NEW status \in Status, Refuse(c, status)
  PROVE  IInv'
<1>1. UNCHANGED routing /\ target' = target /\ response' = response /\ loop' = loop
      /\ UNCHANGED <<pod, closing, stops>> /\ CallsInv /\ StaysInGroup
  BY DEF Refuse, pods, IInv
<1>2. answer' \in [Call -> Status \cup {None}]
  BY <1>1 DEF Refuse, CallsInv
<1>3. CallsInv'
  BY <1>1, <1>2, MoveOnTheWay DEF Refuse, PC, AtRuntime, CallsInv
<1> QED
  BY <1>1, <1>3, SameTargets, CallsAlone

\* A response is sent once: what there is already stays.
LEMMA RespondEffect ==
  ASSUME CallsInv, NEW c \in Call, NEW status \in Status, Respond(c, status)
  PROVE  /\ response' \in [Call -> Status \cup {None}]
         /\ \A d \in Call : response[d] # None => response'[d] = response[d]
BY DEF CallsInv, Respond, Unsent

\* The event loop that was busy with c is free again.
LEMMA LoopFreed ==
  ASSUME CallsInv, NEW c \in Call, pc[c] \in {"running", "peer", "returned"},
         NEW place \in {"over", "awaiting"}, GoTo(c, place),
         loop' = [loop EXCEPT ![target[c]] = None],
         target' = target, answer' = answer, response' \in [Call -> Status \cup {None}]
  PROVE  CallsInv'
<1>1. /\ pc' \in [Call -> PC] /\ pc'[c] = place
      /\ \A d \in Call \ {c} : pc'[d] = pc[d]
  BY DEF CallsInv, GoTo, PC
<1>2. target[c] \in Unit
  BY DEF CallsInv, AtRuntime
<1>3. /\ loop' \in [Unit -> Call \cup {None}]
      /\ loop'[target[c]] = None
      /\ \A u \in Unit \ {target[c]} : loop'[u] = loop[u]
  BY <1>2 DEF CallsInv
<1>4. ASSUME NEW u \in Unit, loop'[u] # None
      PROVE  loop[u] = loop'[u] /\ loop[u] \in Call \ {c}
  BY <1>3, <1>4 DEF CallsInv
<1>5. \A u \in Unit : loop'[u] # None =>
          /\ target'[loop'[u]] = u
          /\ pc'[loop'[u]] \in {"running", "peer", "returned"}
  BY <1>1, <1>4 DEF CallsInv
<1>6. \A d \in Call : pc'[d] \in AtRuntime => target'[d] \in Unit
  BY <1>1, <1>2 DEF CallsInv
<1> QED
  BY <1>1, <1>3, <1>5, <1>6 DEF CallsInv

\* The event loop stays busy with c.
LEMMA LoopKept ==
  ASSUME CallsInv, NEW c \in Call, pc[c] \in {"running", "peer"},
         NEW place \in {"peer", "returned"}, GoTo(c, place),
         UNCHANGED <<target, response, answer, loop>>
  PROVE  CallsInv'
<1>1. /\ pc' \in [Call -> PC] /\ pc'[c] = place
      /\ \A d \in Call \ {c} : pc'[d] = pc[d]
  BY DEF CallsInv, GoTo, PC
<1>2. target[c] \in Unit
  BY DEF CallsInv, AtRuntime
<1>3. \A u \in Unit : loop'[u] # None =>
          /\ target'[loop'[u]] = u
          /\ pc'[loop'[u]] \in {"running", "peer", "returned"}
  BY <1>1 DEF CallsInv
<1> QED
  BY <1>1, <1>2, <1>3 DEF CallsInv

LEMMA ForwardCallKeeps ==
  ASSUME IInv, NEW c \in Call, ForwardCall(c)
  PROVE  IInv'
<1>1. CASE GoTo(c, "forwarded") /\ UNCHANGED <<routing, target, response, answer, pods>>
  <2>1. /\ pc[c] = "new" /\ UNCHANGED routing /\ target' = target /\ response' = response
        /\ answer' = answer /\ loop' = loop /\ UNCHANGED <<pod, closing, stops>>
        /\ CallsInv /\ StaysInGroup
    BY <1>1 DEF ForwardCall, pods, IInv
  <2>2. CallsInv'
    BY <1>1, <2>1, MoveOnTheWay DEF PC, AtRuntime, CallsInv
  <2> QED
    BY <2>1, <2>2, SameTargets, CallsAlone
<1>2. CASE Refuse(c, "400")
  BY <1>2, RefuseKeeps DEF ForwardCall, Status
<1> QED
  BY <1>1, <1>2 DEF ForwardCall

\* A call is sent to a Function, and has not been sent before.
LEMMA SendKeeps ==
  ASSUME IInv, NEW c \in Call, pc[c] \in {"new", "forwarded"}, NEW u \in Unit,
         Via[c] = "mesh" /\ CallGroup[c] # NoGroup => GroupOf[u] = CallGroup[c],
         GoTo(c, "sent"), target' = [target EXCEPT ![c] = u],
         UNCHANGED <<routing, response, answer, pods>>
  PROVE  IInv'
<1>1. UNCHANGED routing /\ UNCHANGED <<pod, closing, stops>> /\ CallsInv /\ StaysInGroup
      /\ response' = response /\ answer' = answer /\ loop' = loop
  BY DEF pods, IInv
<1>2. /\ pc' \in [Call -> PC] /\ target' \in [Call -> Unit \cup {None}]
      /\ pc'[c] = "sent" /\ target'[c] = u
      /\ \A d \in Call \ {c} : pc'[d] = pc[d] /\ target'[d] = target[d]
  BY <1>1 DEF CallsInv, GoTo, PC
<1>3. \A v \in Unit : loop[v] # None => loop[v] \in Call \ {c}
  BY <1>1 DEF CallsInv
<1>4. CallsInv'
  BY <1>1, <1>2, <1>3 DEF CallsInv
<1>5. StaysInGroup'
  BY <1>1, <1>2 DEF StaysInGroup
<1> QED
  BY <1>1, <1>4, <1>5, CallsAlone

LEMMA HandleCallKeeps ==
  ASSUME IInv, NEW c \in Call, HandleCall(c),
         NEW K \in Nat, \A u \in Unit : Rank[u] <= K
  PROVE  IInv'
<1> DEFINE route == Lookup(CallGroup[c], CallName[c])
<1>1. CASE /\ Found(route)
           /\ GoTo(c, "sent")
           /\ target' = [target EXCEPT ![c] = route]
           /\ UNCHANGED <<routing, response, answer, pods>>
  <2>1. CallGroup[c] \in Group /\ CallName[c] \in FnName /\ RouterInv
    BY CallsAssumption DEF IInv
  <2>2. route = routes[<<CallGroup[c], CallName[c]>>] /\ route # None
    BY <1>1 DEF Lookup, Found
  <2>3. route \in Unit
    BY <2>1, <2>2 DEF RouterInv, RoutesTypeOK, Keys
  <2>4. CallGroup[c] # NoGroup => GroupOf[route] = CallGroup[c]
    BY <2>1, <2>2, RoutesStayInGroup
  <2> HIDE DEF route
  <2> QED
    BY <1>1, <2>3, <2>4, SendKeeps DEF HandleCall
<1>2. CASE Refuse(c, "404")
  BY <1>2, RefuseKeeps DEF HandleCall, Status
<1> QED
  BY <1>1, <1>2 DEF HandleCall

LEMMA CallDirectlyKeeps ==
  ASSUME IInv, NEW c \in Call, CallDirectly(c)
  PROVE  IInv'
BY SendKeeps, CallsAssumption DEF CallDirectly

LEMMA ConnectionRefusedKeeps ==
  ASSUME IInv, NEW c \in Call, ConnectionRefused(c)
  PROVE  IInv'
BY RefuseKeeps DEF ConnectionRefused, Status

\* The client gets an answer: nothing else changes.
LEMMA AnswerKeeps ==
  ASSUME IInv, NEW c \in Call, NEW status \in Status, answer' = [answer EXCEPT ![c] = status],
         UNCHANGED <<routing, pc, target, response, pods>>
  PROVE  IInv'
<1>1. CallsInv /\ StaysInGroup /\ target' = target /\ UNCHANGED routing
      /\ UNCHANGED <<pod, closing, stops>>
  BY DEF IInv, pods
<1>2. CallsInv'
  BY <1>1 DEF CallsInv, pods
<1> QED
  BY <1>1, <1>2, SameTargets, CallsAlone

LEMMA GiveUpOrDeliverKeeps ==
  ASSUME IInv, NEW c \in Call, GiveUp(c) \/ Deliver(c)
  PROVE  IInv'
<1>1. response[c] \in Status \cup {None}
  BY DEF IInv, CallsInv
<1> QED
  BY <1>1, AnswerKeeps DEF GiveUp, Deliver, Status

-----------------------------------------------------------------------------
(* Steps of runtimes.                                                      *)

LEMMA ReceiveKeeps ==
  ASSUME IInv, NEW c \in Call, Receive(c)
  PROVE  IInv'
<1>1. /\ UNCHANGED routing /\ UNCHANGED <<pod, closing, stops>> /\ target' = target
      /\ answer' = answer /\ CallsInv /\ StaysInGroup
      /\ pc[c] = "sent" /\ target[c] \in Unit
  BY DEF Receive, IInv, CallsInv, AtRuntime
<1>2. CASE GoTo(c, "over") /\ Respond(c, "404") /\ loop' = loop
  <2>1. response' \in [Call -> Status \cup {None}]
    BY <1>1, <1>2, RespondEffect DEF Status
  <2>2. CallsInv'
    BY <1>1, <1>2, <2>1, MoveOnTheWay DEF PC, AtRuntime, CallsInv
  <2> QED
    BY <1>1, <2>2, SameTargets, CallsAlone
<1>3. CASE /\ GoTo(c, "running") /\ loop' = [loop EXCEPT ![target[c]] = c] /\ response' = response
  <2>1. /\ pc' \in [Call -> PC] /\ pc'[c] = "running"
        /\ \A d \in Call \ {c} : pc'[d] = pc[d]
    BY <1>1, <1>3 DEF CallsInv, GoTo, PC
  <2>2. /\ loop' \in [Unit -> Call \cup {None}]
        /\ loop'[target[c]] = c
        /\ \A u \in Unit \ {target[c]} : loop'[u] = loop[u]
    BY <1>1, <1>3 DEF CallsInv
  <2>3. \A u \in Unit : loop'[u] # None =>
            /\ target'[loop'[u]] = u
            /\ pc'[loop'[u]] \in {"running", "peer", "returned"}
    BY <1>1, <2>1, <2>2 DEF CallsInv
  <2>4. \A d \in Call : pc'[d] \in AtRuntime => target'[d] \in Unit
    BY <1>1, <2>1 DEF CallsInv
  <2>5. CallsInv'
    BY <1>1, <1>3, <2>1, <2>2, <2>3, <2>4 DEF CallsInv
  <2> QED
    BY <1>1, <2>5, SameTargets, CallsAlone
<1> QED
  BY <1>2, <1>3 DEF Receive

LEMMA PeerKeeps ==
  ASSUME IInv, NEW c \in Call, CallPeer(c) \/ PeerAnswers(c)
  PROVE  IInv'
<1>1. /\ UNCHANGED routing /\ UNCHANGED <<pod, closing, stops>>
      /\ UNCHANGED <<target, response, answer, loop>> /\ CallsInv /\ StaysInGroup
  BY DEF CallPeer, PeerAnswers, IInv, pods
<1>2. CallsInv'
  BY <1>1, LoopKept DEF CallPeer, PeerAnswers
<1> QED
  BY <1>1, <1>2, SameTargets, CallsAlone

LEMMA FailsKeeps ==
  ASSUME IInv, NEW c \in Call, PeerFails(c) \/ Throw(c)
  PROVE  IInv'
<1>1. /\ Fails(c) /\ pc[c] \in {"running", "peer", "returned"}
      /\ UNCHANGED routing /\ UNCHANGED <<pod, closing, stops>> /\ target' = target
      /\ answer' = answer /\ CallsInv /\ StaysInGroup
  BY DEF PeerFails, Throw, Fails, IInv
<1>2. response' \in [Call -> Status \cup {None}]
  BY <1>1, RespondEffect DEF Fails, Status
<1>3. CallsInv'
  BY <1>1, <1>2, LoopFreed DEF Fails
<1> QED
  BY <1>1, <1>3, SameTargets, CallsAlone

LEMMA ReturnKeeps ==
  ASSUME IInv, NEW c \in Call, Return(c)
  PROVE  IInv'
<1>1. /\ pc[c] \in {"running", "peer", "returned"}
      /\ loop' = [loop EXCEPT ![target[c]] = None]
      /\ UNCHANGED routing /\ UNCHANGED <<pod, closing, stops>> /\ target' = target
      /\ answer' = answer /\ CallsInv /\ StaysInGroup
  BY DEF Return, IInv
<1>2. /\ GoTo(c, "over") \/ GoTo(c, "awaiting")
      /\ response' \in [Call -> Status \cup {None}]
  <2>1. CASE Respond(c, "200") /\ GoTo(c, "over")
    BY <1>1, <2>1, RespondEffect DEF Status
  <2>2. CASE response' = response /\ GoTo(c, "awaiting")
    BY <1>1, <2>2 DEF CallsInv
  <2> QED
    BY <2>1, <2>2 DEF Return
<1>3. CallsInv'
  BY <1>1, <1>2, LoopFreed
<1> QED
  BY <1>1, <1>3, SameTargets, CallsAlone

LEMMA SettleKeeps ==
  ASSUME IInv, NEW c \in Call, Settle(c)
  PROVE  IInv'
<1>1. /\ UNCHANGED routing /\ UNCHANGED <<pod, closing, stops>> /\ target' = target
      /\ answer' = answer /\ loop' = loop /\ pc[c] = "awaiting" /\ GoTo(c, "over")
      /\ CallsInv /\ StaysInGroup
  BY DEF Settle, IInv, pods
<1>2. response' \in [Call -> Status \cup {None}]
  BY <1>1, RespondEffect DEF Settle, Status
<1>3. CallsInv'
  BY <1>1, <1>2, MoveOnTheWay DEF PC, AtRuntime, CallsInv
<1> QED
  BY <1>1, <1>3, SameTargets, CallsAlone

LEMMA TimerFiresKeeps ==
  ASSUME IInv, NEW c \in Call, TimerFires(c)
  PROVE  IInv'
<1>1. /\ UNCHANGED routing /\ UNCHANGED <<pod, closing, stops>> /\ target' = target
      /\ answer' = answer /\ loop' = loop /\ pc' = pc /\ CallsInv /\ StaysInGroup
  BY DEF TimerFires, IInv, pods
<1>2. response' \in [Call -> Status \cup {None}]
  BY <1>1, RespondEffect DEF TimerFires, Status
<1>3. CallsInv'
  BY <1>1, <1>2 DEF CallsInv
<1> QED
  BY <1>1, <1>3, SameTargets, CallsAlone

-----------------------------------------------------------------------------
(* Steps of pods and of the router.                                        *)

\* A step of pods alone leaves the router and the calls as they are.
LEMMA PodsAlone ==
  ASSUME IInv, UNCHANGED routing, UNCHANGED <<calling, loop>>, PodsInv'
  PROVE  IInv'
BY DEF IInv, routing, calling, RouterInv, RoutesTypeOK, HistoryInv, NextRoutes, CallsInv,
   StaysInGroup

LEMMA StopsType ==
  ASSUME PodsInv, Stops
  PROVE  stops' \in 0 .. MaxStops
BY CallsAssumption DEF PodsInv, Stops

LEMMA ShutdownKeeps ==
  ASSUME IInv, NEW u \in Unit, Shutdown(u)
  PROVE  IInv'
<1>1. PodsInv /\ UNCHANGED routing /\ UNCHANGED <<calling, loop>> /\ pod' = pod
  BY DEF IInv, Shutdown
<1>2. PodsInv'
  BY <1>1, StopsType DEF PodsInv, Shutdown, FreeLoop
<1> QED
  BY <1>1, <1>2, PodsAlone

LEMMA StartPodKeeps ==
  ASSUME IInv, NEW u \in Unit, StartPod(u)
  PROVE  IInv'
<1>1. PICK names \in Sources[u] : pod' = [pod EXCEPT ![u] = names]
  BY DEF StartPod
<1>2. /\ PodsInv /\ UNCHANGED routing /\ UNCHANGED <<calling, loop>>
      /\ closing' = closing /\ stops' = stops /\ u \notin closing
  BY DEF IInv, PodsInv, StartPod
<1>3. /\ pod' = [v \in Unit |-> pod'[v]] /\ pod'[u] = names
      /\ \A v \in Unit \ {u} : pod'[v] = pod[v]
  BY <1>1, <1>2 DEF PodsInv
<1>4. PodsInv'
  BY <1>2, <1>3 DEF PodsInv
<1> QED
  BY <1>2, <1>4, PodsAlone

\* What a process was at is lost with it; its event loop is nobody's.
LEMMA ExitKeeps ==
  ASSUME IInv, NEW u \in Unit, Exit(u), stops' \in 0 .. MaxStops
  PROVE  IInv'
<1> DEFINE lost == {c \in Call : target[c] = u /\ pc[c] \in AtRuntime}
<1>1. RouterInv /\ CallsInv /\ PodsInv /\ StaysInGroup
  BY DEF IInv
<1>2. UNCHANGED routing /\ target' = target /\ response' = response
  BY DEF Exit
<1>3. /\ pc' = [c \in Call |-> IF c \in lost THEN "over" ELSE pc[c]]
      /\ answer' = [c \in Call |->
            IF c \in lost /\ response[c] = None /\ answer[c] = None THEN "502" ELSE answer[c]]
      /\ loop' = [loop EXCEPT ![u] = None]
  BY DEF Exit
<1>4. answer' \in [Call -> Status \cup {None}] /\ pc' \in [Call -> PC]
  BY <1>1, <1>3 DEF CallsInv, Status, PC
<1>5. \A c \in Call : pc'[c] \in AtRuntime => target[c] \in Unit
  BY <1>1, <1>3 DEF CallsInv, AtRuntime
<1>6. /\ loop' \in [Unit -> Call \cup {None}]
      /\ \A v \in Unit : loop'[v] # None => v # u /\ loop'[v] = loop[v]
  BY <1>1, <1>3 DEF CallsInv
<1>7. ASSUME NEW v \in Unit, loop'[v] # None
      PROVE  target[loop'[v]] = v /\ pc'[loop'[v]] \in {"running", "peer", "returned"}
  <2>1. v # u /\ loop'[v] = loop[v] /\ loop[v] \in Call
    BY <1>1, <1>6, <1>7 DEF CallsInv
  <2>2. target[loop[v]] = v /\ pc[loop[v]] \in {"running", "peer", "returned"}
    BY <1>1, <1>7, <2>1 DEF CallsInv
  <2> QED
    BY <1>3, <2>1, <2>2
<1>8. CallsInv'
  BY <1>1, <1>2, <1>4, <1>5, <1>6, <1>7 DEF CallsInv
<1>9. PodsInv'
  <2>1. /\ pod' = [v \in Unit |-> pod'[v]] /\ pod'[u] = None
        /\ \A v \in Unit \ {u} : pod'[v] = pod[v]
    BY <1>1 DEF PodsInv, Exit
  <2> QED
    BY <1>1, <2>1 DEF PodsInv, Exit
<1>10. RouterInv' /\ StaysInGroup'
  BY <1>1, <1>2, SameTargets DEF routing, RouterInv, RoutesTypeOK, HistoryInv, NextRoutes
<1> QED
  BY <1>8, <1>9, <1>10 DEF IInv

LEMMA ProcessEndKeeps ==
  ASSUME IInv, NEW u \in Unit, ExitAfterShutdown(u) \/ Kill(u)
  PROVE  IInv'
<1>1. stops' \in 0 .. MaxStops
  BY StopsType DEF ExitAfterShutdown, Kill, IInv, PodsInv
<1> QED
  BY <1>1, ExitKeeps DEF ExitAfterShutdown, Kill

LEMMA RoutesNextKeeps ==
  ASSUME IInv, RoutesNext, UNCHANGED <<calling, pods>>,
         NEW K \in Nat, \A u \in Unit : Rank[u] <= K
  PROVE  IInv'
<1>1. RouterInv'
  BY RouterStep DEF IInv
<1>2. CallsInv' /\ PodsInv' /\ StaysInGroup'
  BY DEF IInv, calling, pods, CallsInv, PodsInv, StaysInGroup
<1> QED
  BY <1>1, <1>2 DEF IInv

-----------------------------------------------------------------------------
(* The theorems.                                                           *)

LEMMA InitEstablishes == Init => IInv
<1> SUFFICES ASSUME Init  PROVE IInv
  OBVIOUS
<1>1. RouterInv /\ exported \in Lists
  BY InitRouterInv DEF Init, RoutesInit
<1>2. CallsInv
  BY DEF Init, CallsInv, PC, AtRuntime
<1>3. PodsInv
  BY <1>1, CallsAssumption DEF Init, PodsInv, Lists
<1>4. StaysInGroup
  BY DEF Init, StaysInGroup
<1> QED
  BY <1>1, <1>2, <1>3, <1>4 DEF IInv

LEMMA NextPreserves ==
  ASSUME NEW K \in Nat, \A u \in Unit : Rank[u] <= K
  PROVE  IInv /\ [Next]_vars => IInv'
<1> SUFFICES ASSUME IInv, [Next]_vars  PROVE IInv'
  OBVIOUS
<1>1. CASE RoutesNext /\ UNCHANGED <<calling, pods>>
  BY <1>1, RoutesNextKeeps
<1>2. ASSUME NEW c \in Call, OnTheWay(c) \/ GiveUp(c)
      PROVE  IInv'
  BY <1>2, ForwardCallKeeps, HandleCallKeeps, CallDirectlyKeeps, ConnectionRefusedKeeps,
     GiveUpOrDeliverKeeps DEF OnTheWay
<1>3. ASSUME NEW c \in Call, Handle(c) \/ Settle(c) \/ TimerFires(c)
      PROVE  IInv'
  BY <1>3, ReceiveKeeps, PeerKeeps, FailsKeeps, ReturnKeeps, SettleKeeps, TimerFiresKeeps
     DEF Handle
<1>4. ASSUME NEW u \in Unit, Shutdown(u) \/ ExitAfterShutdown(u) \/ Kill(u) \/ StartPod(u)
      PROVE  IInv'
  BY <1>4, ShutdownKeeps, ProcessEndKeeps, StartPodKeeps
<1>5. CASE UNCHANGED vars
  <2>1. UNCHANGED routing /\ UNCHANGED <<calling, loop>> /\ UNCHANGED pods
    BY <1>5 DEF vars, pods
  <2>2. PodsInv'
    BY <2>1 DEF IInv, PodsInv, pods
  <2> QED
    BY <2>1, <2>2, PodsAlone
<1> QED
  BY <1>1, <1>2, <1>3, <1>4, <1>5 DEF Next

\* The inductive invariant holds in every reachable state.
THEOREM InductiveInvariant ==
  ASSUME NEW K \in Nat, \A u \in Unit : Rank[u] <= K
  PROVE  Spec => []IInv
<1> QED
  BY InitEstablishes, NextPreserves, PTL DEF Spec

\* The types of all variables; an event loop is busy only with a call of its own pod
\* (Calls.TypeOK).
THEOREM TypeCorrect ==
  ASSUME NEW K \in Nat, \A u \in Unit : Rank[u] <= K
  PROVE  Spec => []TypeOK
<1>1. IInv => TypeOK
  BY DEF IInv, RouterInv, CallsInv, PodsInv, TypeOK
<1> QED
  BY <1>1, InductiveInvariant, PTL

\* A call for an id is only ever sent to a Function of that id, however the table is
\* replaced while calls are looked up (Calls.StaysInGroup).
THEOREM StaysInGroupCorrect ==
  ASSUME NEW K \in Nat, \A u \in Unit : Rank[u] <= K
  PROVE  Spec => []StaysInGroup
<1>1. IInv => StaysInGroup
  BY DEF IInv
<1> QED
  BY <1>1, InductiveInvariant, PTL

\* A runtime responds to a call once, in any race of a promise with its timer
\* (Calls.RespondsOnce).
THEOREM RespondsOnceCorrect ==
  ASSUME NEW K \in Nat, \A u \in Unit : Rank[u] <= K
  PROVE  Spec => RespondsOnce
<1>1. ASSUME IInv, [Next]_vars, NEW c \in Call, response[c] # None
      PROVE  response'[c] = response[c]
  <2>1. CallsInv
    BY <1>1 DEF IInv
  <2>2. ASSUME NEW d \in Call, NEW status \in Status, Respond(d, status)
        PROVE  response'[c] = response[c]
    BY <1>1, <2>1, <2>2, RespondEffect
  <2>3. ASSUME NEW d \in Call, Handle(d) \/ Settle(d) \/ TimerFires(d)
        PROVE  response'[c] = response[c]
    <3>1. \/ response' = response
          \/ \E status \in {"200", "404", "500", "504"} : Respond(d, status)
      BY <2>3 DEF Handle, Receive, CallPeer, PeerAnswers, PeerFails, Return, Throw, Fails,
         Settle, TimerFires
    <3> QED
      BY <2>2, <3>1 DEF Status
  <2>4. ASSUME NEW d \in Call, OnTheWay(d) \/ GiveUp(d)
        PROVE  response' = response
    BY <2>4 DEF OnTheWay, ForwardCall, HandleCall, CallDirectly, ConnectionRefused, Deliver,
       GiveUp, Refuse
  <2>5. ASSUME NEW u \in Unit, Shutdown(u) \/ ExitAfterShutdown(u) \/ Kill(u) \/ StartPod(u)
        PROVE  response' = response
    BY <2>5 DEF Shutdown, ExitAfterShutdown, Kill, Exit, StartPod, calling
  <2> QED
    BY <1>1, <2>3, <2>4, <2>5 DEF Next, vars, calling
<1>2. IInv /\ [Next]_vars =>
          [\A c \in Call : response[c] # None => response'[c] = response[c]]_vars
  BY <1>1
<1> QED
  BY <1>2, InductiveInvariant, PTL DEF Spec, RespondsOnce

\* The calls leave the router's promise alone: within the mesh too the table is right for
\* one moment, and never for an earlier one than before (Router.RoutesAreOfOneMoment).
THEOREM MeshRoutesAreOfOneMoment ==
  ASSUME NEW K \in Nat, \A u \in Unit : Rank[u] <= K
  PROVE  Spec => RoutesAreOfOneMoment
<1>1. Init => RouterInv /\ Table!Init
  BY InitRouterInv DEF Init
<1>2. [Next]_vars => [RoutesNext]_routing
  BY DEF Next, OnTheWay, ForwardCall, HandleCall, CallDirectly, ConnectionRefused, Deliver,
     GiveUp, Refuse, Handle, Receive, CallPeer, PeerAnswers, PeerFails, Return, Throw, Fails,
     Settle, TimerFires, Shutdown, ExitAfterShutdown, Kill, Exit, StartPod, vars
<1> QED
  BY <1>1, <1>2, RouterStep, PTL DEF Spec, RoutesAreOfOneMoment, Table!Spec
=============================================================================
