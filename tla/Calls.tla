-------------------------------- MODULE Calls --------------------------------
(***************************************************************************)
(* Calls through the mesh: from a client, by way of the API's fallback     *)
(* (src/internal/api/server.go), the router (src/internal/router/          *)
(* server.go) and the runtime of a Function (src/runtime/server.js), and   *)
(* on to a peer if the function that runs calls one.                       *)
(*                                                                         *)
(* A runtime is single-threaded: a function of /call runs inside its event *)
(* loop, which meanwhile answers nothing, fires no timer and sees no       *)
(* signal.  A function of /await may return a promise and free the loop.   *)
(* Clients give up; what they asked for goes on.                           *)
(***************************************************************************)
EXTENDS Router

CONSTANTS
    Call,      \* calls from outside
    Via,       \* Via[c]: "mesh" (the router or the API) or "direct" to a runtime
    Path,      \* Path[c]: "call" or "await"; the mesh uses "call" only
    CallGroup, \* the id in its URL, NoGroup if there is none
    CallName,  \* the function it names
    CallUnit,  \* the runtime a direct call goes to
    Async,     \* functions that return a promise
    Remote,    \* Remote[n]: the function n calls at a peer, and the peer; or None
               \* (one hop: what it calls there calls no other)
    MaxStops   \* bound: pods that are stopped or killed

ASSUME CallsAssumption ==
    /\ Via \in [Call -> {"mesh", "direct"}]
    /\ Path \in [Call -> {"call", "await"}]
    /\ \A c \in Call : Via[c] = "mesh" => Path[c] = "call"
    /\ CallGroup \in [Call -> Group]
    /\ CallName \in [Call -> FnName]
    /\ CallUnit \in [Call -> Unit]
    /\ Async \subseteq FnName
    /\ Remote \in [FnName -> [unit : Unit, name : FnName] \cup {None}]
    /\ \A n \in FnName : Remote[n] # None => Remote[Remote[n].name] = None
    /\ None \notin Call
    /\ MaxStops \in Nat

VARIABLES
    pc,       \* where each call stands
    target,   \* the Function it was sent to
    response, \* what the runtime has sent (res.headersSent), or None
    answer,   \* what the client has got, or None
    pod,      \* what the pod of each Function exports, or None
    closing,  \* pods that have received SIGTERM
    loop,     \* the call each event loop is busy with, or None
    stops     \* pods stopped so far

calling == <<pc, target, response, answer>>
pods == <<pod, closing, loop, stops>>
vars == <<routing, calling, pods>>

\* "forwarded" from the API to the router; "sent" to a runtime, maybe waiting for
\* its event loop; "peer" waiting for a peer, event loop and all; "returned" the
\* peer has answered; "awaiting" a promise; "over" the runtime is done with it.
PC == {"new", "forwarded", "sent", "running", "peer", "returned", "awaiting", "over"}
AtRuntime == {"sent", "running", "peer", "returned", "awaiting"}

Status == {"200", "400", "404", "500", "502", "504"}

TypeOK ==
    /\ RoutesTypeOK
    /\ pc \in [Call -> PC]
    /\ target \in [Call -> Unit \cup {None}]
    /\ \A c \in Call : pc[c] \in AtRuntime => target[c] \in Unit
    /\ response \in [Call -> Status \cup {None}]
    /\ answer \in [Call -> Status \cup {None}]
    /\ \A u \in Unit : pod[u] \in Sources[u] \cup {None}
    /\ closing \subseteq {u \in Unit : pod[u] # None}
    /\ \A u \in Unit : loop[u] # None =>
          /\ target[loop[u]] = u
          /\ pc[loop[u]] \in {"running", "peer", "returned"}
    /\ stops \in 0 .. MaxStops

\* The mesh is up: every Function lists what its pod exports.
Init ==
    /\ RoutesInit
    /\ \A u \in Unit : exported[u] \in Sources[u]
    /\ pc = [c \in Call |-> "new"]
    /\ target = [c \in Call |-> None]
    /\ response = [c \in Call |-> None]
    /\ answer = [c \in Call |-> None]
    /\ pod = exported
    /\ closing = {}
    /\ loop = [u \in Unit |-> None]
    /\ stops = 0

-----------------------------------------------------------------------------
(* From the client to a runtime.                                           *)

GoTo(c, place) == pc' = [pc EXCEPT ![c] = place]

\* The call ends on the way, before any runtime has seen it.
Refuse(c, status) ==
    /\ GoTo(c, "over")
    /\ answer' = [answer EXCEPT ![c] = IF @ = None THEN status ELSE @]
    /\ UNCHANGED <<routing, target, response, pods>>

\* A client may go by way of the API, which hands the call to the router or cannot
\* read its arguments.
ForwardCall(c) ==
    /\ pc[c] = "new"
    /\ Via[c] = "mesh"
    /\ \/ /\ GoTo(c, "forwarded")
          /\ UNCHANGED <<routing, target, response, answer, pods>>
       \/ Refuse(c, "400")

\* Faulty: a name that the group lacks is looked for in the others.
LookupAnywhere(group, name) ==
    IF routes[<<group, name>>] # None THEN routes[<<group, name>>]
    ELSE routes[<<NoGroup, name>>]

Lookup(group, name) == routes[<<group, name>>]

FoundAlways(route) == TRUE  \* faulty: the second result of Lookup is not looked at
Found(route) == route # None

\* The router looks the name up and calls the Function it finds.
HandleCall(c) ==
    /\ pc[c] \in {"new", "forwarded"}
    /\ Via[c] = "mesh"
    /\ LET route == Lookup(CallGroup[c], CallName[c]) IN
          \/ /\ Found(route)
             /\ GoTo(c, "sent")
             /\ target' = [target EXCEPT ![c] = route]
             /\ UNCHANGED <<routing, response, answer, pods>>
          \/ /\ ~Found(route)
             /\ Refuse(c, "404")

CallDirectly(c) ==
    /\ pc[c] = "new"
    /\ Via[c] = "direct"
    /\ GoTo(c, "sent")
    /\ target' = [target EXCEPT ![c] = CallUnit[c]]
    /\ UNCHANGED <<routing, response, answer, pods>>

\* Nobody listens: there is no pod, or its server is closed.
ConnectionRefused(c) ==
    /\ pc[c] = "sent"
    /\ pod[target[c]] = None \/ target[c] \in closing
    /\ Refuse(c, "502")

\* The router gives up after 30 s, the API after 60 s.  The runtime is not told.
GiveUp(c) ==
    /\ pc[c] # "new"
    /\ Via[c] = "mesh"
    /\ answer[c] = None
    /\ answer' = [answer EXCEPT ![c] = "502"]
    /\ UNCHANGED <<routing, pc, target, response, pods>>

\* The response travels back and is copied to the client.
Deliver(c) ==
    /\ response[c] # None
    /\ answer[c] = None
    /\ answer' = [answer EXCEPT ![c] = response[c]]
    /\ UNCHANGED <<routing, pc, target, response, pods>>

-----------------------------------------------------------------------------
(* In a runtime.                                                           *)

\* The event loop of u takes a turn.
FreeLoop(u) == pod[u] # None /\ loop[u] = None

HeadersUnsent(c) == TRUE  \* faulty: res.headersSent is not looked at
Unsent(c) == response[c] = None

\* res.status(...).json(...), unless there is a response already.
Respond(c, status) ==
    response' = [response EXCEPT ![c] = IF Unsent(c) THEN status ELSE @]

\* The handler runs up to the function, in one turn of the event loop.
Receive(c) ==
    /\ pc[c] = "sent"
    /\ FreeLoop(target[c])
    /\ target[c] \notin closing
    /\ \/ /\ CallName[c] \notin pod[target[c]]
          /\ GoTo(c, "over")
          /\ Respond(c, "404")
          /\ UNCHANGED loop
       \/ /\ CallName[c] \in pod[target[c]]
          /\ GoTo(c, "running")
          /\ loop' = [loop EXCEPT ![target[c]] = c]
          /\ UNCHANGED response
    /\ UNCHANGED <<routing, target, answer, pod, closing, stops>>

\* The function calls a peer: a native call, still inside the event loop.
CallPeer(c) ==
    /\ pc[c] = "running"
    /\ Remote[CallName[c]] # None
    /\ GoTo(c, "peer")
    /\ UNCHANGED <<routing, target, response, answer, pods>>

\* The peer takes a turn for it and answers.
PeerAnswers(c) ==
    LET remote == Remote[CallName[c]] IN
    /\ pc[c] = "peer"
    /\ FreeLoop(remote.unit)
    /\ remote.unit \notin closing
    /\ remote.name \in pod[remote.unit]
    /\ GoTo(c, "returned")
    /\ UNCHANGED <<routing, target, response, answer, pods>>

\* The function has returned and the loop is free again.  A promise is awaited on
\* /await; /call answers at once, promise or not.
Return(c) ==
    /\ \/ pc[c] = "running" /\ Remote[CallName[c]] = None
       \/ pc[c] = "returned"
    /\ loop' = [loop EXCEPT ![target[c]] = None]
    /\ \/ /\ Path[c] = "await" /\ CallName[c] \in Async
          /\ GoTo(c, "awaiting")
          /\ UNCHANGED response
       \/ /\ ~(Path[c] = "await" /\ CallName[c] \in Async)
          /\ GoTo(c, "over")
          /\ Respond(c, "200")
    /\ UNCHANGED <<routing, target, answer, pod, closing, stops>>

\* The function throws.
Fails(c) ==
    /\ GoTo(c, "over")
    /\ Respond(c, "500")
    /\ loop' = [loop EXCEPT ![target[c]] = None]
    /\ UNCHANGED <<routing, target, answer, pod, closing, stops>>

Throw(c) ==
    /\ pc[c] \in {"running", "returned"}
    /\ Fails(c)

NoRpcTimeout(c) == FALSE    \* faulty: the native call waits for ever
RpcTimeout(c) == pc[c] = "peer"

\* The peer refuses, has no such function, or does not answer within
\* METACALL_RPC_TIMEOUT_MS: the native call throws into the function.
PeerFails(c) ==
    LET remote == Remote[CallName[c]] IN
    /\ pc[c] = "peer"
    /\ \/ RpcTimeout(c)
       \/ pod[remote.unit] = None \/ remote.unit \in closing
       \/ FreeLoop(remote.unit) /\ remote.name \notin pod[remote.unit]
    /\ Fails(c)

\* The promise is settled; late or not, the call is over.
Settle(c) ==
    /\ pc[c] = "awaiting"
    /\ FreeLoop(target[c])
    /\ GoTo(c, "over")
    /\ \/ Respond(c, "200")
       \/ Respond(c, "500")
    /\ UNCHANGED <<routing, target, answer, pods>>

TimerNever(c) == FALSE      \* faulty: no timer is set
Timer(c) == pc[c] = "awaiting"

\* REQUEST_TIMEOUT_MS have passed and the loop is free to notice.  On /call the
\* timer is cleared in the turn that set it and never fires.
TimerFires(c) ==
    /\ Timer(c)
    /\ Unsent(c)
    /\ FreeLoop(target[c])
    /\ Respond(c, "504")
    /\ UNCHANGED <<routing, pc, target, answer, pods>>

-----------------------------------------------------------------------------
(* Pods.                                                                   *)

Stops ==
    /\ stops < MaxStops
    /\ stops' = stops + 1

\* SIGTERM: the server is closed, what it has accepted goes on.
Shutdown(u) ==
    /\ FreeLoop(u)
    /\ u \notin closing
    /\ Stops
    /\ closing' = closing \cup {u}
    /\ UNCHANGED <<routing, calling, pod, loop>>

\* The process ends and the calls it was at are lost; their connections break.
Exit(u) ==
    LET lost == {c \in Call : target[c] = u /\ pc[c] \in AtRuntime} IN
    /\ pod' = [pod EXCEPT ![u] = None]
    /\ closing' = closing \ {u}
    /\ loop' = [loop EXCEPT ![u] = None]
    /\ pc' = [c \in Call |-> IF c \in lost THEN "over" ELSE pc[c]]
    /\ answer' = [c \in Call |->
          IF c \in lost /\ response[c] = None /\ answer[c] = None THEN "502" ELSE answer[c]]
    /\ UNCHANGED <<routing, target, response>>

\* server.close is done, or 10 s have passed.
ExitAfterShutdown(u) ==
    /\ u \in closing
    /\ FreeLoop(u)
    /\ Exit(u)
    /\ UNCHANGED stops

\* SIGKILL, or the function brings its process down.
Kill(u) ==
    /\ pod[u] # None
    /\ Stops
    /\ Exit(u)

\* Another pod, perhaps of another source.
StartPod(u) ==
    /\ pod[u] = None
    /\ \E names \in Sources[u] : pod' = [pod EXCEPT ![u] = names]
    /\ UNCHANGED <<routing, calling, closing, loop, stops>>

-----------------------------------------------------------------------------

OnTheWay(c) ==
    \/ ForwardCall(c) \/ HandleCall(c) \/ CallDirectly(c)
    \/ ConnectionRefused(c) \/ Deliver(c)

\* What a runtime does with a call.
Handle(c) ==
    \/ Receive(c) \/ CallPeer(c) \/ PeerAnswers(c) \/ PeerFails(c)
    \/ Return(c) \/ Throw(c)

Next ==
    \/ RoutesNext /\ UNCHANGED <<calling, pods>>
    \/ \E c \in Call : \/ OnTheWay(c) \/ GiveUp(c)
                       \/ Handle(c) \/ Settle(c) \/ TimerFires(c)
    \/ \E u \in Unit : Shutdown(u) \/ ExitAfterShutdown(u) \/ Kill(u) \/ StartPod(u)

\* A call does not stand still: requests travel, event loops run, functions return
\* or throw, timers fire and clients of the mesh give up.  Pods that are told to
\* stop do, and Kubernetes starts others.  Nothing is assumed of refreshes, and a
\* promise need not ever be settled.
Fairness ==
    /\ \A c \in Call : WF_vars(OnTheWay(c) \/ GiveUp(c) \/ Handle(c) \/ TimerFires(c))
    /\ \A u \in Unit : WF_vars(ExitAfterShutdown(u) \/ StartPod(u))

Spec == Init /\ [][Next]_vars

FairSpec == Spec /\ Fairness

-----------------------------------------------------------------------------
(* Properties.                                                             *)

\* A call for an id is only ever sent to a Function of that id, although tables
\* are replaced and names are exported by several ids at once (registry.go:35-43,
\* 84-90).
StaysInGroup ==
    \A c \in Call :
        Via[c] = "mesh" /\ target[c] # None /\ CallGroup[c] # NoGroup =>
            GroupOf[target[c]] = CallGroup[c]

\* The runtime responds once: a promise that settles after the 504, or a timer
\* that fires after the result, changes nothing (server.js:511-550).
RespondsOnce ==
    [][\A c \in Call : response[c] # None => response'[c] = response[c]]_vars

\* Every call is answered, in spite of runtimes that call each other in a ring,
\* promises that are never settled and pods that go away.
EveryCallIsAnswered == \A c \in Call : <>(answer[c] # None)

\* No runtime is blocked for good by its own function: what blocks it while it
\* waits for a peer ends, even when the peer waits for it in turn.
LoopsComeFree == \A u \in Unit : []<>(loop[u] = None)
=============================================================================
