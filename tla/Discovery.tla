----------------------------- MODULE Discovery -----------------------------
(***************************************************************************)
(* Remote discovery between the runtimes of a deploy group                 *)
(* (src/runtime/server.js).                                                *)
(*                                                                         *)
(* Each runtime pod starts an HTTP server, reads the endpoints mounted for *)
(* it and loads the functions of every peer with rpc_loader.  The load is  *)
(* a synchronous native call: while it waits for the peer, the runtime's   *)
(* own event loop answers nothing.  Runtimes therefore take turns in the   *)
(* order of their names, and poll each other's /status to find the order.  *)
(*                                                                         *)
(* A peer is known by the name of its Service; the pods of that name share *)
(* it (replicas, or the old and the new pod of a rolling update).          *)
(***************************************************************************)
EXTENDS Naturals, FiniteSets

CONSTANTS
    Pod,          \* runtime processes
    Name,         \* Service names: FUNCTION_NAME of a pod, hostname of a peer
    NameOf,       \* the name of each pod
    Rank,         \* position of each name in the localeCompare order
    Mounts,       \* Mounts[n]: the endpoint sets a pod of n may find mounted
    Unreadable,   \* names whose RPC config may fail to parse
    Unnamed,      \* pods started without FUNCTION_NAME
    Config,       \* the config path, recorded as failed when unreadable
    None,         \* no peer
    MaxRetries,   \* MESH_REMOTE_MAX_RETRIES
    MaxGlitches,  \* bound: requests lost although a pod could have answered
    MaxCuts,      \* bound: answers that break off after their headers
    MaxRestarts   \* bound: pods killed and started again

ASSUME NamesAssumption ==
    /\ NameOf \in [Pod -> Name]
    /\ Rank \in [Name -> Nat]
    /\ \A m, n \in Name : Rank[m] = Rank[n] => m = n
    /\ None \notin Name
    /\ Config \notin Name

ASSUME MountsAssumption ==
    /\ Mounts \in [Name -> SUBSET SUBSET Name]
    /\ \A n \in Name : \A E \in Mounts[n] : n \notin E
    /\ Unreadable \subseteq Name
    /\ Unnamed \subseteq Pod

ASSUME BoundsAssumption ==
    /\ MaxRetries \in Nat \ {0}
    /\ MaxGlitches \in Nat
    /\ MaxCuts \in Nat
    /\ MaxRestarts \in Nat

VARIABLES
    pc,        \* where each runtime stands in startRemoteLoading/loadRemotePass
    peers,     \* the endpoints read at start (remoteState.total of them)
    pending,   \* remoteState.pending
    loaded,    \* remoteState.loaded
    failed,    \* remoteState.failed
    attempts,  \* remoteState.attempts
    live,      \* remoteState.live
    todo,      \* peers the loop that is running has still to visit
    target,    \* the peer of the request in flight
    reply,     \* what is known of that request
    glitches,  \* requests lost so far
    cuts,      \* answers broken off so far
    restarts   \* pods killed so far

remoteState == <<peers, pending, loaded, failed, attempts, live>>
request == <<todo, target, reply>>
counters == <<glitches, cuts, restarts>>
vars == <<pc, remoteState, request, counters>>

-----------------------------------------------------------------------------

\* "down"     not listening yet, or killed
\* "timer"    waiting for setImmediate or the retry timer to run a pass
\* "settling" in earlierRuntimesSettled, awaiting /status of an earlier peer
\* "probing"  in the loop of loadRemotePass, awaiting /health/ready of a peer
\* "loading"  inside loadOneRemote: the event loop is blocked
\* "done"     no pass is running and none is scheduled
\* "hung"     in a pass that awaits a promise nobody will settle
PC == {"down", "timer", "settling", "probing", "loading", "done", "hung"}

\* "none"    no request in flight
\* "asked"   the request is sent
\* "null"    getJSON resolved to null: an error or a timeout
\* "settled" /status came back with an empty pending list
\* "busy"    /status came back with pending endpoints
\* "ok"      /health/ready came back with 200
Reply == {"none", "asked", "null", "settled", "busy", "ok"}

TypeOK ==
    /\ pc \in [Pod -> PC]
    /\ peers \in [Pod -> SUBSET Name]
    /\ pending \in [Pod -> SUBSET Name]
    /\ loaded \in [Pod -> SUBSET Name]
    /\ failed \in [Pod -> SUBSET (Name \cup {Config})]
    /\ attempts \in [Pod -> [Name -> 0 .. MaxRetries]]
    /\ live \in [Pod -> BOOLEAN]
    /\ todo \in [Pod -> SUBSET Name]
    /\ target \in [Pod -> Name \cup {None}]
    /\ reply \in [Pod -> Reply]
    /\ glitches \in 0 .. MaxGlitches
    /\ cuts \in 0 .. MaxCuts
    /\ restarts \in 0 .. MaxRestarts

Init ==
    /\ pc = [p \in Pod |-> "down"]
    /\ peers = [p \in Pod |-> {}]
    /\ pending = [p \in Pod |-> {}]
    /\ loaded = [p \in Pod |-> {}]
    /\ failed = [p \in Pod |-> {}]
    /\ attempts = [p \in Pod |-> [n \in Name |-> 0]]
    /\ live = [p \in Pod |-> FALSE]
    /\ todo = [p \in Pod |-> {}]
    /\ target = [p \in Pod |-> None]
    /\ reply = [p \in Pod |-> "none"]
    /\ glitches = 0
    /\ cuts = 0
    /\ restarts = 0

-----------------------------------------------------------------------------
(* What the network and the event loops allow.                             *)

PodsOf(n) == {q \in Pod : NameOf[q] = n}

\* The event loop of q runs: the server listens and no native load blocks it.
Responsive(q) == pc[q] \notin {"down", "loading"}

\* A request to n may end without an answer: there is no pod to take it, the
\* pod that took it is blocked or gone, or the network dropped it.
Unanswered(n) ==
    \/ /\ PodsOf(n) = {} \/ \E q \in PodsOf(n) : ~Responsive(q)
       /\ UNCHANGED glitches
    \/ /\ glitches < MaxGlitches
       /\ glitches' = glitches + 1

-----------------------------------------------------------------------------
(* The listen callback: localReady is set and startRemoteLoading runs in   *)
(* the same turn of the event loop.                                        *)

\* readRemoteEndpoints threw: nothing is scheduled, the runtime stays not live.
ListenUnreadable(p) ==
    /\ pc[p] = "down"
    /\ NameOf[p] \in Unreadable
    /\ pc' = [pc EXCEPT ![p] = "done"]
    /\ failed' = [failed EXCEPT ![p] = {Config}]
    /\ UNCHANGED <<peers, pending, loaded, attempts, live, request, counters>>

\* Endpoints but no FUNCTION_NAME: every peer fails without an attempt.
ListenUnnamed(p) ==
    /\ pc[p] = "down"
    /\ p \in Unnamed
    /\ \E E \in Mounts[NameOf[p]] :
          /\ E # {}
          /\ peers' = [peers EXCEPT ![p] = E]
          /\ failed' = [failed EXCEPT ![p] = E]
          /\ attempts' = [attempts EXCEPT ![p] =
                [n \in Name |-> IF n \in E THEN MaxRetries ELSE 0]]
    /\ pc' = [pc EXCEPT ![p] = "done"]
    /\ UNCHANGED <<pending, loaded, live, request, counters>>

\* The normal start: with no endpoints the runtime is live at once.
Listen(p) ==
    /\ pc[p] = "down"
    /\ \E E \in Mounts[NameOf[p]] :
          /\ p \in Unnamed => E = {}
          /\ peers' = [peers EXCEPT ![p] = E]
          /\ pending' = [pending EXCEPT ![p] = E]
          /\ live' = [live EXCEPT ![p] = (E = {})]
          /\ pc' = [pc EXCEPT ![p] = IF E = {} THEN "done" ELSE "timer"]
    /\ UNCHANGED <<loaded, failed, attempts, request, counters>>

-----------------------------------------------------------------------------
(* loadRemotePass.                                                         *)

\* Faulty variants, for the mutation checks: no peer is waited for; every peer
\* is waited for, whatever its name.
EarlierNobody(p) == {}
EarlierAnybody(p) == pending[p]

\* The pending peers this runtime has to let go first.
Earlier(p) == {n \in pending[p] : Rank[n] < Rank[NameOf[p]]}

BeginPass(p) ==
    /\ pc[p] = "timer"
    /\ \/ /\ Earlier(p) # {}
          /\ pc' = [pc EXCEPT ![p] = "settling"]
          /\ todo' = [todo EXCEPT ![p] = Earlier(p)]
       \/ /\ Earlier(p) = {}
          /\ pc' = [pc EXCEPT ![p] = "probing"]
          /\ todo' = [todo EXCEPT ![p] = pending[p]]
    /\ UNCHANGED <<remoteState, target, reply, counters>>

\* The loop sends its next request.  The code visits the peers in the order
\* of their URLs, which is not the order of their names ("a-b.ns" sorts before
\* "a.ns"); here any order is possible.
Ask(p) ==
    /\ pc[p] \in {"settling", "probing"}
    /\ reply[p] = "none"
    /\ \E n \in todo[p] :
          /\ target' = [target EXCEPT ![p] = n]
          /\ reply' = [reply EXCEPT ![p] = "asked"]
    /\ UNCHANGED <<pc, remoteState, todo, counters>>

\* What the handler of q answers: /status tells whether it still has pending
\* peers, /health/ready answers 200 as soon as q listens.
StatusAlwaysSettled(q) == "settled"  \* faulty: the list is not looked at
StatusOf(q) == IF pending[q] = {} THEN "settled" ELSE "busy"

\* Some pod of the peer computes its answer; p sees it in a later step.
Answer(p) ==
    /\ pc[p] \in {"settling", "probing"}
    /\ reply[p] = "asked"
    /\ \E q \in PodsOf(target[p]) :
          /\ Responsive(q)
          /\ reply' = [reply EXCEPT ![p] =
                IF pc[p] = "settling" THEN StatusOf(q) ELSE "ok"]
    /\ UNCHANGED <<pc, remoteState, todo, target, counters>>

NoAnswer(p) ==
    /\ pc[p] \in {"settling", "probing"}
    /\ reply[p] = "asked"
    /\ Unanswered(target[p])
    /\ reply' = [reply EXCEPT ![p] = "null"]
    /\ UNCHANGED <<pc, remoteState, todo, target, cuts, restarts>>

\* p has read the reply to its request and goes on with the others.
NextRequest(p, rest) ==
    /\ todo' = [todo EXCEPT ![p] = rest]
    /\ target' = [target EXCEPT ![p] = None]
    /\ reply' = [reply EXCEPT ![p] = "none"]

\* An answer stalls or breaks off after its headers.  The timeout destroys the
\* request, but with the response under way no "error" event follows, nor an
\* "end": the promise of getJSON stays open, and the pass with it.
CutOff(p) ==
    /\ pc[p] \in {"settling", "probing"}
    /\ reply[p] = "asked"
    /\ \E q \in PodsOf(target[p]) : Responsive(q)
    /\ cuts < MaxCuts
    /\ cuts' = cuts + 1
    /\ pc' = [pc EXCEPT ![p] = "hung"]
    /\ NextRequest(p, {})
    /\ UNCHANGED <<remoteState, glitches, restarts>>

\* An earlier runtime has no pending peer: ask the next one, or start loading.
EarlierSettled(p) ==
    /\ pc[p] = "settling"
    /\ reply[p] = "settled"
    /\ LET rest == todo[p] \ {target[p]} IN
          \/ /\ rest # {}
             /\ NextRequest(p, rest)
             /\ UNCHANGED pc
          \/ /\ rest = {}
             /\ NextRequest(p, pending[p])
             /\ pc' = [pc EXCEPT ![p] = "probing"]
    /\ UNCHANGED <<remoteState, counters>>

\* An earlier runtime is pending or silent: give the turn up, retry later.
\* No attempt is counted.
EarlierPending(p) ==
    /\ pc[p] = "settling"
    /\ reply[p] \in {"busy", "null"}
    /\ NextRequest(p, {})
    /\ pc' = [pc EXCEPT ![p] = "timer"]
    /\ UNCHANGED <<remoteState, counters>>

\* live once nothing is pending.
VerdictAlwaysLive(nowFailed) == TRUE  \* faulty: failures are forgotten
Verdict(nowFailed) == nowFailed = {}

\* The pass goes on with the peers left, given what is now pending and failed.
\* After the last one it decides, or arms the retry timer.
ContinuePass(p, nowPending, nowFailed) ==
    LET rest == todo[p] \ {target[p]} IN
    /\ NextRequest(p, rest)
    /\ \/ /\ rest # {}
          /\ pc' = [pc EXCEPT ![p] = "probing"]
          /\ UNCHANGED live
       \/ /\ rest = {}
          /\ nowPending # {}
          /\ pc' = [pc EXCEPT ![p] = "timer"]
          /\ UNCHANGED live
       \/ /\ rest = {}
          /\ nowPending = {}
          /\ pc' = [pc EXCEPT ![p] = "done"]
          /\ live' = [live EXCEPT ![p] = Verdict(nowFailed)]

\* Faulty: one attempt too many.
ExhaustedLate(p, n) == attempts[p][n] + 1 > MaxRetries

\* The retries of a peer are exhausted by the attempt that now fails.
Exhausted(p, n) == attempts[p][n] + 1 >= MaxRetries

RecordRemoteFailure(p) ==
    LET n == target[p]
        nowPending == IF Exhausted(p, n) THEN pending[p] \ {n} ELSE pending[p]
        nowFailed == IF Exhausted(p, n) THEN failed[p] \cup {n} ELSE failed[p]
    IN  /\ attempts' = [attempts EXCEPT ![p][n] = @ + 1]
        /\ pending' = [pending EXCEPT ![p] = nowPending]
        /\ failed' = [failed EXCEPT ![p] = nowFailed]
        /\ ContinuePass(p, nowPending, nowFailed)
        /\ UNCHANGED <<peers, loaded, cuts, restarts>>

\* remoteReady(url) is false.
ProbeFailed(p) ==
    /\ pc[p] = "probing"
    /\ reply[p] = "null"
    /\ RecordRemoteFailure(p)
    /\ UNCHANGED glitches

\* remoteReady(url) is true: loadOneRemote blocks the event loop of p.
BeginLoad(p) ==
    /\ pc[p] = "probing"
    /\ reply[p] = "ok"
    /\ pc' = [pc EXCEPT ![p] = "loading"]
    /\ reply' = [reply EXCEPT ![p] = "asked"]
    /\ UNCHANGED <<remoteState, todo, target, counters>>

\* A pod of the peer served the native loader's request.
LoadDone(p) ==
    /\ pc[p] = "loading"
    /\ \E q \in PodsOf(target[p]) : Responsive(q)
    /\ pending' = [pending EXCEPT ![p] = @ \ {target[p]}]
    /\ loaded' = [loaded EXCEPT ![p] = @ \cup {target[p]}]
    /\ ContinuePass(p, pending[p] \ {target[p]}, failed[p])
    /\ UNCHANGED <<peers, failed, attempts, counters>>

\* The native loader gave up (METACALL_RPC_TIMEOUT_MS) and threw.
LoadFailed(p) ==
    /\ pc[p] = "loading"
    /\ Unanswered(target[p])
    /\ RecordRemoteFailure(p)

-----------------------------------------------------------------------------

\* The pod is killed (probe failure, eviction, rollout) and loses everything.
Crash(p) ==
    /\ pc[p] # "down"
    /\ restarts < MaxRestarts
    /\ restarts' = restarts + 1
    /\ pc' = [pc EXCEPT ![p] = "down"]
    /\ peers' = [peers EXCEPT ![p] = {}]
    /\ pending' = [pending EXCEPT ![p] = {}]
    /\ loaded' = [loaded EXCEPT ![p] = {}]
    /\ failed' = [failed EXCEPT ![p] = {}]
    /\ attempts' = [attempts EXCEPT ![p] = [n \in Name |-> 0]]
    /\ live' = [live EXCEPT ![p] = FALSE]
    /\ NextRequest(p, {})
    /\ UNCHANGED <<glitches, cuts>>

Start(p) == ListenUnreadable(p) \/ ListenUnnamed(p) \/ Listen(p)

Pass(p) ==
    \/ BeginPass(p)
    \/ Ask(p) \/ Answer(p) \/ NoAnswer(p)
    \/ EarlierSettled(p) \/ EarlierPending(p)
    \/ ProbeFailed(p)
    \/ BeginLoad(p) \/ LoadDone(p) \/ LoadFailed(p)

\* A stop of the whole group is not an error: every runtime has decided.
Next == \E p \in Pod : Start(p) \/ Pass(p) \/ CutOff(p) \/ Crash(p)

\* The kubelet starts every pod; timers fire and event loops run; a request
\* ends, if only by its timeout (REMOTE_HEALTH_TIMEOUT_MS, and the loader's).
Fairness == \A p \in Pod : WF_vars(Start(p)) /\ WF_vars(Pass(p))

Spec == Init /\ [][Next]_vars

FairSpec == Spec /\ Fairness

-----------------------------------------------------------------------------
(* Properties.                                                             *)

\* q is at its turn: past earlierRuntimesSettled, probing or loading its peers.
AtTurn(q) == pc[q] \in {"probing", "loading"}

\* Turn taking: while a runtime is at its turn, every runtime that comes before
\* it in the name order and is among its peers has already decided, so it never
\* loads from one that may itself be blocked in a load (server.js:307-308).
TurnTaking ==
    \A p, q \in Pod :
        /\ AtTurn(q)
        /\ NameOf[p] \in peers[q]
        /\ Rank[NameOf[p]] < Rank[NameOf[q]]
        => pc[p] = "done"

\* A "circular pair": both event loops blocked, each loading from the other,
\* which server.js:307-308 says never happens.
NoMutualBlock ==
    \A p, q \in Pod :
        ~ /\ pc[p] = "loading" /\ target[p] = NameOf[q]
          /\ pc[q] = "loading" /\ target[q] = NameOf[p]

\* No ring of blocked runtimes of any length: in every set of runtimes that are
\* loading, one loads from a name with a pod outside the set.
NoWaitCycle ==
    \A S \in SUBSET {p \in Pod : pc[p] = "loading"} :
        S # {} => \E p \in S : PodsOf(target[p]) \ S # {}

\* The bookkeeping of remoteState: pending, loaded and failed partition the
\* endpoints of a runtime that listens with a readable config, and a peer is
\* failed exactly when its budget of attempts is spent.
RetryBudget ==
    \A p \in Pod :
        /\ loaded[p] \cap pending[p] = {}
        /\ Config \notin failed[p] =>
              /\ pending[p] \cup loaded[p] \cup failed[p] = peers[p]
              /\ \A n \in peers[p] : n \in failed[p] <=> attempts[p][n] = MaxRetries
        /\ failed[p] \cap (pending[p] \cup loaded[p]) = {}

\* What /status says of a runtime is what happened: live exactly when it has
\* decided and every endpoint it read is loaded; the operator turns this flag
\* into the phase of the Function (function_controller.go:449-458).
VerdictMatchesPeers ==
    \A p \in Pod :
        live[p] <=> /\ pc[p] = "done"
                    /\ failed[p] = {}
                    /\ loaded[p] = peers[p]

\* Every runtime reaches a verdict and keeps it, although later runtimes wait
\* for earlier ones and give their turn up without counting an attempt.  An
\* answer cut off after its headers (server.js:237) hangs the runtime that
\* awaits it for good; that holds back those that come after it in the name
\* order, who see it pending, and none that come before.
EventuallyDecides ==
    \A p \in Pod :
        <>[](\/ pc[p] \in {"done", "hung"}
             \/ \E q \in Pod : pc[q] = "hung" /\ Rank[NameOf[q]] < Rank[NameOf[p]])
=============================================================================
