-------------------------- MODULE DiscoveryProofs --------------------------
(***************************************************************************)
(* Proofs about Discovery for any set of pods, names, mounts and bounds.   *)
(*                                                                         *)
(* PodInv relates the fields of one runtime to each other; it gives type   *)
(* correctness, RetryBudget and VerdictMatchesPeers.  TurnInv relates two  *)
(* runtimes; it holds when every name has one pod and no pod restarts, and *)
(* gives TurnTaking and what follows from it.                              *)
(***************************************************************************)
EXTENDS Discovery, NaturalsInduction, WellFoundedInduction, TLAPS

Passing == {"timer", "settling", "probing", "loading"}
Looping == {"settling", "probing", "loading"}

\* A runtime that does not listen has nothing.
DownInv(p) ==
    pc[p] = "down" =>
        /\ peers[p] = {} /\ pending[p] = {} /\ loaded[p] = {} /\ failed[p] = {}
        /\ attempts[p] = [n \in Name |-> 0]

\* A pass is running, scheduled or hung exactly while something is pending; its loop
\* visits pending peers only, and its request is to one of those it visits.
LoopInv(p) ==
    /\ pc[p] \in Passing \cup {"hung"} <=> pending[p] # {}
    /\ pc[p] \in Looping => todo[p] # {} /\ todo[p] \subseteq pending[p]
    /\ reply[p] # "none" => pc[p] \in Looping /\ target[p] \in todo[p]
    /\ pc[p] = "loading" => reply[p] # "none"
    /\ pc[p] = "probing" => reply[p] # "settled"
    /\ pc[p] = "loading" \/ reply[p] = "ok" => PodsOf(target[p]) # {}

\* Every endpoint is pending, loaded or failed, the last exactly when its
\* attempts are spent.
BudgetInv(p) ==
    /\ NameOf[p] \notin peers[p]
    /\ loaded[p] \cap pending[p] = {}
    /\ failed[p] \cap (pending[p] \cup loaded[p]) = {}
    /\ Config \in failed[p] => pc[p] = "done"
    /\ Config \notin failed[p] =>
          /\ pending[p] \cup loaded[p] \cup failed[p] = peers[p]
          /\ \A n \in peers[p] : n \in failed[p] <=> attempts[p][n] = MaxRetries

VerdictInv(p) ==
    live[p] <=> /\ pc[p] = "done"
                /\ failed[p] = {}
                /\ loaded[p] = peers[p]

PodInv(p) == DownInv(p) /\ LoopInv(p) /\ BudgetInv(p) /\ VerdictInv(p)

IInv == TypeOK /\ \A p \in Pod : PodInv(p)

-----------------------------------------------------------------------------

USE DEF PC, Reply, Passing, Looping

LEMMA InitIInv == Init => IInv
  BY NamesAssumption, MountsAssumption, BoundsAssumption
  DEF Init, IInv, TypeOK, PodInv, DownInv, LoopInv, BudgetInv, VerdictInv

\* What a step of p leaves alone: every field of every other pod.
Others(p) ==
    \A r \in Pod \ {p} :
        /\ pc'[r] = pc[r] /\ peers'[r] = peers[r] /\ pending'[r] = pending[r]
        /\ loaded'[r] = loaded[r] /\ failed'[r] = failed[r]
        /\ attempts'[r] = attempts[r] /\ live'[r] = live[r]
        /\ todo'[r] = todo[r] /\ target'[r] = target[r] /\ reply'[r] = reply[r]

LEMMA OthersKeepPodInv ==
  ASSUME NEW p \in Pod, NEW r \in Pod \ {p}, Others(p), PodInv(r)
  PROVE  PodInv(r)'
  BY DEF Others, PodInv, DownInv, LoopInv, BudgetInv, VerdictInv

\* A request that goes unanswered only counts a glitch.
LEMMA UnansweredType ==
  ASSUME NEW n, TypeOK, Unanswered(n)
  PROVE  glitches' \in 0 .. MaxGlitches
  BY BoundsAssumption DEF Unanswered, TypeOK

\* A failed attempt, whatever it was an attempt of.
LEMMA FailureStep ==
  ASSUME NEW p \in Pod, IInv, RecordRemoteFailure(p), pc[p] \in {"probing", "loading"},
         reply[p] # "none", glitches' \in 0 .. MaxGlitches
  PROVE  TypeOK' /\ PodInv(p)' /\ Others(p)
  <1> DEFINE n == target[p]
  <1>1. /\ TypeOK /\ PodInv(p)
        /\ n \in todo[p] /\ n \in pending[p] /\ n \in Name
        /\ n \in peers[p] /\ n \notin failed[p] /\ n \notin loaded[p]
        /\ Config \notin failed[p] /\ n # Config
    BY NamesAssumption DEF IInv, PodInv, LoopInv, BudgetInv, TypeOK
  <1>2. attempts[p][n] \in 0 .. MaxRetries /\ attempts[p][n] # MaxRetries
    BY <1>1 DEF PodInv, BudgetInv, TypeOK
  <1>3. /\ attempts[p][n] + 1 \in 0 .. MaxRetries
        /\ Exhausted(p, n) <=> attempts[p][n] + 1 = MaxRetries
    BY <1>2, BoundsAssumption DEF Exhausted
  <1> DEFINE nowPending == IF Exhausted(p, n) THEN pending[p] \ {n} ELSE pending[p]
             nowFailed == IF Exhausted(p, n) THEN failed[p] \cup {n} ELSE failed[p]
             rest == todo[p] \ {n}
  <1>4. /\ attempts' = [attempts EXCEPT ![p][n] = @ + 1]
        /\ pending' = [pending EXCEPT ![p] = nowPending]
        /\ failed' = [failed EXCEPT ![p] = nowFailed]
        /\ ContinuePass(p, nowPending, nowFailed)
        /\ UNCHANGED <<peers, loaded, cuts, restarts>>
    BY DEF RecordRemoteFailure
  <1>5. /\ todo' = [todo EXCEPT ![p] = rest]
        /\ target' = [target EXCEPT ![p] = None]
        /\ reply' = [reply EXCEPT ![p] = "none"]
    BY <1>4 DEF ContinuePass, NextRequest
  <1>6. \/ rest # {} /\ pc' = [pc EXCEPT ![p] = "probing"] /\ live' = live
        \/ rest = {} /\ nowPending # {} /\ pc' = [pc EXCEPT ![p] = "timer"] /\ live' = live
        \/ /\ rest = {} /\ nowPending = {}
           /\ pc' = [pc EXCEPT ![p] = "done"]
           /\ live' = [live EXCEPT ![p] = (nowFailed = {})]
    BY <1>4 DEF ContinuePass, Verdict
  <1>7. TypeOK'
    <2>1. attempts' \in [Pod -> [Name -> 0 .. MaxRetries]]
      BY <1>1, <1>3, <1>4 DEF TypeOK
    <2>2. nowPending \subseteq Name /\ nowFailed \subseteq Name \cup {Config}
      BY <1>1 DEF TypeOK
    <2>3. pending' \in [Pod -> SUBSET Name] /\ failed' \in [Pod -> SUBSET (Name \cup {Config})]
      BY <1>1, <1>4, <2>2 DEF TypeOK
    <2>4. /\ todo' \in [Pod -> SUBSET Name] /\ target' \in [Pod -> Name \cup {None}]
          /\ reply' \in [Pod -> Reply]
      BY <1>1, <1>5 DEF TypeOK
    <2>5. pc' \in [Pod -> PC] /\ live' \in [Pod -> BOOLEAN]
      BY <1>1, <1>6 DEF TypeOK
    <2> QED
      BY <1>1, <1>4, <2>1, <2>3, <2>4, <2>5 DEF TypeOK
  <1>8. /\ nowPending \subseteq pending[p]
        /\ rest \subseteq nowPending
        /\ nowPending \cup loaded[p] \cup nowFailed = peers[p]
        /\ nowFailed \cap (nowPending \cup loaded[p]) = {}
        /\ loaded[p] \cap nowPending = {}
        /\ Config \notin nowFailed
    BY <1>1 DEF PodInv, BudgetInv, LoopInv
  <1>9. \A m \in peers[p] : m \in nowFailed <=> attempts'[p][m] = MaxRetries
    BY <1>1, <1>2, <1>3, <1>4 DEF PodInv, BudgetInv, TypeOK
  <1>10. DownInv(p)' /\ LoopInv(p)'
    <2>1. reply'[p] = "none" /\ todo'[p] = rest /\ pending'[p] = nowPending
      BY <1>1, <1>4, <1>5 DEF TypeOK
    <2>2. \/ pc'[p] = "probing" /\ rest # {}
          \/ pc'[p] = "timer" /\ nowPending # {}
          \/ pc'[p] = "done" /\ nowPending = {}
      BY <1>1, <1>6 DEF TypeOK
    <2> QED
      BY <1>8, <2>1, <2>2 DEF DownInv, LoopInv
  <1>11. BudgetInv(p)'
    <2>1. peers'[p] = peers[p] /\ NameOf[p] \notin peers[p] /\ loaded'[p] = loaded[p]
      BY <1>1, <1>4 DEF PodInv, BudgetInv
    <2>2. pending'[p] = nowPending /\ failed'[p] = nowFailed
      BY <1>1, <1>4 DEF TypeOK
    <2> QED
      BY <1>8, <1>9, <2>1, <2>2 DEF BudgetInv
  <1>12. VerdictInv(p)'
    BY <1>1, <1>4, <1>6, <1>8 DEF VerdictInv, PodInv, TypeOK
  <1>13. Others(p)
    BY <1>1, <1>4, <1>5, <1>6 DEF Others, TypeOK
  <1> QED
    BY <1>7, <1>10, <1>11, <1>12, <1>13 DEF PodInv

-----------------------------------------------------------------------------
(* The actions of one runtime keep its invariant and leave the others alone. *)

\* The invariant of p, as every action finds it.
LEMMA PodFacts ==
  ASSUME IInv, NEW p \in Pod
  PROVE  /\ TypeOK /\ DownInv(p) /\ LoopInv(p) /\ BudgetInv(p) /\ VerdictInv(p)
         /\ reply[p] # "none" =>
               /\ target[p] \in pending[p] /\ target[p] \in Name
               /\ target[p] \in todo[p] /\ Config \notin failed[p]
  BY NamesAssumption DEF IInv, PodInv, LoopInv, BudgetInv, TypeOK

LEMMA StartStep ==
  ASSUME IInv, NEW p \in Pod, Start(p)
  PROVE  TypeOK' /\ PodInv(p)' /\ Others(p)
  <1> USE PodFacts, NamesAssumption, MountsAssumption, BoundsAssumption
  <1>1. pc[p] = "down" /\ reply[p] = "none"
    BY DEF Start, Listen, ListenUnnamed, ListenUnreadable, LoopInv
  <1>2. CASE ListenUnreadable(p)
    <2>1. TypeOK' /\ Others(p)
      BY <1>1, <1>2 DEF ListenUnreadable, TypeOK, Others, request, counters
    <2>2. PodInv(p)'
      <3>1. /\ pc'[p] = "done" /\ failed'[p] = {Config}
            /\ pending'[p] = {} /\ loaded'[p] = {} /\ reply'[p] = "none" /\ ~live'[p]
        BY <1>1, <1>2 DEF ListenUnreadable, TypeOK, request, DownInv, VerdictInv
      <3>2. NameOf[p] \notin peers'[p]
        BY <1>1, <1>2 DEF ListenUnreadable, DownInv
      <3>3. DownInv(p)' /\ LoopInv(p)' /\ VerdictInv(p)'
        BY <3>1 DEF DownInv, LoopInv, VerdictInv
      <3>4. BudgetInv(p)'
        BY <3>1, <3>2 DEF BudgetInv
      <3> QED
        BY <3>3, <3>4 DEF PodInv
    <2> QED  BY <2>1, <2>2
  <1>3. CASE ListenUnnamed(p)
    <2>1. PICK E \in Mounts[NameOf[p]] :
             /\ E # {}
             /\ peers' = [peers EXCEPT ![p] = E]
             /\ failed' = [failed EXCEPT ![p] = E]
             /\ attempts' = [attempts EXCEPT ![p] =
                   [n \in Name |-> IF n \in E THEN MaxRetries ELSE 0]]
      BY <1>3 DEF ListenUnnamed
    <2>2. E \subseteq Name
      OBVIOUS
    <2>3. TypeOK' /\ Others(p)
      BY <1>1, <1>3, <2>1, <2>2 DEF ListenUnnamed, TypeOK, Others, request, counters
    <2>4. PodInv(p)'
      BY <1>1, <1>3, <2>1, <2>2 DEF ListenUnnamed, TypeOK, request, PodInv, DownInv,
                                    LoopInv, BudgetInv, VerdictInv
    <2> QED  BY <2>3, <2>4
  <1>4. CASE Listen(p)
    <2>1. PICK E \in Mounts[NameOf[p]] :
             /\ peers' = [peers EXCEPT ![p] = E]
             /\ pending' = [pending EXCEPT ![p] = E]
             /\ live' = [live EXCEPT ![p] = (E = {})]
             /\ pc' = [pc EXCEPT ![p] = IF E = {} THEN "done" ELSE "timer"]
      BY <1>4 DEF Listen
    <2>2. E \subseteq Name
      OBVIOUS
    <2>3. TypeOK' /\ Others(p)
      BY <1>1, <1>4, <2>1, <2>2 DEF Listen, TypeOK, Others, request, counters
    <2>4. /\ pc'[p] = IF E = {} THEN "done" ELSE "timer"
          /\ live'[p] <=> E = {}
          /\ peers'[p] = E /\ pending'[p] = E /\ loaded'[p] = {} /\ failed'[p] = {}
          /\ attempts'[p] = [n \in Name |-> 0]
          /\ reply'[p] = "none"
      <3>1. live'[p] <=> E = {}
        BY <2>1 DEF TypeOK
      <3>2. /\ loaded'[p] = loaded[p] /\ failed'[p] = failed[p]
            /\ attempts'[p] = attempts[p] /\ reply'[p] = reply[p]
        BY <1>4 DEF Listen, request
      <3>3. /\ pc'[p] = IF E = {} THEN "done" ELSE "timer"
            /\ peers'[p] = E /\ pending'[p] = E
        BY <2>1 DEF TypeOK
      <3> QED
        BY <1>1, <3>1, <3>2, <3>3 DEF DownInv
    <2>5. DownInv(p)' /\ LoopInv(p)'
      BY <2>4 DEF DownInv, LoopInv
    <2>6. BudgetInv(p)'
      BY <2>2, <2>4 DEF BudgetInv
    <2>7. VerdictInv(p)'
      BY <2>4 DEF VerdictInv
    <2> QED
      BY <2>3, <2>5, <2>6, <2>7 DEF PodInv
  <1> QED
    BY <1>2, <1>3, <1>4 DEF Start

LEMMA CrashStep ==
  ASSUME IInv, NEW p \in Pod, Crash(p)
  PROVE  TypeOK' /\ PodInv(p)' /\ Others(p)
  <1> USE PodFacts, NamesAssumption, BoundsAssumption
  <1>1. TypeOK' /\ Others(p)
    BY DEF Crash, NextRequest, TypeOK, Others
  <1>2. PodInv(p)'
    BY DEF Crash, NextRequest, TypeOK, PodInv, DownInv, LoopInv, BudgetInv, VerdictInv
  <1> QED
    BY <1>1, <1>2

\* A runtime whose request never ends keeps what it had pending.
LEMMA CutOffStep ==
  ASSUME IInv, NEW p \in Pod, CutOff(p)
  PROVE  TypeOK' /\ PodInv(p)' /\ Others(p)
  <1> USE PodFacts, NamesAssumption, BoundsAssumption DEF remoteState
  <1>1. TypeOK' /\ Others(p)
    BY DEF CutOff, NextRequest, TypeOK, Others
  <1>2. PodInv(p)'
    BY DEF CutOff, NextRequest, TypeOK, PodInv, DownInv, LoopInv, BudgetInv, VerdictInv
  <1> QED
    BY <1>1, <1>2

LEMMA LoadDoneStep ==
  ASSUME IInv, NEW p \in Pod, LoadDone(p)
  PROVE  TypeOK' /\ PodInv(p)' /\ Others(p)
  <1> USE PodFacts, NamesAssumption, BoundsAssumption
  <1> DEFINE n == target[p]
             nowPending == pending[p] \ {n}
             rest == todo[p] \ {n}
  <1>1. /\ pc[p] = "loading"
        /\ pending' = [pending EXCEPT ![p] = nowPending]
        /\ loaded' = [loaded EXCEPT ![p] = @ \cup {n}]
        /\ UNCHANGED <<peers, failed, attempts, glitches, cuts, restarts>>
        /\ todo' = [todo EXCEPT ![p] = rest]
        /\ target' = [target EXCEPT ![p] = None]
        /\ reply' = [reply EXCEPT ![p] = "none"]
    BY DEF LoadDone, ContinuePass, NextRequest, counters
  <1>2. \/ rest # {} /\ pc' = [pc EXCEPT ![p] = "probing"] /\ live' = live
        \/ rest = {} /\ nowPending # {} /\ pc' = [pc EXCEPT ![p] = "timer"] /\ live' = live
        \/ /\ rest = {} /\ nowPending = {}
           /\ pc' = [pc EXCEPT ![p] = "done"]
           /\ live' = [live EXCEPT ![p] = (failed[p] = {})]
    BY DEF LoadDone, ContinuePass, Verdict
  <1>3. /\ n \in pending[p] /\ n \in Name /\ n \in todo[p]
        /\ n \in peers[p] /\ n \notin failed[p] /\ Config \notin failed[p]
        /\ rest \subseteq nowPending
    BY <1>1 DEF LoopInv, BudgetInv
  <1>4. TypeOK'
    <2>1. pc' \in [Pod -> PC] /\ live' \in [Pod -> BOOLEAN]
      BY <1>2 DEF TypeOK
    <2>2. /\ pending' \in [Pod -> SUBSET Name] /\ loaded' \in [Pod -> SUBSET Name]
          /\ todo' \in [Pod -> SUBSET Name] /\ target' \in [Pod -> Name \cup {None}]
          /\ reply' \in [Pod -> Reply]
      BY <1>1, <1>3 DEF TypeOK
    <2> QED
      BY <1>1, <2>1, <2>2 DEF TypeOK
  <1>5. DownInv(p)' /\ LoopInv(p)'
    BY <1>1, <1>2, <1>3 DEF DownInv, LoopInv, TypeOK
  <1>6. BudgetInv(p)'
    BY <1>1, <1>2, <1>3 DEF BudgetInv, TypeOK
  <1>7. VerdictInv(p)'
    <2>1. CASE rest # {} \/ nowPending # {}
      <3>1. pc'[p] # "done" /\ live'[p] = live[p]
        BY <1>2, <1>3, <2>1 DEF TypeOK
      <3> QED
        BY <1>1, <3>1 DEF VerdictInv
    <2>2. CASE rest = {} /\ nowPending = {}
      <3>1. pc'[p] = "done" /\ (live'[p] <=> failed[p] = {})
        BY <1>2, <2>2 DEF TypeOK
      <3>2. failed'[p] = failed[p] /\ peers'[p] = peers[p] /\ loaded'[p] = loaded[p] \cup {n}
        BY <1>1 DEF TypeOK
      <3>3. failed[p] = {} => loaded[p] \cup {n} = peers[p]
        BY <1>3, <2>2 DEF BudgetInv
      <3> QED
        BY <3>1, <3>2, <3>3 DEF VerdictInv
    <2> QED
      BY <2>1, <2>2
  <1>8. Others(p)
    BY <1>1, <1>2 DEF Others, TypeOK
  <1> QED
    BY <1>4, <1>5, <1>6, <1>7, <1>8 DEF PodInv

LEMMA PassStep ==
  ASSUME IInv, NEW p \in Pod, Pass(p)
  PROVE  TypeOK' /\ PodInv(p)' /\ Others(p)
  <1> USE PodFacts, NamesAssumption, BoundsAssumption
  <1> USE DEF remoteState, counters
  <1>1. CASE BeginPass(p)
    <2>1. /\ pc[p] = "timer" /\ reply[p] = "none"
          /\ UNCHANGED <<remoteState, target, reply, counters>>
          /\ \E k \in {"settling", "probing"}, t \in SUBSET pending[p] :
                /\ t # {}
                /\ pc' = [pc EXCEPT ![p] = k]
                /\ todo' = [todo EXCEPT ![p] = t]
      BY <1>1 DEF BeginPass, Earlier, LoopInv
    <2>2. TypeOK' /\ Others(p)
      BY <2>1 DEF TypeOK, Others
    <2>3. DownInv(p)' /\ LoopInv(p)'
      BY <2>1 DEF TypeOK, DownInv, LoopInv
    <2>4. BudgetInv(p)' /\ VerdictInv(p)'
      BY <2>1 DEF TypeOK, BudgetInv, VerdictInv
    <2> QED
      BY <2>2, <2>3, <2>4 DEF PodInv
  <1>2. CASE Ask(p)
    BY <1>2 DEF Ask, TypeOK, Others, PodInv, DownInv, LoopInv, BudgetInv, VerdictInv
  <1>3. CASE Answer(p)
    BY <1>3 DEF Answer, StatusOf, TypeOK, Others, PodInv, DownInv, LoopInv,
                BudgetInv, VerdictInv
  <1>4. CASE NoAnswer(p)
    <2>1. glitches' \in 0 .. MaxGlitches
      BY <1>4, UnansweredType DEF NoAnswer
    <2> QED
      BY <1>4, <2>1 DEF NoAnswer, TypeOK, Others, PodInv, DownInv, LoopInv,
                        BudgetInv, VerdictInv
  <1>5. CASE EarlierSettled(p)
    <2>1. /\ pc[p] = "settling"
          /\ UNCHANGED <<remoteState, counters>>
          /\ target' = [target EXCEPT ![p] = None]
          /\ reply' = [reply EXCEPT ![p] = "none"]
          /\ \E k \in {"settling", "probing"}, t \in SUBSET pending[p] :
                /\ t # {}
                /\ pc' = [pc EXCEPT ![p] = k]
                /\ todo' = [todo EXCEPT ![p] = t]
      <3>1. CASE todo[p] \ {target[p]} # {}
        <4>1. todo[p] \ {target[p]} \in SUBSET pending[p] /\ pc = [pc EXCEPT ![p] = "settling"]
          BY <1>5 DEF EarlierSettled, LoopInv, TypeOK
        <4> QED
          BY <1>5, <3>1, <4>1 DEF EarlierSettled, NextRequest
      <3>2. CASE todo[p] \ {target[p]} = {}
        <4>1. pending[p] # {} /\ pending[p] \in SUBSET pending[p]
          BY <1>5 DEF EarlierSettled, LoopInv
        <4> QED
          BY <1>5, <3>2, <4>1 DEF EarlierSettled, NextRequest
      <3> QED
        BY <3>1, <3>2
    <2>2. TypeOK' /\ Others(p)
      BY <2>1 DEF TypeOK, Others
    <2>3. DownInv(p)' /\ LoopInv(p)'
      BY <2>1 DEF TypeOK, DownInv, LoopInv
    <2>4. BudgetInv(p)' /\ VerdictInv(p)'
      BY <2>1 DEF TypeOK, BudgetInv, VerdictInv
    <2> QED
      BY <2>2, <2>3, <2>4 DEF PodInv
  <1>6. CASE EarlierPending(p)
    BY <1>6 DEF EarlierPending, NextRequest, TypeOK, Others, PodInv, DownInv,
                LoopInv, BudgetInv, VerdictInv
  <1>7. CASE ProbeFailed(p)
    BY <1>7, FailureStep DEF ProbeFailed, TypeOK
  <1>8. CASE BeginLoad(p)
    BY <1>8 DEF BeginLoad, TypeOK, Others, PodInv, DownInv, LoopInv, BudgetInv,
                VerdictInv
  <1>9. CASE LoadDone(p)
    BY <1>9, LoadDoneStep
  <1>10. CASE LoadFailed(p)
    <2>1. pc[p] = "loading" /\ reply[p] # "none"
      BY <1>10 DEF LoadFailed, LoopInv
    <2> QED
      BY <1>10, <2>1, UnansweredType, FailureStep DEF LoadFailed
  <1> QED
    BY <1>1, <1>2, <1>3, <1>4, <1>5, <1>6, <1>7, <1>8, <1>9, <1>10 DEF Pass

LEMMA NextIInv == IInv /\ [Next]_vars => IInv'
  <1> SUFFICES ASSUME IInv, [Next]_vars
               PROVE  IInv'
    OBVIOUS
  <1>1. CASE UNCHANGED vars
    BY <1>1 DEF vars, remoteState, request, counters, IInv, TypeOK, PodInv, DownInv,
                LoopInv, BudgetInv, VerdictInv
  <1>2. CASE Next
    <2>1. PICK p \in Pod : Start(p) \/ Pass(p) \/ CutOff(p) \/ Crash(p)
      BY <1>2 DEF Next
    <2>2. TypeOK' /\ PodInv(p)' /\ Others(p)
      BY <2>1, StartStep, PassStep, CutOffStep, CrashStep
    <2>3. ASSUME NEW r \in Pod
          PROVE  PodInv(r)'
      BY <2>2, OthersKeepPodInv DEF IInv
    <2> QED
      BY <2>2, <2>3 DEF IInv
  <1> QED
    BY <1>1, <1>2

THEOREM InductiveInvariant == Spec => []IInv
  BY InitIInv, NextIInv, PTL DEF Spec

\* Every reachable state is well typed: in particular the attempts of a peer
\* never exceed MaxRetries (server.js:288-298).
THEOREM TypeCorrect == Spec => []TypeOK
  <1>1. IInv => TypeOK
    BY DEF IInv
  <1> QED
    BY <1>1, InductiveInvariant, PTL

\* The bookkeeping of remoteState is exact, whatever crashes and is lost.
THEOREM BudgetCorrect == Spec => []RetryBudget
  <1>1. IInv => RetryBudget
    BY DEF IInv, PodInv, BudgetInv, RetryBudget
  <1> QED
    BY <1>1, InductiveInvariant, PTL

\* The live flag of /status says exactly that everything was loaded.
THEOREM VerdictCorrect == Spec => []VerdictMatchesPeers
  <1>1. IInv => VerdictMatchesPeers
    BY DEF IInv, PodInv, VerdictInv, VerdictMatchesPeers
  <1> QED
    BY <1>1, InductiveInvariant, PTL

-----------------------------------------------------------------------------
(* Turn taking.  It needs one pod per name, since /status is answered by   *)
(* any pod of the name, and no restart, since a runtime that comes back    *)
(* has pending peers again: the run mutual_block shows what one restart     *)
(* does.                                                                   *)

OnePodPerName == \A p, q \in Pod : NameOf[p] = NameOf[q] => p = q

\* p comes before q and q knows it.
Before(p, q) == NameOf[p] \in peers[q] /\ Rank[NameOf[p]] < Rank[NameOf[q]]

\* What q may have concluded about p: that p no longer counts among those to
\* wait for, or that its /status came back settled.
Released(p, q) ==
    \/ pc[q] \in Passing /\ NameOf[p] \notin pending[q]
    \/ pc[q] = "settling" /\ NameOf[p] \notin todo[q]
    \/ pc[q] = "settling" /\ reply[q] = "settled" /\ target[q] = NameOf[p]
    \/ AtTurn(q)

\* It is released only when it has decided.
TurnInv == \A p, q \in Pod : Before(p, q) /\ Released(p, q) => pc[p] = "done"

LEMMA InitTurnInv == Init => TurnInv
  BY DEF Init, TurnInv, Before, Released, AtTurn

\* Without restarts a verdict is final.
LEMMA DoneStays ==
  ASSUME TypeOK, MaxRestarts = 0, Next, NEW p \in Pod, pc[p] = "done"
  PROVE  pc'[p] = "done"
  <1>1. PICK q \in Pod : Start(q) \/ Pass(q) \/ CutOff(q) \/ Crash(q)
    BY DEF Next
  <1>2. ~Crash(q)
    BY DEF Crash, TypeOK
  <1>3. CASE Start(q)
    BY <1>3 DEF Start, Listen, ListenUnnamed, ListenUnreadable, TypeOK
  <1>4. CASE Pass(q)
    BY <1>4 DEF Pass, BeginPass, Ask, Answer, NoAnswer, EarlierSettled, EarlierPending,
                ProbeFailed, BeginLoad, LoadDone, LoadFailed, RecordRemoteFailure,
                ContinuePass, TypeOK
  <1>5. CASE CutOff(q)
    BY <1>5 DEF CutOff, TypeOK
  <1> QED
    BY <1>1, <1>2, <1>3, <1>4, <1>5

\* The step of q itself: it releases p only when p has decided.
LEMMA ReleaseStep ==
  ASSUME IInv, TurnInv, OnePodPerName, MaxRestarts = 0,
         NEW p \in Pod, NEW q \in Pod, Start(q) \/ Pass(q) \/ CutOff(q),
         Before(p, q)', Released(p, q)'
  PROVE  pc[p] = "done"
  <1> DEFINE n == NameOf[p]
  <1>1. /\ TypeOK /\ n \in Name /\ p # q
        /\ LoopInv(p) /\ DownInv(p) /\ LoopInv(q) /\ DownInv(q)
        /\ Before(p, q) /\ Released(p, q) => pc[p] = "done"
    BY NamesAssumption DEF IInv, PodInv, TurnInv, TypeOK, Before
  <1>2. CASE Start(q)
    <2>1. pending'[q] = peers'[q] \/ pc'[q] = "done"
      BY <1>1, <1>2 DEF Start, Listen, ListenUnnamed, ListenUnreadable, TypeOK
    <2>2. pc'[q] \in {"done", "timer"}
      BY <1>1, <1>2 DEF Start, Listen, ListenUnnamed, ListenUnreadable, TypeOK
    <2> QED
      BY <2>1, <2>2 DEF Before, Released, AtTurn
  <1>3. CASE Pass(q)
    <2>1. peers' = peers /\ Before(p, q)
      BY <1>3 DEF Pass, BeginPass, Ask, Answer, NoAnswer, EarlierSettled, EarlierPending,
                  ProbeFailed, BeginLoad, LoadDone, LoadFailed, RecordRemoteFailure,
                  remoteState, Before
    <2>2. CASE AtTurn(q)
      BY <1>1, <2>1, <2>2 DEF Released
    <2>3. CASE BeginPass(q)
      <3>1. CASE n \in pending[q]
        BY <1>1, <2>1, <2>3, <3>1 DEF BeginPass, Earlier, Before, Released, AtTurn, TypeOK,
                                      remoteState, LoopInv
      <3>2. CASE n \notin pending[q]
        BY <1>1, <2>1, <2>3, <3>2 DEF BeginPass, Released
      <3> QED
        BY <3>1, <3>2
    <2>4. CASE pc[q] = "settling" /\ Ask(q)
      <3>1. Released(p, q)
        BY <1>1, <2>4 DEF Ask, Released, AtTurn, TypeOK, remoteState
      <3> QED
        BY <1>1, <2>1, <3>1
    <2>5. CASE pc[q] = "settling" /\ Answer(q)
      <3>1. CASE reply'[q] = "settled" /\ target[q] = n
        <4>1. PICK r \in PodsOf(n) :
                /\ Responsive(r)
                /\ reply' = [reply EXCEPT ![q] = StatusOf(r)]
          BY <2>5, <3>1 DEF Answer
        <4>2. r = p
          BY <4>1 DEF PodsOf, OnePodPerName
        <4>3. pending[p] = {}
          BY <1>1, <3>1, <4>1, <4>2 DEF StatusOf, TypeOK
        <4> QED
          BY <1>1, <4>1, <4>2, <4>3 DEF Responsive, LoopInv, TypeOK
      <3>2. CASE ~(reply'[q] = "settled" /\ target[q] = n)
        <4>1. Released(p, q)
          BY <1>1, <2>5, <3>2 DEF Answer, Released, AtTurn, TypeOK, remoteState
        <4> QED
          BY <1>1, <2>1, <4>1
      <3> QED
        BY <3>1, <3>2
    <2>6. CASE pc[q] = "settling" /\ NoAnswer(q)
      <3>1. Released(p, q)
        BY <1>1, <2>6 DEF NoAnswer, Released, AtTurn, TypeOK, remoteState
      <3> QED
        BY <1>1, <2>1, <3>1
    <2>7. CASE EarlierSettled(q)
      <3>1. n \notin todo[q] \/ n = target[q]
        <4>1. CASE todo[q] \ {target[q]} = {}
          BY <4>1
        <4>2. CASE todo[q] \ {target[q]} # {}
          <5>1. /\ pc[q] = "settling" /\ pc'[q] = "settling" /\ reply'[q] = "none"
                /\ todo'[q] = todo[q] \ {target[q]} /\ pending'[q] = pending[q]
            BY <1>1, <2>7, <4>2 DEF EarlierSettled, NextRequest, TypeOK, remoteState
          <5> QED
            BY <1>1, <5>1 DEF Released, AtTurn, LoopInv
        <4> QED
          BY <4>1, <4>2
      <3> QED
        BY <1>1, <2>1, <2>7, <3>1 DEF EarlierSettled, Released
    <2>8. CASE EarlierPending(q)
      <3>1. pc'[q] = "timer" /\ pending'[q] = pending[q] /\ pc[q] = "settling"
        BY <1>1, <2>8 DEF EarlierPending, TypeOK, remoteState
      <3>2. Released(p, q)
        BY <3>1 DEF Released, AtTurn
      <3> QED
        BY <1>1, <2>1, <3>2
    <2>9. QED
      <3>1. \/ AtTurn(q) \/ BeginPass(q) \/ EarlierSettled(q) \/ EarlierPending(q)
            \/ pc[q] = "settling" /\ (Ask(q) \/ Answer(q) \/ NoAnswer(q))
        BY <1>3 DEF Pass, Ask, Answer, NoAnswer, ProbeFailed, BeginLoad, LoadDone,
                    LoadFailed, AtTurn
      <3> QED
        BY <3>1, <2>2, <2>3, <2>4, <2>5, <2>6, <2>7, <2>8
  <1>4. CASE CutOff(q)
    BY <1>1, <1>4 DEF CutOff, Released, AtTurn, TypeOK
  <1> QED
    BY <1>2, <1>3, <1>4

LEMMA NextTurnInv ==
  ASSUME OnePodPerName, MaxRestarts = 0, IInv, TurnInv, [Next]_vars
  PROVE  TurnInv'
  <1>1. CASE UNCHANGED vars
    BY <1>1 DEF vars, remoteState, request, counters, TurnInv, Before, Released, AtTurn
  <1>2. CASE Next
    <2> SUFFICES ASSUME NEW p \in Pod, NEW q \in Pod, Before(p, q)', Released(p, q)'
                 PROVE  pc'[p] = "done"
      BY DEF TurnInv
    <2>1. TypeOK
      BY DEF IInv
    <2>2. PICK r \in Pod : Start(r) \/ Pass(r) \/ CutOff(r)
      BY <1>2, <2>1 DEF Next, Crash, TypeOK
    <2>3. pc[p] = "done"
      <3>1. CASE r = q
        BY <2>2, <3>1, ReleaseStep
      <3>2. CASE r # q
        <4>1. Others(r)
          BY <2>2, StartStep, PassStep, CutOffStep
        <4>2. Before(p, q) /\ Released(p, q)
          BY <3>2, <4>1 DEF Others, Before, Released, AtTurn
        <4> QED
          BY <4>2 DEF TurnInv
      <3> QED
        BY <3>1, <3>2
    <2> QED
      BY <1>2, <2>1, <2>3, DoneStays
  <1> QED
    BY <1>1, <1>2

\* While a runtime probes or loads, every earlier runtime it knows has decided.
THEOREM TurnTakingCorrect ==
  ASSUME OnePodPerName, MaxRestarts = 0
  PROVE  Spec => []TurnTaking
  <1>1. Init => IInv /\ TurnInv
    BY InitIInv, InitTurnInv
  <1>2. IInv /\ TurnInv /\ [Next]_vars => IInv' /\ TurnInv'
    BY NextIInv, NextTurnInv
  <1>3. TurnInv => TurnTaking
    BY DEF TurnInv, TurnTaking, Before, Released
  <1> QED
    BY <1>1, <1>2, <1>3, PTL DEF Spec

\* Two runtimes that know each other are not at their turn together,
OneAtATime ==
    \A p, q \in Pod :
        /\ NameOf[p] \in peers[q]
        /\ NameOf[q] \in peers[p]
        => ~(AtTurn(p) /\ AtTurn(q))

\* since one of them is the earlier (earlierRuntimesSettled).
LEMMA TurnsExclude ==
  ASSUME OnePodPerName, MaxRestarts = 0
  PROVE  Spec => []OneAtATime
  <1>1. IInv /\ TurnTaking => OneAtATime
    <2> SUFFICES ASSUME IInv, TurnTaking, NEW p \in Pod, NEW q \in Pod,
                        NameOf[p] \in peers[q], NameOf[q] \in peers[p],
                        AtTurn(p), AtTurn(q)
                 PROVE  FALSE
      BY DEF OneAtATime
    <2>1. NameOf[p] # NameOf[q] => FALSE
      <3>1. CASE Rank[NameOf[p]] < Rank[NameOf[q]]
        BY <3>1 DEF TurnTaking, AtTurn
      <3>2. CASE Rank[NameOf[q]] < Rank[NameOf[p]]
        BY <3>2 DEF TurnTaking, AtTurn
      <3> QED
        BY <3>1, <3>2, NamesAssumption
    <2>2. NameOf[p] \notin peers[p]
      BY DEF IInv, PodInv, BudgetInv
    <2> QED
      BY <2>1, <2>2
  <1> QED
    BY <1>1, InductiveInvariant, TurnTakingCorrect, PTL

\* The circular pair of server.js:307-308 cannot block under these assumptions;
\* the run mutual_block shows that one restart is enough to bring it about.
THEOREM NoMutualBlockCorrect ==
  ASSUME OnePodPerName, MaxRestarts = 0
  PROVE  Spec => []NoMutualBlock
  <1>1. IInv /\ OneAtATime => NoMutualBlock
    BY PodFacts DEF OneAtATime, NoMutualBlock, AtTurn, LoopInv, BudgetInv
  <1> QED
    BY <1>1, InductiveInvariant, TurnsExclude, PTL

\* Among pods whose names have bounded ranks one has the greatest.
LEMMA LastPod ==
  ASSUME NEW S \in SUBSET Pod, S # {},
         NEW K \in Nat, \A n \in Name : Rank[n] <= K
  PROVE  \E p \in S : \A q \in S : Rank[NameOf[q]] <= Rank[NameOf[p]]
  <1> DEFINE T == {K - Rank[NameOf[p]] : p \in S}
  <1>1. T \subseteq Nat /\ T # {}
    BY NamesAssumption
  <1>2. PICK x \in T : \A y \in T : ~(<<y, x>> \in OpToRel(<, Nat))
    BY <1>1, NatLessThanWellFounded, WFMin, Zenon
  <1>3. ASSUME NEW y \in T
        PROVE  x <= y
    <2>1. x \in Nat /\ y \in Nat
      BY <1>1
    <2>2. ~(y < x)
      BY <1>2, <2>1, Zenon DEF OpToRel
    <2> QED
      BY <2>1, <2>2
  <1>4. PICK p \in S : x = K - Rank[NameOf[p]]
    OBVIOUS
  <1>5. ASSUME NEW q \in S
        PROVE  Rank[NameOf[q]] <= Rank[NameOf[p]]
    <2>1. K - Rank[NameOf[p]] <= K - Rank[NameOf[q]]
      BY <1>3, <1>4
    <2>2. Rank[NameOf[p]] \in Nat /\ Rank[NameOf[q]] \in Nat
      BY NamesAssumption
    <2> QED
      BY <2>1, <2>2
  <1> QED
    BY <1>5

\* However large the group, blocked runtimes never wait for each other in a
\* ring: the last of them in the name order loads from a decided one.
THEOREM NoWaitCycleCorrect ==
  ASSUME OnePodPerName, MaxRestarts = 0,
         NEW K \in Nat, \A n \in Name : Rank[n] <= K
  PROVE  Spec => []NoWaitCycle
  <1>1. IInv /\ TurnTaking => NoWaitCycle
    <2> SUFFICES ASSUME IInv, TurnTaking,
                        NEW S \in SUBSET {p \in Pod : pc[p] = "loading"}, S # {}
                 PROVE  \E p \in S : PodsOf(target[p]) \ S # {}
      BY DEF NoWaitCycle
    <2>1. PICK p \in S : \A q \in S : Rank[NameOf[q]] <= Rank[NameOf[p]]
      BY LastPod
    <2>2. /\ pc[p] = "loading" /\ p \in Pod
          /\ target[p] \in peers[p] /\ target[p] # NameOf[p]
          /\ PodsOf(target[p]) # {}
      BY PodFacts DEF LoopInv, BudgetInv
    <2>3. ASSUME NEW q \in PodsOf(target[p]), q \in S
          PROVE  FALSE
      <3>1. q \in Pod /\ NameOf[q] = target[p] /\ pc[q] = "loading"
        BY <2>3 DEF PodsOf
      <3>2. Rank[NameOf[q]] < Rank[NameOf[p]]
        <4>1. Rank[NameOf[q]] <= Rank[NameOf[p]]
          BY <2>1, <2>3
        <4>2. Rank[NameOf[q]] # Rank[NameOf[p]]
          BY <2>2, <3>1, NamesAssumption
        <4> QED
          BY <2>2, <3>1, <4>1, <4>2, NamesAssumption
      <3> QED
        BY <2>2, <3>1, <3>2 DEF TurnTaking, AtTurn
    <2> QED
      BY <2>2, <2>3
  <1> QED
    BY <1>1, InductiveInvariant, TurnTakingCorrect, PTL
=============================================================================
