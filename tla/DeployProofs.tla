---------------------------- MODULE DeployProofs ----------------------------
(***************************************************************************)
(* Proofs about Deploy for any requests, ids, units, servers and bounds.   *)
(*                                                                         *)
(* The lock keeps deploys of one id on one server apart (LockInv), so that *)
(* a request without rivals is alone in its group (AloneInv).  What such a *)
(* request has written and pruned at each stage (StageInv) then holds      *)
(* until it ends, for everything others touch is named after other ids.    *)
(***************************************************************************)
EXTENDS Deploy, TLAPS

-----------------------------------------------------------------------------
(* The invariant.                                                          *)

\* u is a name of the units that some request for g may deploy.
Belongs(u, g) ==
    \E r \in Req : ReqGroup[r] = g /\ u \in UnitsOf(Legacy[r]) \cup UnitsOf(Planned[r])

Waiting == {"new", "absent", "locking", "planning"}
Looping == {"sources", "functions", "prune functions", "prune sources",
            "delete functions", "delete maps"}

\* What each stage loops over: objects of its kind, named after the group, and
\* never of a unit that is kept.
TodoInv(r) ==
    /\ pc[r] \notin Looping => todo[r] = {}
    /\ \A o \in todo[r] :
          /\ o \in Object
          /\ Belongs(o[2], ReqGroup[r])
          /\ pc[r] = "sources" => o[1] = "source" /\ o[2] \in UnitsOf(units[r])
          /\ pc[r] = "functions" => o[1] = "function" /\ o[2] \in UnitsOf(units[r])
          /\ pc[r] = "prune functions" => o[1] = "function" /\ o[2] \notin UnitsOf(units[r])
          /\ pc[r] = "prune sources" => o[1] = "source" /\ o[2] \notin UnitsOf(units[r])
          /\ pc[r] = "delete functions" => o[1] = "function"
          /\ pc[r] = "delete maps" => o[1] \in {"source", "endpoints"}

\* Units are chosen once, and only those that may be.
UnitsInv(r) ==
    /\ pc[r] \in Waiting => units[r] = NoUnits
    /\ pc[r] \in DeploySteps \ {"planning"} => units[r] # NoUnits
    /\ units[r] # NoUnits =>
          /\ Valid(units[r])
          /\ units[r] \in {Legacy[r], Planned[r]}
          /\ Mode[r] = "required" => units[r] = Planned[r]

\* A deploy at work holds the lock of its group; a delete is never among them.
LockInv(r) ==
    /\ pc[r] \in DeploySteps \cup {"locking"} => ReqKind[r] = "deploy"
    /\ pc[r] \in DeleteSteps => ReqKind[r] = "delete"
    /\ pc[r] \in DeploySteps => lock[ReqServer[r]][ReqGroup[r]] = r

\* An undisturbed request is the only one at work on its group, and the one at work
\* on a group that is not raced is undisturbed.
AloneInv(r) ==
    /\ r \in undisturbed =>
          \A q \in Req \ {r} : ReqGroup[q] = ReqGroup[r] => pc[q] \notin Working
    /\ pc[r] \in Working /\ ReqGroup[r] \notin raced => r \in undisturbed

\* Every object is labelled with the id its name was made of.
OwnerInv == \A o \in Object : cluster[o] # Absent => Belongs(o[2], cluster[o].group)

Wanted(r, u) == [group |-> ReqGroup[r], content |-> units[r][u]]

\* The objects of this kind are as r wants them, but for those still to be put,
Written(r, kind) ==
    \A u \in UnitsOf(units[r]) :
        <<kind, u>> \notin todo[r] => cluster[<<kind, u>>] = Wanted(r, u)

\* and the group has no other, but for those still to be removed.
Pruned(r, kind, keep) ==
    \A u \in Unit :
        cluster[<<kind, u>>].group = ReqGroup[r] /\ <<kind, u>> \notin todo[r] => u \in keep

\* What a request alone in its group has brought about.
StageInv(r) ==
    LET own == UnitsOf(units[r]) IN
    /\ pc[r] \in DeploySteps \ {"planning"} => Written(r, "source")
    /\ pc[r] \in DeploySteps \ {"planning", "sources"} => Written(r, "function")
    /\ pc[r] \in {"prune functions", "list sources", "prune sources"} => Pruned(r, "function", own)
    /\ pc[r] = "prune sources" => Pruned(r, "source", own)
    /\ pc[r] \in {"delete functions", "delete: list maps", "delete maps"} =>
          Pruned(r, "function", {})
    /\ pc[r] = "delete maps" => Pruned(r, "source", {})
    /\ pc[r] = "succeeded" =>
          Exactly(ReqGroup[r], IF ReqKind[r] = "deploy" THEN units[r] ELSE NoUnits)

RequestInv(r) ==
    /\ TodoInv(r) /\ UnitsInv(r) /\ LockInv(r) /\ AloneInv(r)
    /\ r \in undisturbed => StageInv(r)

IInv ==
    /\ TypeOK
    /\ OwnerInv
    /\ AcceptedOnly
    /\ FunctionHasSource
    /\ \A r \in Req : RequestInv(r)

-----------------------------------------------------------------------------
(* Units and names.                                                        *)

LEMMA UnitMapsAre ==
  ASSUME NEW f \in UnitMaps
  PROVE  /\ DOMAIN f \subseteq Unit /\ DOMAIN f # {}
         /\ f # NoUnits /\ UnitsOf(f) = DOMAIN f
         /\ \A u \in DOMAIN f : f[u] \in Content
<1>1. PICK D \in (SUBSET Unit) \ {{}} : f \in [D -> Content]
  BY DEF UnitMaps
<1>2. f # NoUnits
  BY RequestsAssumption
<1>3. UnitsOf(f) = DOMAIN f
  BY <1>2 DEF UnitsOf
<1>4. DOMAIN f = D
  BY <1>1
<1> QED
  BY <1>1, <1>2, <1>3, <1>4

\* A name is of one id only.
LEMMA BelongsOnce ==
  ASSUME NEW u, NEW g, NEW h, Belongs(u, g), Belongs(u, h)
  PROVE  g = h /\ g \in Group /\ g # None
<1>1. PICK q \in Req : ReqGroup[q] = g /\ u \in UnitsOf(Legacy[q]) \cup UnitsOf(Planned[q])
  BY DEF Belongs
<1>2. PICK r \in Req : ReqGroup[r] = h /\ u \in UnitsOf(Legacy[r]) \cup UnitsOf(Planned[r])
  BY DEF Belongs
<1>3. g = h
  BY <1>1, <1>2, NamesAssumption
<1> QED
  BY <1>1, <1>3, RequestsAssumption

LEMMA OwnUnits ==
  ASSUME NEW r \in Req, units[r] \in UnitMaps \cup {NoUnits}, UnitsInv(r),
         NEW u \in UnitsOf(units[r])
  PROVE  /\ u \in Unit /\ Belongs(u, ReqGroup[r]) /\ units[r] # NoUnits
         /\ units[r][u] \in Content /\ units[r][u] \notin Oversized
<1>1. units[r] \in UnitMaps /\ units[r] # NoUnits
  BY DEF UnitsOf
<1>2. u \in DOMAIN units[r] /\ u \in Unit /\ units[r][u] \in Content
  BY <1>1, UnitMapsAre
<1>3. Valid(units[r]) /\ units[r] \in {Legacy[r], Planned[r]}
  BY <1>1 DEF UnitsInv
<1>4. Belongs(u, ReqGroup[r])
  BY <1>3 DEF Belongs
<1> QED
  BY <1>1, <1>2, <1>3, <1>4 DEF Valid

-----------------------------------------------------------------------------
(* Types.                                                                  *)

\* What a request may put is an entry.
LEMMA PutType ==
  ASSUME TypeOK, NEW o \in Object, NEW entry \in Entry, Put(o, entry)
  PROVE  cluster' \in [Object -> Entry]
BY DEF TypeOK, Put

LEMMA RemoveType ==
  ASSUME TypeOK, NEW o \in Object, Remove(o)
  PROVE  cluster' \in [Object -> Entry]
BY DEF TypeOK, Remove, Absent, Entry

\* The mutex of one group is all that a step changes of the locks.
LEMMA LockType ==
  ASSUME TypeOK, NEW r \in Req, NEW holder \in Req \cup {None},
         lock' = [lock EXCEPT ![ReqServer[r]][ReqGroup[r]] = holder]
  PROVE  /\ lock' \in [Server -> [Group -> Req \cup {None}]]
         /\ lock'[ReqServer[r]][ReqGroup[r]] = holder
         /\ \A s \in Server, g \in Group :
               s # ReqServer[r] \/ g # ReqGroup[r] => lock'[s][g] = lock[s][g]
<1> DEFINE s0 == ReqServer[r]
           g0 == ReqGroup[r]
<1>1. s0 \in Server /\ g0 \in Group
  BY RequestsAssumption
<1>2. lock \in [Server -> [Group -> Req \cup {None}]]
  BY DEF TypeOK
<1>3. lock' = [lock EXCEPT ![s0] = [lock[s0] EXCEPT ![g0] = holder]]
  BY <1>1, <1>2
<1>4. [lock[s0] EXCEPT ![g0] = holder] \in [Group -> Req \cup {None}]
  BY <1>1, <1>2
<1> HIDE DEF s0, g0
<1>5. /\ lock' \in [Server -> [Group -> Req \cup {None}]]
      /\ lock'[s0] = [lock[s0] EXCEPT ![g0] = holder]
      /\ \A s \in Server : s # s0 => lock'[s] = lock[s]
  BY <1>1, <1>2, <1>3, <1>4
<1>6. lock[s0] \in [Group -> Req \cup {None}]
  BY <1>1, <1>2
<1> QED
  BY <1>1, <1>5, <1>6 DEF s0, g0

LEMMA ReleaseKeeps ==
  ASSUME TypeOK, NEW r \in Req, Release(r)
  PROVE  /\ lock' \in [Server -> [Group -> Req \cup {None}]]
         /\ \A s \in Server, g \in Group : lock[s][g] # r => lock'[s][g] = lock[s][g]
<1> DEFINE old == lock[ReqServer[r]][ReqGroup[r]]
           holder == IF old = r THEN None ELSE old
<1>1. ReqServer[r] \in Server /\ ReqGroup[r] \in Group
  BY RequestsAssumption
<1>2. holder \in Req \cup {None}
  BY <1>1 DEF TypeOK
<1>3. lock' = [lock EXCEPT ![ReqServer[r]][ReqGroup[r]] = holder]
  BY DEF Release
<1>4. old # r => holder = old
  OBVIOUS
<1> HIDE DEF holder
<1>5. /\ lock' \in [Server -> [Group -> Req \cup {None}]]
      /\ lock'[ReqServer[r]][ReqGroup[r]] = holder
      /\ \A s \in Server, g \in Group :
            s # ReqServer[r] \/ g # ReqGroup[r] => lock'[s][g] = lock[s][g]
  BY <1>2, <1>3, LockType
<1> QED
  BY <1>4, <1>5

LEMMA FinishType ==
  ASSUME TypeOK, NEW r \in Req, NEW outcome \in Finished, Finish(r, outcome)
  PROVE  /\ pc' \in [Req -> {"new", "locking"} \cup Working \cup Finished]
         /\ todo' \in [Req -> SUBSET Object]
         /\ lock' \in [Server -> [Group -> Req \cup {None}]]
         /\ undisturbed' \subseteq Req
         /\ raced' \subseteq Group
<1>1. lock' \in [Server -> [Group -> Req \cup {None}]]
  BY ReleaseKeeps DEF Finish
<1> QED
  BY <1>1 DEF TypeOK, Finish

-----------------------------------------------------------------------------
(* What a step of a request at work leaves to the others.                  *)

\* A step of r puts units of its own, or removes objects named after its group.
Touches(r) ==
    \A o \in Object : cluster'[o] # cluster[o] =>
        /\ Belongs(o[2], ReqGroup[r])
        /\ \/ cluster'[o] = Absent
           \/ o[2] \in UnitsOf(units[r]) /\ cluster'[o] = Wanted(r, o[2])

WorkStep(r) ==
    /\ pc[r] \in Working
    /\ \A q \in Req \ {r} : pc'[q] = pc[q] /\ todo'[q] = todo[q] /\ units'[q] = units[q]
    /\ units[r] # NoUnits => units'[r] = units[r]
    /\ \A q \in Req \ {r} :
          lock[ReqServer[q]][ReqGroup[q]] = q => lock'[ReqServer[q]][ReqGroup[q]] = q
    /\ undisturbed' = undisturbed
    /\ \/ raced' = raced
       \/ r \in undisturbed /\ pc'[r] = "succeeded" /\ raced' = raced \ {ReqGroup[r]}
    /\ Touches(r)

\* The Functions of the group of r have their sources.
OwnSources(r) ==
    ReqGroup[r] \notin raced =>
        \A u \in Unit :
            /\ cluster[<<"function", u>>] # Absent
            /\ cluster[<<"function", u>>].group = ReqGroup[r]
            => cluster[<<"source", u>>] # Absent

\* Objects of other groups stay as they are.
LEMMA OthersObjects ==
  ASSUME TypeOK, TypeOK', OwnerInv, NEW r \in Req, Touches(r), NEW o \in Object,
         NEW g \in Group, g # ReqGroup[r],
         cluster[o].group = g \/ cluster'[o].group = g \/ Belongs(o[2], g)
  PROVE  cluster'[o] = cluster[o]
<1>1. SUFFICES ASSUME cluster'[o] # cluster[o]  PROVE FALSE
  OBVIOUS
<1>2. Belongs(o[2], ReqGroup[r])
  BY <1>1 DEF Touches
<1>3. ~Belongs(o[2], g)
  BY <1>2, BelongsOnce
<1>4. cluster[o].group # g
  BY <1>3, RequestsAssumption DEF OwnerInv, Absent
<1>5. cluster'[o].group # g
  <2>1. None # g
    BY RequestsAssumption
  <2>2. cluster'[o] = Absent \/ cluster'[o] = Wanted(r, o[2])
    BY <1>1 DEF Touches
  <2> QED
    BY <2>1, <2>2 DEF Absent, Wanted
<1> QED
  BY <1>3, <1>4, <1>5

\* The same objects are still what the same requests asked for.
LEMMA AcceptedStays ==
  ASSUME AcceptedOnly, units' = units,
         \A kind \in {"function", "source"}, u \in Unit :
            cluster'[<<kind, u>>] = cluster[<<kind, u>>]
  PROVE  AcceptedOnly'
<1> SUFFICES ASSUME NEW kind \in {"function", "source"}, NEW u \in Unit,
                    cluster'[<<kind, u>>] # Absent
             PROVE  /\ cluster'[<<kind, u>>].content \notin Oversized
                    /\ \E q \in Req :
                          /\ ReqGroup[q] = cluster'[<<kind, u>>].group
                          /\ u \in UnitsOf(units[q])
                          /\ units[q][u] = cluster'[<<kind, u>>].content
                          /\ Mode[q] = "required" => units[q] = Planned[q]
  BY DEF AcceptedOnly, UnitsOf
<1>1. cluster'[<<kind, u>>] = cluster[<<kind, u>>]
  OBVIOUS
<1> QED
  BY <1>1 DEF AcceptedOnly

LEMMA WorkKeepsOthers ==
  ASSUME IInv, TypeOK', NEW r \in Req, WorkStep(r), NEW q \in Req \ {r}
  PROVE  RequestInv(q)'
<1>1. TypeOK /\ OwnerInv /\ RequestInv(q) /\ RequestInv(r) /\ r # q
  BY DEF IInv
<1>2. pc'[q] = pc[q] /\ todo'[q] = todo[q] /\ units'[q] = units[q] /\ undisturbed' = undisturbed
  BY DEF WorkStep
<1>3. TodoInv(q)' /\ UnitsInv(q)'
  BY <1>1, <1>2 DEF RequestInv, TodoInv, UnitsInv, Valid
<1>4. LockInv(q)'
  BY <1>1, <1>2 DEF RequestInv, LockInv, WorkStep
<1>5. q \in undisturbed => ReqGroup[r] # ReqGroup[q]
  BY <1>1 DEF RequestInv, AloneInv, WorkStep
<1>6. AloneInv(q)'
  <2>1. ASSUME q \in undisturbed, NEW p \in Req \ {q}, ReqGroup[p] = ReqGroup[q]
        PROVE  pc'[p] \notin Working
    BY <1>1, <1>5, <2>1 DEF RequestInv, AloneInv, WorkStep
  <2>2. ASSUME pc[q] \in Working, ReqGroup[q] \notin raced'
        PROVE  q \in undisturbed
    <3>1. r \in undisturbed => ReqGroup[r] # ReqGroup[q]
      BY <1>1, <2>2 DEF RequestInv, AloneInv
    <3>2. ReqGroup[q] \notin raced
      BY <2>2, <3>1 DEF WorkStep
    <3> QED
      BY <1>1, <2>2, <3>2 DEF RequestInv, AloneInv
  <2> QED
    BY <1>2, <2>1, <2>2 DEF AloneInv
<1>7. ASSUME q \in undisturbed
      PROVE  StageInv(q)'
  <2>1. StageInv(q) /\ ReqGroup[q] # ReqGroup[r] /\ ReqGroup[q] \in Group /\ Touches(r)
    BY <1>1, <1>5, <1>7, RequestsAssumption DEF RequestInv, WorkStep
  <2>2. ASSUME NEW u \in UnitsOf(units[q])
        PROVE  u \in Unit /\ Belongs(u, ReqGroup[q])
    BY <1>1, OwnUnits DEF TypeOK, RequestInv
  <2>3. ASSUME NEW kind \in {"function", "source"}, NEW u \in Unit,
               cluster'[<<kind, u>>] # cluster[<<kind, u>>]
        PROVE  /\ cluster[<<kind, u>>].group # ReqGroup[q]
               /\ cluster'[<<kind, u>>].group # ReqGroup[q]
               /\ u \notin UnitsOf(units[q])
    <3>1. <<kind, u>> \in Object /\ <<kind, u>>[2] = u
      BY DEF Object
    <3> QED
      BY <1>1, <2>1, <2>2, <2>3, <3>1, OthersObjects
  <2>4. \A kind \in {"function", "source"} : Written(q, kind) => Written(q, kind)'
    BY <1>2, <2>2, <2>3 DEF Written, Wanted
  <2>5. \A kind \in {"function", "source"} : \A keep :
            Pruned(q, kind, keep) => Pruned(q, kind, keep)'
    BY <1>2, <2>3 DEF Pruned
  <2>6. ASSUME NEW f \in {units[q], NoUnits}, Exactly(ReqGroup[q], f)
        PROVE  Exactly(ReqGroup[q], f)'
    BY <2>3, <2>6 DEF Exactly, UnitsOf
  <2> QED
    BY <1>2, <2>1, <2>4, <2>5, <2>6 DEF StageInv
<1> QED
  BY <1>2, <1>3, <1>4, <1>6, <1>7 DEF RequestInv

\* What all steps of a request at work preserve.
LEMMA WorkKeeps ==
  ASSUME IInv, TypeOK', NEW r \in Req, WorkStep(r), RequestInv(r)', OwnSources(r)'
  PROVE  IInv'
<1>1. TypeOK /\ OwnerInv /\ RequestInv(r) /\ UnitsInv(r) /\ Touches(r) /\ ReqGroup[r] \in Group
  BY RequestsAssumption DEF IInv, RequestInv, WorkStep
<1>2. ASSUME NEW q \in Req
      PROVE  RequestInv(q)'
  BY WorkKeepsOthers
<1>3. OwnerInv'
  <2>1. ASSUME NEW o \in Object, cluster'[o] # Absent
        PROVE  Belongs(o[2], cluster'[o].group)
    <3>1. CASE cluster'[o] = cluster[o]
      BY <1>1, <2>1, <3>1 DEF OwnerInv
    <3>2. CASE cluster'[o] # cluster[o]
      <4>1. Belongs(o[2], ReqGroup[r]) /\ cluster'[o] = Wanted(r, o[2])
        BY <1>1, <2>1, <3>2 DEF Touches
      <4>2. cluster'[o].group = ReqGroup[r]
        BY <4>1 DEF Wanted
      <4> QED
        BY <4>1, <4>2
    <3> QED
      BY <3>1, <3>2
  <2> QED
    BY <2>1 DEF OwnerInv, Belongs
<1>4. AcceptedOnly'
  <2>1. ASSUME NEW q \in Req, units[q] # NoUnits
        PROVE  units'[q] = units[q]
    BY <2>1 DEF WorkStep
  <2>2. ASSUME NEW kind \in {"function", "source"}, NEW u \in Unit, cluster'[<<kind, u>>] # Absent
        PROVE  /\ cluster'[<<kind, u>>].content \notin Oversized
               /\ \E q \in Req :
                     /\ ReqGroup[q] = cluster'[<<kind, u>>].group
                     /\ u \in UnitsOf(units'[q])
                     /\ units'[q][u] = cluster'[<<kind, u>>].content
                     /\ Mode[q] = "required" => units'[q] = Planned[q]
    <3>1. CASE cluster'[<<kind, u>>] = cluster[<<kind, u>>]
      <4>1. cluster[<<kind, u>>].content \notin Oversized
        BY <2>2, <3>1 DEF IInv, AcceptedOnly
      <4>2. PICK q \in Req :
                /\ ReqGroup[q] = cluster[<<kind, u>>].group
                /\ u \in UnitsOf(units[q])
                /\ units[q][u] = cluster[<<kind, u>>].content
                /\ Mode[q] = "required" => units[q] = Planned[q]
        BY <2>2, <3>1 DEF IInv, AcceptedOnly
      <4>3. units'[q] = units[q]
        BY <2>1, <4>2 DEF UnitsOf
      <4> QED
        BY <3>1, <4>1, <4>2, <4>3
    <3>2. CASE cluster'[<<kind, u>>] # cluster[<<kind, u>>]
      <4>1. <<kind, u>> \in Object /\ <<kind, u>>[2] = u
        BY DEF Object
      <4>2. u \in UnitsOf(units[r]) /\ cluster'[<<kind, u>>] = Wanted(r, u)
        BY <1>1, <2>2, <3>2, <4>1 DEF Touches
      <4>3. units[r] # NoUnits /\ units[r][u] \notin Oversized
        BY <1>1, <4>2, OwnUnits DEF TypeOK
      <4>4. units'[r] = units[r]
        BY <2>1, <4>3
      <4>5. Mode[r] = "required" => units[r] = Planned[r]
        BY <1>1, <4>3 DEF UnitsInv
      <4> QED
        BY <4>2, <4>3, <4>4, <4>5 DEF Wanted
    <3> QED
      BY <3>1, <3>2
  <2> QED
    BY <2>2 DEF AcceptedOnly
<1>5. FunctionHasSource'
  <2>1. ASSUME NEW u \in Unit, cluster'[<<"function", u>>] # Absent,
               cluster'[<<"function", u>>].group \notin raced'
        PROVE  cluster'[<<"source", u>>] # Absent
    <3> DEFINE g == cluster'[<<"function", u>>].group
    <3>1. CASE g = ReqGroup[r]
      BY <2>1, <3>1 DEF OwnSources
    <3>2. CASE g # ReqGroup[r]
      <4>1. /\ <<"function", u>> \in Object /\ <<"function", u>>[2] = u
            /\ <<"source", u>> \in Object /\ <<"source", u>>[2] = u
        BY DEF Object
      <4>2. Belongs(u, g)
        BY <1>3, <2>1, <4>1 DEF OwnerInv, Belongs
      <4>3. g \in Group
        BY <4>2, BelongsOnce
      <4>4. cluster'[<<"function", u>>] = cluster[<<"function", u>>]
        BY <1>1, <3>2, <4>1, <4>2, <4>3, OthersObjects
      <4>5. cluster'[<<"source", u>>] = cluster[<<"source", u>>]
        BY <1>1, <3>2, <4>1, <4>2, <4>3, OthersObjects
      <4>6. g \notin raced
        BY <2>1, <3>2 DEF WorkStep
      <4> QED
        BY <2>1, <4>4, <4>5, <4>6 DEF IInv, FunctionHasSource
    <3> QED
      BY <3>1, <3>2
  <2> QED
    BY <2>1 DEF FunctionHasSource
<1> QED
  BY <1>2, <1>3, <1>4, <1>5 DEF IInv

-----------------------------------------------------------------------------
(* What the pieces of a step do: calls, loops, and the end of a request.   *)

LEMMA PutEffect ==
  ASSUME TypeOK, NEW r \in Req, UnitsInv(r), NEW kind \in {"function", "source"},
         NEW u \in UnitsOf(units[r]),
         Put(<<kind, u>>, [group |-> ReqGroup[r], content |-> units[r][u]])
  PROVE  /\ cluster' \in [Object -> Entry]
         /\ Touches(r)
         /\ cluster'[<<kind, u>>] = Wanted(r, u) /\ cluster'[<<kind, u>>] # Absent
         /\ \A o \in Object : o # <<kind, u>> => cluster'[o] = cluster[o]
<1> DEFINE o0 == <<kind, u>>
<1>1. /\ u \in Unit /\ Belongs(u, ReqGroup[r]) /\ units[r][u] \in Content
  BY OwnUnits DEF TypeOK
<1>2. o0 \in Object /\ o0[2] = u
  BY <1>1 DEF Object
<1>3. ReqGroup[r] \in Group /\ ReqGroup[r] # None
  BY RequestsAssumption
<1>4. Wanted(r, u) \in Entry /\ Wanted(r, u) # Absent
  BY <1>1, <1>3 DEF Entry, Wanted, Absent
<1>5. cluster' = [cluster EXCEPT ![o0] = Wanted(r, u)]
  BY DEF Put, Wanted
<1> HIDE DEF o0
<1>6. /\ cluster' \in [Object -> Entry]
      /\ cluster'[o0] = Wanted(r, u)
      /\ \A o \in Object : o # o0 => cluster'[o] = cluster[o]
  BY <1>2, <1>4, <1>5 DEF TypeOK
<1>7. Touches(r)
  BY <1>1, <1>2, <1>6 DEF Touches
<1> QED
  BY <1>4, <1>6, <1>7 DEF o0

LEMMA RemoveEffect ==
  ASSUME TypeOK, NEW r \in Req, NEW o \in Object, Belongs(o[2], ReqGroup[r]), Remove(o)
  PROVE  /\ cluster' \in [Object -> Entry]
         /\ Touches(r)
         /\ cluster'[o] = Absent
         /\ \A p \in Object : p # o => cluster'[p] = cluster[p]
<1>1. Absent \in Entry
  BY DEF Absent, Entry
<1>2. /\ cluster' \in [Object -> Entry]
      /\ cluster'[o] = Absent
      /\ \A p \in Object : p # o => cluster'[p] = cluster[p]
  BY <1>1 DEF TypeOK, Remove
<1> QED
  BY <1>2 DEF Touches

\* The step of a loop, and the step to another stage with its own list.
LEMMA MoveEffect ==
  ASSUME IInv, NEW r \in Req, pc[r] \in Working,
         pc' = [pc EXCEPT ![r] = pc'[r]], todo' = [todo EXCEPT ![r] = todo'[r]],
         UNCHANGED <<lock, ghosts>>, units[r] # NoUnits => units'[r] = units[r],
         \A q \in Req \ {r} : units'[q] = units[q],
         Touches(r), pc'[r] \in Working, todo'[r] \subseteq Object,
         pc'[r] \in DeploySteps <=> pc[r] \in DeploySteps
  PROVE  /\ pc' \in [Req -> {"new", "locking"} \cup Working \cup Finished]
         /\ todo' \in [Req -> SUBSET Object]
         /\ lock' \in [Server -> [Group -> Req \cup {None}]]
         /\ undisturbed' = undisturbed /\ undisturbed' \subseteq Req
         /\ raced' = raced /\ raced' \subseteq Group
         /\ WorkStep(r) /\ LockInv(r)' /\ AloneInv(r)'
<1>1. TypeOK /\ LockInv(r) /\ AloneInv(r)
  BY DEF IInv, RequestInv
<1>2. /\ pc' \in [Req -> {"new", "locking"} \cup Working \cup Finished]
      /\ todo' \in [Req -> SUBSET Object]
      /\ \A q \in Req \ {r} : pc'[q] = pc[q] /\ todo'[q] = todo[q]
  BY <1>1 DEF TypeOK
<1>3. lock' = lock /\ undisturbed' = undisturbed /\ raced' = raced
  BY DEF ghosts
<1>4. WorkStep(r)
  BY <1>2, <1>3 DEF WorkStep
<1>5. LockInv(r)'
  BY <1>1, <1>2, <1>3 DEF LockInv, Working, DeploySteps, DeleteSteps
<1>6. AloneInv(r)'
  BY <1>1, <1>2, <1>3 DEF AloneInv
<1> QED
  BY <1>1, <1>2, <1>3, <1>4, <1>5, <1>6 DEF TypeOK

\* The end of a request: nothing is left to do, and no lock to hold.
LEMMA FinishEffect ==
  ASSUME IInv, NEW r \in Req, NEW outcome \in {"succeeded", "failed", "rejected"},
         pc[r] \in Working, Finish(r, outcome), units' = units, Touches(r)
  PROVE  /\ pc'[r] = outcome /\ todo'[r] = {} /\ undisturbed' = undisturbed
         /\ outcome # "succeeded" => raced' = raced
         /\ ReqGroup[r] \notin raced' => r \in undisturbed
         /\ WorkStep(r)
         /\ TodoInv(r)' /\ UnitsInv(r)' /\ LockInv(r)' /\ AloneInv(r)'
<1>1. TypeOK /\ UnitsInv(r) /\ AloneInv(r) /\ outcome \in Finished
  BY DEF IInv, RequestInv, Finished
<1>2. /\ pc' \in [Req -> {"new", "locking"} \cup Working \cup Finished]
      /\ todo' \in [Req -> SUBSET Object]
      /\ pc'[r] = outcome /\ todo'[r] = {}
      /\ \A q \in Req \ {r} : pc'[q] = pc[q] /\ todo'[q] = todo[q]
  BY <1>1, FinishType DEF TypeOK, Finish
<1>3. /\ undisturbed' = undisturbed
      /\ \/ raced' = raced
         \/ outcome = "succeeded" /\ r \in undisturbed /\ raced' = raced \ {ReqGroup[r]}
  BY DEF Finish
<1>4. \A s \in Server, g \in Group : lock[s][g] # r => lock'[s][g] = lock[s][g]
  BY <1>1, ReleaseKeeps DEF Finish
<1>5. ASSUME NEW q \in Req \ {r}, lock[ReqServer[q]][ReqGroup[q]] = q
      PROVE  lock'[ReqServer[q]][ReqGroup[q]] = q
  <2>1. ReqServer[q] \in Server /\ ReqGroup[q] \in Group /\ q # r
    BY RequestsAssumption
  <2> QED
    BY <1>4, <1>5, <2>1
<1>6. WorkStep(r)
  BY <1>2, <1>3, <1>5 DEF WorkStep
<1>7. outcome \notin Working /\ outcome \notin Looping /\ outcome \notin Waiting
      /\ outcome # "locking"
  BY DEF Working, DeploySteps, DeleteSteps, Looping, Waiting
<1>8. TodoInv(r)' /\ UnitsInv(r)'
  BY <1>1, <1>2, <1>7 DEF TodoInv, UnitsInv, Working, Valid
<1>9. LockInv(r)' /\ AloneInv(r)'
  BY <1>1, <1>2, <1>3, <1>7 DEF LockInv, AloneInv, Working
<1>10. ReqGroup[r] \notin raced' => r \in undisturbed
  BY <1>1, <1>3 DEF AloneInv
<1> QED
  BY <1>2, <1>3, <1>6, <1>8, <1>9, <1>10

\* Three ways a call of a request at work ends: its loop or the next stage goes
\* on, it fails, or it was the last call.
LEMMA MoveKeeps ==
  ASSUME held' \subseteq Req, IInv, NEW r \in Req, pc[r] \in Working \ {"planning"},
         pc' = [pc EXCEPT ![r] = pc'[r]], todo' = [todo EXCEPT ![r] = todo'[r]],
         UNCHANGED <<lock, ghosts, units, counters>>,
         cluster' \in [Object -> Entry], Touches(r),
         pc'[r] \in Working \ {"planning"}, todo'[r] \subseteq Object,
         pc'[r] \in DeploySteps <=> pc[r] \in DeploySteps,
         TodoInv(r)', r \in undisturbed => StageInv(r)', OwnSources(r)'
  PROVE  IInv'
<1>1. TypeOK /\ UnitsInv(r)
  BY DEF IInv, RequestInv
<1>2. units' = units /\ faults' = faults /\ crashes' = crashes
  BY DEF counters
<1>3. /\ TypeOK'
      /\ undisturbed' = undisturbed
      /\ WorkStep(r) /\ LockInv(r)' /\ AloneInv(r)'
  BY <1>1, <1>2, MoveEffect DEF TypeOK
<1>4. UnitsInv(r)'
  BY <1>1, <1>2, <1>3 DEF UnitsInv, Valid, Waiting, Working, DeploySteps, DeleteSteps
<1> QED
  BY <1>3, <1>4, WorkKeeps DEF RequestInv

LEMMA FailKeeps ==
  ASSUME held' \subseteq Req,
         IInv, NEW r \in Req, pc[r] \in Working, Fail(r), units' = units, crashes' = crashes,
         cluster' \in [Object -> Entry], Touches(r), OwnSources(r)'
  PROVE  IInv'
<1>1. Finish(r, "failed") /\ faults' \in 0 .. MaxFaults
  BY BoundsAssumption DEF Fail, IInv, TypeOK
<1>2. TypeOK'
  BY <1>1, FinishType DEF IInv, TypeOK, Finished
<1>3. RequestInv(r)' /\ WorkStep(r)
  BY <1>1, FinishEffect DEF RequestInv, StageInv, DeploySteps
<1> QED
  BY <1>2, <1>3, WorkKeeps

LEMMA SuccessKeeps ==
  ASSUME held' \subseteq Req, IInv, NEW r \in Req, pc[r] \in Working, Finish(r, "succeeded"),
         units' = units, faults' = faults, crashes' = crashes,
         cluster' \in [Object -> Entry], Touches(r),
         r \in undisturbed =>
             Exactly(ReqGroup[r], IF ReqKind[r] = "deploy" THEN units[r] ELSE NoUnits)'
  PROVE  IInv'
<1> DEFINE asked == IF ReqKind[r] = "deploy" THEN units[r] ELSE NoUnits
<1>1. TypeOK'
  BY FinishType DEF IInv, TypeOK, Finished
<1>2. /\ pc'[r] = "succeeded" /\ undisturbed' = undisturbed /\ WorkStep(r)
      /\ ReqGroup[r] \notin raced' => r \in undisturbed
      /\ TodoInv(r)' /\ UnitsInv(r)' /\ LockInv(r)' /\ AloneInv(r)'
  BY FinishEffect
<1>3. RequestInv(r)'
  BY <1>2 DEF RequestInv, StageInv, DeploySteps
<1>4. OwnSources(r)'
  <2>1. SUFFICES ASSUME ReqGroup[r] \notin raced', NEW u \in Unit,
                        cluster'[<<"function", u>>].group = ReqGroup[r]
                 PROVE  cluster'[<<"source", u>>] # Absent
    BY DEF OwnSources
  <2>2. Exactly(ReqGroup[r], asked)'
    BY <1>2, <2>1
  <2>3. asked' # NoUnits /\ u \in UnitsOf(asked')
    BY <2>1, <2>2 DEF Exactly
  <2>4. cluster'[<<"source", u>>] = [group |-> ReqGroup[r], content |-> (asked')[u]]
    BY <2>2, <2>3 DEF Exactly
  <2>5. ReqGroup[r] # None
    BY RequestsAssumption
  <2> QED
    BY <2>4, <2>5 DEF Absent
<1> QED
  BY <1>1, <1>2, <1>3, <1>4, WorkKeeps

LEMMA CallFailsKeeps ==
  ASSUME held' \subseteq Req, IInv, NEW r \in Req, CallFails(r)
  PROVE  IInv'
<1>1. cluster' = cluster /\ units' = units /\ crashes' = crashes /\ raced' = raced
      /\ Fail(r) /\ pc[r] \in Working
  BY DEF CallFails, Fail, Finish
<1>2. Touches(r) /\ OwnSources(r)' /\ cluster' \in [Object -> Entry]
  BY <1>1 DEF Touches, OwnSources, IInv, TypeOK, FunctionHasSource
<1> QED
  BY <1>1, <1>2, FailKeeps

\* A loop that goes on, and one that ends.
LEMMA AdvanceIs ==
  ASSUME TypeOK, NEW r \in Req, NEW o, NEW next, NEW nextTodo, Advance(r, o, next, nextTodo)
  PROVE  /\ pc' = [pc EXCEPT ![r] = pc'[r]] /\ todo' = [todo EXCEPT ![r] = todo'[r]]
         /\ UNCHANGED <<lock, ghosts, faults>>
         /\ \/ pc'[r] = pc[r] /\ todo'[r] = todo[r] \ {o}
            \/ todo[r] \ {o} = {} /\ pc'[r] = next /\ todo'[r] = nextTodo
BY DEF Advance, TypeOK

-----------------------------------------------------------------------------
(* The steps of a deploy at work.                                          *)

\* What the invariant says of a request at work on its group.
LEMMA AtWork ==
  ASSUME IInv, NEW r \in Req
  PROVE  /\ TypeOK /\ TodoInv(r) /\ UnitsInv(r) /\ LockInv(r) /\ AloneInv(r)
         /\ r \in undisturbed => StageInv(r)
         /\ todo[r] \subseteq Object
         /\ pc[r] \in Working /\ ReqGroup[r] \notin raced => r \in undisturbed
         /\ ReqGroup[r] \in Group /\ ReqGroup[r] # None
BY RequestsAssumption DEF IInv, RequestInv, AloneInv, TypeOK

LEMMA UpsertSourceKeeps ==
  ASSUME held' \subseteq Req, IInv, NEW r \in Req, UpsertSourceConfigMap(r)
  PROVE  IInv'
<1> DEFINE own == UnitsOf(units[r])
<1>1. PICK o \in todo[r] :
          /\ Put(o, [group |-> ReqGroup[r], content |-> units[r][o[2]]])
          /\ Advance(r, o, "functions", {"function"} \X DOMAIN units[r]) \/ Fail(r)
  BY DEF UpsertSourceConfigMap
<1>2. pc[r] = "sources" /\ units' = units /\ crashes' = crashes
  BY DEF UpsertSourceConfigMap
<1>3. /\ TypeOK /\ TodoInv(r) /\ UnitsInv(r) /\ todo[r] \subseteq Object
      /\ r \in undisturbed => StageInv(r)
  BY AtWork
<1>4. PICK v \in own : o = <<"source", v>>
  BY <1>2, <1>3 DEF TodoInv, Object
<1>5. v \in Unit /\ units[r] # NoUnits /\ own = DOMAIN units[r]
  BY <1>3, <1>4, OwnUnits DEF UnitsOf, TypeOK
<1>6. /\ cluster' \in [Object -> Entry] /\ Touches(r)
      /\ cluster'[<<"source", v>>] = Wanted(r, v) /\ cluster'[<<"source", v>>] # Absent
      /\ \A p \in Object : p # <<"source", v>> => cluster'[p] = cluster[p]
  <2>1. Put(<<"source", v>>, [group |-> ReqGroup[r], content |-> units[r][v]])
    BY <1>1, <1>4
  <2> QED
    BY <1>3, <1>4, <2>1, PutEffect
<1>7. raced' = raced
  BY <1>1 DEF Advance, Fail, Finish, ghosts
<1>8. OwnSources(r)'
  BY <1>6, <1>7 DEF OwnSources, IInv, FunctionHasSource, Object
<1>9. CASE Fail(r)
  BY <1>2, <1>6, <1>8, <1>9, FailKeeps DEF Working, DeploySteps
<1>10. CASE Advance(r, o, "functions", {"function"} \X DOMAIN units[r])
  <2>1. /\ pc' = [pc EXCEPT ![r] = pc'[r]] /\ todo' = [todo EXCEPT ![r] = todo'[r]]
        /\ UNCHANGED <<lock, ghosts, faults>>
        /\ \/ pc'[r] = "sources" /\ todo'[r] = todo[r] \ {o}
           \/ todo[r] \ {o} = {} /\ pc'[r] = "functions" /\ todo'[r] = {"function"} \X own
    BY <1>2, <1>3, <1>5, <1>10, AdvanceIs
  <2>2. undisturbed' = undisturbed
    BY <2>1 DEF ghosts
  <2>3. \A u \in own : u \in Unit /\ Belongs(u, ReqGroup[r])
    BY <1>3, OwnUnits DEF TypeOK
  <2>4. todo'[r] \subseteq Object
    BY <1>3, <2>1, <2>3 DEF Object
  <2>5. TodoInv(r)'
    BY <1>2, <1>3, <2>1, <2>2, <2>3 DEF TodoInv, Looping, Object
  <2>6. ASSUME r \in undisturbed
        PROVE  StageInv(r)'
    <3>1. Written(r, "source")
      BY <1>2, <1>3, <2>6 DEF StageInv, DeploySteps
    <3>2. ASSUME NEW u \in own, <<"source", u>> \notin todo'[r]
          PROVE  cluster'[<<"source", u>>] = Wanted(r, u)
      <4>1. CASE u = v
        BY <1>6, <4>1
      <4>2. CASE u # v
        <5>1. <<"source", u>> # o
          BY <1>4, <4>2
        <5>2. <<"source", u>> \notin todo[r]
          BY <2>1, <3>2, <5>1
        <5> QED
          BY <1>4, <1>6, <2>3, <3>1, <5>1, <5>2 DEF Written, Object
      <4> QED
        BY <4>1, <4>2
    <3>3. Written(r, "source")'
      BY <1>2, <2>2, <3>2 DEF Written, Wanted
    <3>4. pc'[r] = "functions" => Written(r, "function")'
      BY <1>2, <2>1, <2>2 DEF Written
    <3> QED
      BY <2>1, <2>2, <3>3, <3>4 DEF StageInv, DeploySteps
  <2> QED
    BY <1>2, <1>6, <1>8, <2>1, <2>4, <2>5, <2>6, MoveKeeps
    DEF Working, DeploySteps, counters, ghosts
<1> QED
  BY <1>1, <1>9, <1>10

LEMMA UpsertFunctionKeeps ==
  ASSUME held' \subseteq Req, IInv, NEW r \in Req, UpsertFunction(r)
  PROVE  IInv'
<1> DEFINE own == UnitsOf(units[r])
<1>1. PICK o \in todo[r] :
          /\ Put(o, [group |-> ReqGroup[r], content |-> units[r][o[2]]])
          /\ Advance(r, o, "list functions", {}) \/ Fail(r)
  BY DEF UpsertFunction
<1>2. pc[r] = "functions" /\ units' = units /\ crashes' = crashes
  BY DEF UpsertFunction
<1>3. /\ TypeOK /\ TodoInv(r) /\ UnitsInv(r) /\ todo[r] \subseteq Object
      /\ r \in undisturbed => StageInv(r)
      /\ ReqGroup[r] \notin raced => r \in undisturbed
  BY <1>2, AtWork DEF Working, DeploySteps
<1>4. PICK v \in own : o = <<"function", v>>
  BY <1>2, <1>3 DEF TodoInv, Object
<1>5. \A u \in own : u \in Unit /\ Wanted(r, u) # Absent
  BY <1>3, OwnUnits, RequestsAssumption DEF TypeOK, Wanted, Absent
<1>6. /\ cluster' \in [Object -> Entry] /\ Touches(r)
      /\ cluster'[<<"function", v>>] = Wanted(r, v)
      /\ \A p \in Object : p # <<"function", v>> => cluster'[p] = cluster[p]
  <2>1. Put(<<"function", v>>, [group |-> ReqGroup[r], content |-> units[r][v]])
    BY <1>1, <1>4
  <2> QED
    BY <1>3, <1>4, <2>1, PutEffect
<1>7. raced' = raced
  BY <1>1 DEF Advance, Fail, Finish, ghosts
<1>8. ASSUME r \in undisturbed
      PROVE  \A u \in own : cluster'[<<"source", u>>] = Wanted(r, u)
  <2>1. Written(r, "source")
    BY <1>2, <1>3, <1>8 DEF StageInv, DeploySteps
  <2>2. \A u \in own : <<"source", u>> \notin todo[r]
    BY <1>2, <1>3 DEF TodoInv
  <2> QED
    BY <1>5, <1>6, <2>1, <2>2 DEF Written, Object
<1>9. OwnSources(r)'
  <2>1. SUFFICES ASSUME ReqGroup[r] \notin raced, NEW u \in Unit,
                        cluster'[<<"function", u>>] # Absent,
                        cluster'[<<"function", u>>].group = ReqGroup[r]
                 PROVE  cluster'[<<"source", u>>] # Absent
    BY <1>7 DEF OwnSources
  <2>2. CASE u = v
    BY <1>3, <1>4, <1>5, <1>8, <2>1, <2>2
  <2>3. CASE u # v
    BY <1>6, <2>1, <2>3 DEF IInv, FunctionHasSource, Object
  <2> QED
    BY <2>2, <2>3
<1>10. CASE Fail(r)
  BY <1>2, <1>6, <1>9, <1>10, FailKeeps DEF Working, DeploySteps
<1>11. CASE Advance(r, o, "list functions", {})
  <2>1. /\ pc' = [pc EXCEPT ![r] = pc'[r]] /\ todo' = [todo EXCEPT ![r] = todo'[r]]
        /\ UNCHANGED <<lock, ghosts, faults>>
        /\ \/ pc'[r] = "functions" /\ todo'[r] = todo[r] \ {o}
           \/ todo[r] \ {o} = {} /\ pc'[r] = "list functions" /\ todo'[r] = {}
    BY <1>2, <1>3, <1>11, AdvanceIs
  <2>2. undisturbed' = undisturbed
    BY <2>1 DEF ghosts
  <2>3. TodoInv(r)' /\ todo'[r] \subseteq Object
    BY <1>2, <1>3, <2>1, <2>2 DEF TodoInv, Looping
  <2>4. ASSUME r \in undisturbed
        PROVE  StageInv(r)'
    <3>1. Written(r, "function")
      BY <1>2, <1>3, <2>4 DEF StageInv, DeploySteps
    <3>2. ASSUME NEW u \in own, <<"function", u>> \notin todo'[r]
          PROVE  cluster'[<<"function", u>>] = Wanted(r, u)
      <4>1. CASE u = v
        BY <1>6, <4>1
      <4>2. CASE u # v
        <5>1. <<"function", u>> # o
          BY <1>4, <4>2
        <5>2. <<"function", u>> \notin todo[r]
          BY <2>1, <3>2, <5>1
        <5> QED
          BY <1>4, <1>5, <1>6, <3>1, <5>1, <5>2 DEF Written, Object
      <4> QED
        BY <4>1, <4>2
    <3>3. Written(r, "function")'
      BY <1>2, <2>2, <3>2 DEF Written, Wanted
    <3>4. Written(r, "source")'
      BY <1>2, <1>8, <2>4 DEF Written, Wanted
    <3> QED
      BY <2>1, <2>2, <3>3, <3>4 DEF StageInv, DeploySteps
  <2> QED
    BY <1>2, <1>6, <1>9, <2>1, <2>3, <2>4, MoveKeeps DEF Working, DeploySteps, counters, ghosts
<1> QED
  BY <1>1, <1>10, <1>11

\* A List changes nothing in the cluster.
LEMMA ListKeeps ==
  ASSUME held' \subseteq Req, IInv, NEW r \in Req, NEW found, NEW loop, NEW next,
         pc[r] \in Working \ {"planning"}, Loop(r, found, loop, next),
         UNCHANGED <<units, cluster, counters>>, found \in SUBSET Object,
         loop \in Working \ {"planning"}, next \in Working \ {"planning"},
         loop \in DeploySteps <=> pc[r] \in DeploySteps,
         next \in DeploySteps <=> pc[r] \in DeploySteps,
         TodoInv(r)', r \in undisturbed => StageInv(r)'
  PROVE  IInv'
<1>1. TypeOK
  BY AtWork
<1>2. /\ pc' = [pc EXCEPT ![r] = pc'[r]] /\ todo' = [todo EXCEPT ![r] = todo'[r]]
      /\ pc'[r] \in {loop, next} /\ todo'[r] = found
      /\ cluster' = cluster /\ raced' = raced
  BY <1>1 DEF Loop, TypeOK, ghosts
<1>3. Touches(r) /\ OwnSources(r)' /\ cluster' \in [Object -> Entry]
  BY <1>1, <1>2 DEF Touches, OwnSources, IInv, TypeOK, FunctionHasSource
<1> QED
  BY <1>2, <1>3, MoveKeeps DEF Loop

\* Everything found by its label has a name of the group.
LEMMA ListedIs ==
  ASSUME OwnerInv, NEW kinds \in SUBSET {"function", "source", "endpoints"}, NEW g \in Group,
         NEW o \in Listed(kinds, g)
  PROVE  o \in Object /\ o[1] \in kinds /\ Belongs(o[2], g)
<1>1. g # None
  BY RequestsAssumption
<1>2. o \in Object /\ o[1] \in kinds /\ cluster[o].group = g
  BY DEF Listed, Object
<1>3. cluster[o] # Absent
  BY <1>1, <1>2 DEF Absent
<1> QED
  BY <1>2, <1>3 DEF OwnerInv

LEMMA ListStaleFunctionsKeeps ==
  ASSUME held' \subseteq Req, IInv, NEW r \in Req, ListStaleFunctions(r)
  PROVE  IInv'
<1> DEFINE own == UnitsOf(units[r])
           found == StaleFunctions(r)
<1>1. /\ TypeOK /\ TodoInv(r) /\ UnitsInv(r) /\ OwnerInv
      /\ r \in undisturbed => StageInv(r)
      /\ ReqGroup[r] \in Group
  BY AtWork DEF IInv
<1>2. /\ pc[r] = "list functions" /\ units' = units /\ cluster' = cluster
      /\ Loop(r, found, "prune functions", "list sources")
  BY DEF ListStaleFunctions
<1>3. /\ pc'[r] = IF found = {} THEN "list sources" ELSE "prune functions"
      /\ todo'[r] = found /\ undisturbed' = undisturbed
  BY <1>1, <1>2 DEF Loop, TypeOK, ghosts
<1>4. own = DOMAIN units[r] /\ todo[r] = {}
  BY <1>1, <1>2 DEF UnitsOf, UnitsInv, TodoInv, DeploySteps, Looping
<1>5. ASSUME NEW o \in found
      PROVE  /\ o \in Object /\ o[1] = "function" /\ Belongs(o[2], ReqGroup[r])
             /\ o[2] \notin own
  <2>1. o \in Listed({"function"}, ReqGroup[r]) /\ o \notin {"function"} \X own
    BY <1>4 DEF StaleFunctions
  <2>2. o \in Object /\ o[1] \in {"function"} /\ Belongs(o[2], ReqGroup[r])
    BY <1>1, <2>1, ListedIs
  <2> QED
    BY <2>1, <2>2 DEF Object
<1>6. TodoInv(r)'
  BY <1>2, <1>3, <1>5 DEF TodoInv, Looping
<1>7. ASSUME r \in undisturbed
      PROVE  StageInv(r)'
  <2>1. Written(r, "source") /\ Written(r, "function")
    BY <1>1, <1>2, <1>7 DEF StageInv, DeploySteps
  <2>2. Written(r, "source")' /\ Written(r, "function")'
    BY <1>2, <1>4, <2>1 DEF Written, Wanted
  <2>3. Pruned(r, "function", own)'
    <3>1. SUFFICES ASSUME NEW u \in Unit, cluster[<<"function", u>>].group = ReqGroup[r],
                          <<"function", u>> \notin found
                   PROVE  u \in own
      BY <1>2, <1>3 DEF Pruned
    <3>2. <<"function", u>> \in Listed({"function"}, ReqGroup[r])
      BY <3>1 DEF Listed
    <3> QED
      BY <1>4, <3>1, <3>2 DEF StaleFunctions
  <2> QED
    BY <1>2, <1>3, <2>2, <2>3 DEF StageInv, DeploySteps
<1>8. found \in SUBSET Object
  BY <1>5
<1> QED
  BY <1>2, <1>6, <1>7, <1>8, ListKeeps DEF ListStaleFunctions, Working, DeploySteps

\* A removal undoes nothing that was written and nothing that was pruned.
LEMMA RemovalKeeps ==
  ASSUME IInv, NEW r \in Req, NEW o \in todo[r], Remove(o), units' = units,
         todo'[r] = todo[r] \ {o}, pc[r] \notin {"sources", "functions"}
  PROVE  /\ o \in Object /\ cluster' \in [Object -> Entry] /\ Touches(r)
         /\ \A u \in Unit :
               \/ <<"function", u>> = o
               \/ cluster'[<<"function", u>>] = cluster[<<"function", u>>]
         /\ \A u \in Unit :
               \/ <<"source", u>> = o
               \/ cluster'[<<"source", u>>] = cluster[<<"source", u>>]
         /\ cluster'[o] = Absent
         /\ \A kind \in {"function", "source"} :
               /\ pc[r] \in DeploySteps /\ Written(r, kind) => Written(r, kind)'
               /\ \A keep : Pruned(r, kind, keep) => Pruned(r, kind, keep)'
<1>1. TypeOK /\ TodoInv(r) /\ UnitsInv(r) /\ todo[r] \subseteq Object /\ ReqGroup[r] # None
  BY AtWork
<1>2. o \in Object /\ Belongs(o[2], ReqGroup[r])
  BY <1>1 DEF TodoInv
<1>3. /\ cluster' \in [Object -> Entry] /\ Touches(r)
      /\ cluster'[o] = Absent
      /\ \A p \in Object : p # o => cluster'[p] = cluster[p]
  BY <1>1, <1>2, RemoveEffect
<1>4. \A kind \in {"function", "source"}, u \in Unit :
          <<kind, u>> = o \/ cluster'[<<kind, u>>] = cluster[<<kind, u>>]
  BY <1>3 DEF Object
<1>5. ASSUME NEW kind \in {"function", "source"}, pc[r] \in DeploySteps, Written(r, kind)
      PROVE  Written(r, kind)'
  <2>1. SUFFICES ASSUME NEW u \in UnitsOf(units[r]), <<kind, u>> \notin todo[r] \ {o}
                 PROVE  cluster'[<<kind, u>>] = Wanted(r, u)
    BY DEF Written, Wanted
  <2>2. u \in Unit /\ units[r] # NoUnits
    BY <1>1, OwnUnits DEF TypeOK
  <2>3. o[2] \notin UnitsOf(units[r])
    BY <1>1, <1>5 DEF TodoInv, DeploySteps, Looping
  <2>4. <<kind, u>> # o
    BY <2>3
  <2> QED
    BY <1>4, <1>5, <2>1, <2>2, <2>4 DEF Written
<1>6. ASSUME NEW kind \in {"function", "source"}, NEW keep, Pruned(r, kind, keep)
      PROVE  Pruned(r, kind, keep)'
  <2>1. SUFFICES ASSUME NEW u \in Unit, cluster'[<<kind, u>>].group = ReqGroup[r],
                        <<kind, u>> \notin todo[r] \ {o}
                 PROVE  u \in keep
    BY DEF Pruned
  <2>2. <<kind, u>> # o
    BY <1>1, <1>3, <2>1 DEF Absent
  <2> QED
    BY <1>4, <1>6, <2>1, <2>2 DEF Pruned
<1> QED
  BY <1>2, <1>3, <1>4, <1>5, <1>6

LEMMA DeleteStaleFunctionKeeps ==
  ASSUME held' \subseteq Req, IInv, NEW r \in Req, DeleteStaleFunction(r)
  PROVE  IInv'
<1> DEFINE own == UnitsOf(units[r])
<1>1. PICK o \in todo[r] : Remove(o) /\ (Advance(r, o, "list sources", {}) \/ Fail(r))
  BY DEF DeleteStaleFunction
<1>2. pc[r] = "prune functions" /\ units' = units /\ crashes' = crashes
  BY DEF DeleteStaleFunction
<1>3. /\ TypeOK /\ TodoInv(r) /\ UnitsInv(r)
      /\ r \in undisturbed => StageInv(r)
  BY AtWork
<1>4. o \in Object /\ Belongs(o[2], ReqGroup[r]) /\ o[1] = "function"
  BY <1>2, <1>3 DEF TodoInv
<1>5. /\ cluster' \in [Object -> Entry] /\ Touches(r)
      /\ cluster'[o] = Absent
      /\ \A p \in Object : p # o => cluster'[p] = cluster[p]
  BY <1>1, <1>3, <1>4, RemoveEffect
<1>6. raced' = raced
  BY <1>1 DEF Advance, Fail, Finish, ghosts
<1>7. OwnSources(r)'
  BY <1>4, <1>5, <1>6 DEF OwnSources, IInv, FunctionHasSource, Object
<1>8. CASE Fail(r)
  BY <1>2, <1>5, <1>7, <1>8, FailKeeps DEF Working, DeploySteps
<1>9. CASE Advance(r, o, "list sources", {})
  <2>1. /\ pc' = [pc EXCEPT ![r] = pc'[r]] /\ todo' = [todo EXCEPT ![r] = todo'[r]]
        /\ UNCHANGED <<lock, ghosts, faults>>
        /\ \/ pc'[r] = "prune functions"
           \/ pc'[r] = "list sources" /\ todo'[r] = {}
        /\ todo'[r] = todo[r] \ {o}
    BY <1>2, <1>3, <1>9, AdvanceIs
  <2>2. undisturbed' = undisturbed
    BY <2>1 DEF ghosts
  <2>3. TodoInv(r)' /\ todo'[r] \subseteq Object
    BY <1>2, <1>3, <2>1 DEF TodoInv, Looping
  <2>4. ASSUME r \in undisturbed
        PROVE  StageInv(r)'
    <3>1. Written(r, "source") /\ Written(r, "function") /\ Pruned(r, "function", own)
      BY <1>2, <1>3, <2>4 DEF StageInv, DeploySteps
    <3>2. Written(r, "source")' /\ Written(r, "function")' /\ Pruned(r, "function", own)'
      BY <1>1, <1>2, <2>1, <3>1, RemovalKeeps DEF DeploySteps
    <3> QED
      BY <2>1, <3>2 DEF StageInv, DeploySteps
  <2> QED
    BY <1>2, <1>5, <1>7, <2>1, <2>3, <2>4, MoveKeeps DEF Working, DeploySteps, counters, ghosts
<1> QED
  BY <1>1, <1>8, <1>9

\* After the last prune of a deploy the group is exactly what was asked.
LEMMA AllWrittenAndPruned ==
  ASSUME NEW r \in Req, TypeOK, UnitsInv(r), units[r] # NoUnits,
         \A kind \in {"function", "source"}, u \in UnitsOf(units[r]) :
             cluster[<<kind, u>>] = Wanted(r, u),
         \A kind \in {"function", "source"}, u \in Unit :
             cluster[<<kind, u>>].group = ReqGroup[r] => u \in UnitsOf(units[r])
  PROVE  Exactly(ReqGroup[r], units[r])
BY DEF Exactly, Wanted

LEMMA ListStaleSourcesKeeps ==
  ASSUME held' \subseteq Req, IInv, NEW r \in Req, ListStaleSources(r)
  PROVE  IInv'
<1> DEFINE own == UnitsOf(units[r])
           found == StaleSources(r)
<1>1. /\ TypeOK /\ TodoInv(r) /\ UnitsInv(r) /\ LockInv(r) /\ OwnerInv
      /\ r \in undisturbed => StageInv(r)
      /\ ReqGroup[r] \in Group
  BY AtWork DEF IInv
<1>2. /\ pc[r] = "list sources" /\ units' = units /\ cluster' = cluster
      /\ faults' = faults /\ crashes' = crashes
      /\ LoopOrSucceed(r, found, "prune sources")
  BY DEF ListStaleSources, counters
<1>3. own = DOMAIN units[r] /\ todo[r] = {} /\ units[r] # NoUnits /\ ReqKind[r] = "deploy"
  BY <1>1, <1>2 DEF UnitsOf, UnitsInv, TodoInv, LockInv, DeploySteps, Looping
<1>4. ASSUME NEW o \in found
      PROVE  /\ o \in Object /\ o[1] = "source" /\ Belongs(o[2], ReqGroup[r])
             /\ o[2] \notin own
  <2>1. o \in Listed({"source"}, ReqGroup[r]) /\ o \notin {"source"} \X own
    BY <1>3 DEF StaleSources
  <2>2. o \in Object /\ o[1] \in {"source"} /\ Belongs(o[2], ReqGroup[r])
    BY <1>1, <2>1, ListedIs
  <2> QED
    BY <2>1, <2>2 DEF Object
<1>5. \A u \in Unit : cluster[<<"source", u>>].group = ReqGroup[r] /\ <<"source", u>> \notin found
                          => u \in own
  BY <1>3 DEF StaleSources, Listed
<1>6. r \in undisturbed =>
          Written(r, "source") /\ Written(r, "function") /\ Pruned(r, "function", own)
  BY <1>1, <1>2 DEF StageInv, DeploySteps
<1>7. CASE found # {} /\ Loop(r, found, "prune sources", "prune sources")
  <2>1. pc'[r] = "prune sources" /\ todo'[r] = found /\ undisturbed' = undisturbed
    BY <1>1, <1>7 DEF Loop, TypeOK, ghosts
  <2>2. TodoInv(r)'
    BY <1>2, <1>4, <2>1 DEF TodoInv, Looping
  <2>3. ASSUME r \in undisturbed
        PROVE  StageInv(r)'
    <3>1. Written(r, "source")' /\ Written(r, "function")'
      BY <1>2, <1>3, <1>6, <2>3 DEF Written, Wanted
    <3>2. Pruned(r, "source", own)'
      BY <1>2, <1>5, <2>1 DEF Pruned
    <3>3. Pruned(r, "function", own)'
      BY <1>2, <1>3, <1>4, <1>6, <2>1, <2>3 DEF Pruned
    <3> QED
      BY <1>2, <2>1, <3>1, <3>2, <3>3 DEF StageInv, DeploySteps
  <2>4. found \in SUBSET Object
    BY <1>4
  <2> QED
    BY <1>2, <1>7, <2>2, <2>3, <2>4, ListKeeps DEF counters, Working, DeploySteps
<1>8. CASE found = {} /\ Finish(r, "succeeded")
  <2>1. ASSUME r \in undisturbed
        PROVE  Exactly(ReqGroup[r], units[r])'
    <3>1. \A kind \in {"function", "source"}, u \in own : cluster[<<kind, u>>] = Wanted(r, u)
      BY <1>3, <1>6, <2>1 DEF Written
    <3>2. \A kind \in {"function", "source"}, u \in Unit :
              cluster[<<kind, u>>].group = ReqGroup[r] => u \in own
      BY <1>3, <1>5, <1>6, <1>8, <2>1 DEF Pruned
    <3>3. Exactly(ReqGroup[r], units[r])
      BY <1>1, <1>3, <3>1, <3>2, AllWrittenAndPruned
    <3> QED
      BY <1>2, <3>3 DEF Exactly, UnitsOf
  <2>2. Touches(r) /\ cluster' \in [Object -> Entry]
    BY <1>1, <1>2 DEF Touches, TypeOK
  <2> QED
    BY <1>2, <1>3, <1>8, <2>1, <2>2, SuccessKeeps DEF Working, DeploySteps
<1> QED
  BY <1>2, <1>7, <1>8 DEF LoopOrSucceed

LEMMA AdvanceOrSucceedIs ==
  ASSUME TypeOK, NEW r \in Req, NEW o \in todo[r], AdvanceOrSucceed(r, o)
  PROVE  \/ /\ pc' = [pc EXCEPT ![r] = pc'[r]] /\ todo' = [todo EXCEPT ![r] = todo'[r]]
            /\ UNCHANGED <<lock, ghosts, faults>>
            /\ pc'[r] = pc[r] /\ todo'[r] = todo[r] \ {o}
         \/ /\ todo[r] \ {o} = {}
            /\ Finish(r, "succeeded")
            /\ faults' = faults /\ todo'[r] = todo[r] \ {o}
BY DEF AdvanceOrSucceed, TypeOK, Finish

LEMMA DeleteStaleSourceKeeps ==
  ASSUME held' \subseteq Req, IInv, NEW r \in Req, DeleteStaleSource(r)
  PROVE  IInv'
<1> DEFINE own == UnitsOf(units[r])
<1>1. PICK o \in todo[r] : Remove(o) /\ (AdvanceOrSucceed(r, o) \/ Fail(r))
  BY DEF DeleteStaleSource
<1>2. pc[r] = "prune sources" /\ units' = units /\ crashes' = crashes
  BY DEF DeleteStaleSource
<1>3. /\ TypeOK /\ TodoInv(r) /\ UnitsInv(r) /\ LockInv(r) /\ todo[r] \subseteq Object
      /\ r \in undisturbed => StageInv(r)
      /\ ReqGroup[r] \notin raced => r \in undisturbed
  BY <1>2, AtWork DEF Working, DeploySteps
<1>4. o \in Object /\ Belongs(o[2], ReqGroup[r]) /\ o[1] = "source" /\ o[2] \notin own
  BY <1>2, <1>3 DEF TodoInv
<1>5. units[r] # NoUnits /\ ReqKind[r] = "deploy"
  BY <1>2, <1>3 DEF UnitsInv, LockInv, DeploySteps
<1>6. /\ cluster' \in [Object -> Entry] /\ Touches(r)
      /\ cluster'[o] = Absent
      /\ \A p \in Object : p # o => cluster'[p] = cluster[p]
  BY <1>1, <1>3, <1>4, RemoveEffect
<1>7. ASSUME raced' = raced
      PROVE  OwnSources(r)'
  <2>1. SUFFICES ASSUME ReqGroup[r] \notin raced, NEW u \in Unit,
                        cluster'[<<"function", u>>] # Absent,
                        cluster'[<<"function", u>>].group = ReqGroup[r]
                 PROVE  cluster'[<<"source", u>>] # Absent
    BY <1>7 DEF OwnSources
  <2>2. /\ <<"function", u>> \in Object /\ <<"source", u>> \in Object
        /\ cluster'[<<"function", u>>] = cluster[<<"function", u>>]
    BY <1>4, <1>6 DEF Object
  <2>3. Pruned(r, "function", own) /\ <<"function", u>> \notin todo[r]
    BY <1>2, <1>3, <2>1 DEF StageInv, TodoInv
  <2>4. u \in own
    BY <2>1, <2>2, <2>3 DEF Pruned
  <2>5. <<"source", u>> # o
    BY <1>4, <2>4
  <2> QED
    BY <1>6, <2>1, <2>2, <2>5 DEF IInv, FunctionHasSource
<1>8. CASE Fail(r)
  <2>1. raced' = raced
    BY <1>8 DEF Fail, Finish
  <2> QED
    BY <1>2, <1>6, <1>7, <1>8, <2>1, FailKeeps DEF Working, DeploySteps
<1>9. ASSUME r \in undisturbed, todo'[r] = todo[r] \ {o}
      PROVE  /\ Written(r, "source")' /\ Written(r, "function")'
             /\ Pruned(r, "source", own)' /\ Pruned(r, "function", own)'
  <2>1. /\ Written(r, "source") /\ Written(r, "function")
        /\ Pruned(r, "source", own) /\ Pruned(r, "function", own)
    BY <1>2, <1>3, <1>9 DEF StageInv, DeploySteps
  <2> QED
    BY <1>1, <1>2, <1>9, <2>1, RemovalKeeps DEF DeploySteps
<1>10. CASE /\ pc' = [pc EXCEPT ![r] = pc'[r]] /\ todo' = [todo EXCEPT ![r] = todo'[r]]
            /\ UNCHANGED <<lock, ghosts, faults>>
            /\ pc'[r] = pc[r] /\ todo'[r] = todo[r] \ {o}
  <2>1. undisturbed' = undisturbed /\ OwnSources(r)'
    BY <1>7, <1>10 DEF ghosts
  <2>2. TodoInv(r)' /\ todo'[r] \subseteq Object
    BY <1>2, <1>3, <1>10 DEF TodoInv, Looping
  <2>3. r \in undisturbed => StageInv(r)'
    BY <1>2, <1>9, <1>10 DEF StageInv, DeploySteps
  <2> QED
    BY <1>2, <1>6, <1>10, <2>1, <2>2, <2>3, MoveKeeps DEF Working, DeploySteps, counters, ghosts
<1>11. CASE /\ todo[r] \ {o} = {}
            /\ Finish(r, "succeeded")
            /\ faults' = faults /\ todo'[r] = todo[r] \ {o}
  <2>1. ASSUME r \in undisturbed
        PROVE  Exactly(ReqGroup[r], units[r])'
    <3>1. \A kind \in {"function", "source"}, u \in own : cluster'[<<kind, u>>] = Wanted(r, u)
      BY <1>2, <1>9, <1>11, <2>1 DEF Written, Wanted
    <3>2. \A kind \in {"function", "source"}, u \in Unit :
              cluster'[<<kind, u>>].group = ReqGroup[r] => u \in own
      BY <1>2, <1>9, <1>11, <2>1 DEF Pruned
    <3> QED
      BY <1>2, <1>5, <3>1, <3>2 DEF Exactly, Wanted, UnitsOf
  <2> QED
    BY <1>2, <1>5, <1>6, <1>11, <2>1, SuccessKeeps DEF Working, DeploySteps
<1> QED
  BY <1>1, <1>3, <1>8, <1>10, <1>11, AdvanceOrSucceedIs

-----------------------------------------------------------------------------
(* The steps of a delete at work.                                          *)

LEMMA ListFunctionsKeeps ==
  ASSUME held' \subseteq Req, IInv, NEW r \in Req, ListFunctions(r)
  PROVE  IInv'
<1> DEFINE found == Listed({"function"}, ReqGroup[r])
<1>1. TypeOK /\ TodoInv(r) /\ OwnerInv /\ ReqGroup[r] \in Group
  BY AtWork DEF IInv
<1>2. /\ pc[r] = "delete: list functions" /\ units' = units /\ cluster' = cluster
      /\ Loop(r, found, "delete functions", "delete: list maps")
  BY DEF ListFunctions
<1>3. /\ pc'[r] = IF found = {} THEN "delete: list maps" ELSE "delete functions"
      /\ todo'[r] = found /\ undisturbed' = undisturbed
  BY <1>1, <1>2 DEF Loop, TypeOK, ghosts
<1>4. \A o \in found : o \in Object /\ o[1] = "function" /\ Belongs(o[2], ReqGroup[r])
  BY <1>1, ListedIs
<1>5. TodoInv(r)'
  BY <1>2, <1>3, <1>4 DEF TodoInv, Looping
<1>6. StageInv(r)'
  <2>1. Pruned(r, "function", {})'
    BY <1>2, <1>3 DEF Pruned, Listed
  <2> QED
    BY <1>3, <2>1 DEF StageInv, DeploySteps
<1>7. found \in SUBSET Object
  BY <1>4
<1> QED
  BY <1>2, <1>5, <1>6, <1>7, ListKeeps DEF ListFunctions, Working, DeploySteps, DeleteSteps

LEMMA DeleteFunctionKeeps ==
  ASSUME held' \subseteq Req, IInv, NEW r \in Req, DeleteFunction(r)
  PROVE  IInv'
<1>1. PICK o \in todo[r] : Remove(o) /\ (Advance(r, o, "delete: list maps", {}) \/ Fail(r))
  BY DEF DeleteFunction
<1>2. pc[r] = "delete functions" /\ units' = units /\ crashes' = crashes
  BY DEF DeleteFunction
<1>3. TypeOK /\ TodoInv(r) /\ (r \in undisturbed => StageInv(r)) /\ todo[r] \subseteq Object
  BY AtWork
<1>4. o \in Object /\ Belongs(o[2], ReqGroup[r]) /\ o[1] = "function"
  BY <1>2, <1>3 DEF TodoInv
<1>5. /\ cluster' \in [Object -> Entry] /\ Touches(r)
      /\ cluster'[o] = Absent
      /\ \A p \in Object : p # o => cluster'[p] = cluster[p]
  BY <1>1, <1>3, <1>4, RemoveEffect
<1>6. raced' = raced
  BY <1>1 DEF Advance, Fail, Finish, ghosts
<1>7. OwnSources(r)'
  BY <1>4, <1>5, <1>6 DEF OwnSources, IInv, FunctionHasSource, Object
<1>8. CASE Fail(r)
  BY <1>2, <1>5, <1>7, <1>8, FailKeeps DEF Working, DeleteSteps
<1>9. CASE Advance(r, o, "delete: list maps", {})
  <2>1. /\ pc' = [pc EXCEPT ![r] = pc'[r]] /\ todo' = [todo EXCEPT ![r] = todo'[r]]
        /\ UNCHANGED <<lock, ghosts, faults>>
        /\ \/ pc'[r] = "delete functions"
           \/ pc'[r] = "delete: list maps" /\ todo'[r] = {}
        /\ todo'[r] = todo[r] \ {o}
    BY <1>2, <1>3, <1>9, AdvanceIs
  <2>2. undisturbed' = undisturbed
    BY <2>1 DEF ghosts
  <2>3. TodoInv(r)' /\ todo'[r] \subseteq Object
    BY <1>2, <1>3, <2>1 DEF TodoInv, Looping
  <2>4. ASSUME r \in undisturbed
        PROVE  StageInv(r)'
    <3>1. Pruned(r, "function", {})
      BY <1>2, <1>3, <2>4 DEF StageInv
    <3>2. Pruned(r, "function", {})'
      BY <1>1, <1>2, <2>1, <3>1, RemovalKeeps
    <3> QED
      BY <2>1, <3>2 DEF StageInv, DeploySteps
  <2> QED
    BY <1>2, <1>5, <1>7, <2>1, <2>3, <2>4, MoveKeeps
       DEF Working, DeploySteps, DeleteSteps, counters, ghosts
<1> QED
  BY <1>1, <1>8, <1>9

LEMMA ListConfigMapsKeeps ==
  ASSUME held' \subseteq Req, IInv, NEW r \in Req, ListConfigMaps(r)
  PROVE  IInv'
<1> DEFINE found == Listed({"source", "endpoints"}, ReqGroup[r])
<1>1. /\ TypeOK /\ TodoInv(r) /\ LockInv(r) /\ OwnerInv /\ ReqGroup[r] \in Group
      /\ r \in undisturbed => StageInv(r)
  BY AtWork DEF IInv
<1>2. /\ pc[r] = "delete: list maps" /\ units' = units /\ cluster' = cluster
      /\ faults' = faults /\ crashes' = crashes
      /\ LoopOrSucceed(r, found, "delete maps")
  BY DEF ListConfigMaps, counters
<1>3. todo[r] = {} /\ ReqKind[r] = "delete"
  BY <1>1, <1>2 DEF TodoInv, LockInv, DeploySteps, DeleteSteps, Looping
<1>4. \A o \in found :
          o \in Object /\ o[1] \in {"source", "endpoints"} /\ Belongs(o[2], ReqGroup[r])
  BY <1>1, ListedIs
<1>5. \A u \in Unit : cluster[<<"source", u>>].group = ReqGroup[r] => <<"source", u>> \in found
  BY DEF Listed
<1>6. r \in undisturbed => Pruned(r, "function", {})
  BY <1>1, <1>2 DEF StageInv
<1>7. CASE found # {} /\ Loop(r, found, "delete maps", "delete maps")
  <2>1. pc'[r] = "delete maps" /\ todo'[r] = found /\ undisturbed' = undisturbed
    BY <1>1, <1>7 DEF Loop, TypeOK, ghosts
  <2>2. TodoInv(r)'
    BY <1>2, <1>4, <2>1 DEF TodoInv, Looping
  <2>3. ASSUME r \in undisturbed
        PROVE  StageInv(r)'
    <3>1. Pruned(r, "source", {})'
      BY <1>2, <1>5, <2>1 DEF Pruned
    <3>2. Pruned(r, "function", {})'
      BY <1>2, <1>3, <1>6, <2>3 DEF Pruned
    <3> QED
      BY <2>1, <3>1, <3>2 DEF StageInv, DeploySteps
  <2>4. found \in SUBSET Object
    BY <1>4
  <2> QED
    BY <1>2, <1>7, <2>2, <2>3, <2>4, ListKeeps DEF counters, Working, DeploySteps, DeleteSteps
<1>8. CASE found = {} /\ Finish(r, "succeeded")
  <2>1. ASSUME r \in undisturbed
        PROVE  Exactly(ReqGroup[r], NoUnits)'
    BY <1>2, <1>3, <1>5, <1>6, <1>8, <2>1 DEF Exactly, Pruned
  <2>2. Touches(r) /\ cluster' \in [Object -> Entry]
    BY <1>1, <1>2 DEF Touches, TypeOK
  <2> QED
    BY <1>2, <1>3, <1>8, <2>1, <2>2, SuccessKeeps DEF Working, DeleteSteps
<1> QED
  BY <1>2, <1>7, <1>8 DEF LoopOrSucceed

LEMMA DeleteConfigMapKeeps ==
  ASSUME held' \subseteq Req, IInv, NEW r \in Req, DeleteConfigMap(r)
  PROVE  IInv'
<1>1. PICK o \in todo[r] : Remove(o) /\ (AdvanceOrSucceed(r, o) \/ Fail(r))
  BY DEF DeleteConfigMap
<1>2. pc[r] = "delete maps" /\ units' = units /\ crashes' = crashes
  BY DEF DeleteConfigMap
<1>3. /\ TypeOK /\ TodoInv(r) /\ LockInv(r) /\ todo[r] \subseteq Object
      /\ r \in undisturbed => StageInv(r)
      /\ ReqGroup[r] \notin raced => r \in undisturbed
  BY <1>2, AtWork DEF Working, DeleteSteps
<1>4. o \in Object /\ Belongs(o[2], ReqGroup[r]) /\ o[1] \in {"source", "endpoints"}
  BY <1>2, <1>3 DEF TodoInv
<1>5. ReqKind[r] = "delete"
  BY <1>2, <1>3 DEF LockInv, DeleteSteps
<1>6. /\ cluster' \in [Object -> Entry] /\ Touches(r)
      /\ cluster'[o] = Absent
      /\ \A p \in Object : p # o => cluster'[p] = cluster[p]
  BY <1>1, <1>3, <1>4, RemoveEffect
<1>7. ASSUME r \in undisturbed, NEW u \in Unit
      PROVE  cluster'[<<"function", u>>].group # ReqGroup[r]
  <2>1. Pruned(r, "function", {}) /\ <<"function", u>> \notin todo[r]
    BY <1>2, <1>3, <1>7 DEF StageInv, TodoInv
  <2>2. cluster'[<<"function", u>>] = cluster[<<"function", u>>]
    BY <1>4, <1>6 DEF Object
  <2> QED
    BY <2>1, <2>2 DEF Pruned
<1>8. raced' = raced => OwnSources(r)'
  BY <1>3, <1>7 DEF OwnSources
<1>9. CASE Fail(r)
  <2>1. raced' = raced
    BY <1>9 DEF Fail, Finish
  <2> QED
    BY <1>2, <1>6, <1>8, <1>9, <2>1, FailKeeps DEF Working, DeleteSteps
<1>10. ASSUME r \in undisturbed, todo'[r] = todo[r] \ {o}
       PROVE  Pruned(r, "source", {})' /\ Pruned(r, "function", {})'
  <2>1. Pruned(r, "source", {}) /\ Pruned(r, "function", {})
    BY <1>2, <1>3, <1>10 DEF StageInv
  <2> QED
    BY <1>1, <1>2, <1>10, <2>1, RemovalKeeps
<1>11. CASE /\ pc' = [pc EXCEPT ![r] = pc'[r]] /\ todo' = [todo EXCEPT ![r] = todo'[r]]
            /\ UNCHANGED <<lock, ghosts, faults>>
            /\ pc'[r] = pc[r] /\ todo'[r] = todo[r] \ {o}
  <2>1. OwnSources(r)'
    BY <1>8, <1>11 DEF ghosts
  <2>2. TodoInv(r)' /\ todo'[r] \subseteq Object
    BY <1>2, <1>3, <1>11 DEF TodoInv, Looping
  <2>3. r \in undisturbed => StageInv(r)'
    BY <1>2, <1>10, <1>11 DEF StageInv, DeploySteps
  <2> QED
    BY <1>2, <1>6, <1>11, <2>1, <2>2, <2>3, MoveKeeps
       DEF Working, DeploySteps, DeleteSteps, counters, ghosts
<1>12. CASE /\ todo[r] \ {o} = {}
            /\ Finish(r, "succeeded")
            /\ faults' = faults /\ todo'[r] = todo[r] \ {o}
  <2>1. r \in undisturbed => Exactly(ReqGroup[r], NoUnits)'
    BY <1>10, <1>12 DEF Exactly, Pruned
  <2> QED
    BY <1>2, <1>5, <1>6, <1>12, <2>1, SuccessKeeps DEF Working, DeleteSteps
<1> QED
  BY <1>1, <1>3, <1>9, <1>11, <1>12, AdvanceOrSucceedIs

-----------------------------------------------------------------------------
(* The steps up to the first call.                                         *)

LEMMA DesiredIs ==
  ASSUME NEW r \in Req, NEW answers \in BOOLEAN, NEW f, f = Desired(r, answers), Valid(f)
  PROVE  /\ f \in UnitMaps /\ f # NoUnits /\ f \in {Legacy[r], Planned[r]}
         /\ UnitsOf(f) = DOMAIN f /\ DOMAIN f \subseteq Unit
         /\ Mode[r] = "required" => f = Planned[r]
<1>1. f # NoUnits
  BY DEF Valid
<1>2. f \in {Legacy[r], Planned[r]} /\ (Mode[r] = "required" => f = Planned[r])
  BY <1>1 DEF Desired
<1>3. f \in UnitMaps
  BY <1>1, <1>2, RequestsAssumption
<1> QED
  BY <1>1, <1>2, <1>3, UnitMapsAre

LEMMA PlanKeeps ==
  ASSUME held' \subseteq Req, IInv, NEW r \in Req, Plan(r)
  PROVE  IInv'
<1>1. /\ TypeOK /\ UnitsInv(r)
      /\ pc[r] = "planning" /\ cluster' = cluster /\ faults' = faults /\ crashes' = crashes
      /\ pc[r] \in Working /\ pc[r] \in DeploySteps
  BY AtWork DEF Plan, counters, Working, DeploySteps
<1>2. Touches(r) /\ cluster' \in [Object -> Entry]
  BY <1>1 DEF Touches, TypeOK
<1>3. raced' = raced => OwnSources(r)'
  BY <1>1 DEF OwnSources, IInv, FunctionHasSource
<1>4. PICK answers \in BOOLEAN :
          LET desired == Desired(r, answers) IN
          \/ /\ Valid(desired)
             /\ units' = [units EXCEPT ![r] = desired]
             /\ todo' = [todo EXCEPT ![r] = {"source"} \X DOMAIN desired]
             /\ pc' = [pc EXCEPT ![r] = "sources"]
             /\ UNCHANGED <<lock, ghosts>>
          \/ /\ ~Valid(desired)
             /\ Finish(r, "rejected")
             /\ UNCHANGED units
  BY DEF Plan
<1> DEFINE desired == Desired(r, answers)
<1>5. CASE Finish(r, "rejected") /\ units' = units
  <2>1. RequestInv(r)' /\ WorkStep(r) /\ raced' = raced
    BY <1>1, <1>2, <1>5, FinishEffect DEF RequestInv, StageInv, DeploySteps
  <2>2. TypeOK'
    BY <1>1, <1>2, <1>5, FinishType DEF TypeOK, Finished
  <2> QED
    BY <1>3, <2>1, <2>2, WorkKeeps
<1>6. CASE /\ Valid(desired)
           /\ units' = [units EXCEPT ![r] = desired]
           /\ todo' = [todo EXCEPT ![r] = {"source"} \X DOMAIN desired]
           /\ pc' = [pc EXCEPT ![r] = "sources"]
           /\ UNCHANGED <<lock, ghosts>>
  <2>1. /\ desired \in UnitMaps /\ desired # NoUnits /\ desired \in {Legacy[r], Planned[r]}
        /\ UnitsOf(desired) = DOMAIN desired /\ DOMAIN desired \subseteq Unit
        /\ Mode[r] = "required" => desired = Planned[r]
    BY <1>6, DesiredIs
  <2> HIDE DEF desired
  <2>2. /\ pc'[r] = "sources" /\ units'[r] = desired /\ todo'[r] = {"source"} \X DOMAIN desired
        /\ \A q \in Req \ {r} : units'[q] = units[q]
        /\ units' \in [Req -> UnitMaps \cup {NoUnits}]
    BY <1>1, <1>6, <2>1 DEF TypeOK
  <2>3. units[r] = NoUnits
    BY <1>1 DEF UnitsInv, Waiting
  <2>4. pc'[r] \in Working /\ todo'[r] \subseteq Object /\ pc'[r] \in DeploySteps
    BY <2>1, <2>2 DEF Working, DeploySteps, Object
  <2>5. /\ TypeOK' /\ undisturbed' = undisturbed /\ raced' = raced
        /\ WorkStep(r) /\ LockInv(r)' /\ AloneInv(r)'
    <3>1. pc' = [pc EXCEPT ![r] = pc'[r]] /\ todo' = [todo EXCEPT ![r] = todo'[r]]
      BY <1>6, <2>2
    <3>2. /\ pc' \in [Req -> {"new", "locking"} \cup Working \cup Finished]
          /\ todo' \in [Req -> SUBSET Object]
          /\ lock' \in [Server -> [Group -> Req \cup {None}]]
          /\ undisturbed' = undisturbed /\ undisturbed' \subseteq Req
          /\ raced' = raced /\ raced' \subseteq Group
          /\ WorkStep(r) /\ LockInv(r)' /\ AloneInv(r)'
      BY <1>1, <1>2, <1>6, <2>2, <2>3, <2>4, <3>1, MoveEffect
    <3> QED
      BY <1>1, <1>2, <2>2, <3>2 DEF TypeOK
  <2>6. UnitsInv(r)'
    BY <1>6, <2>1, <2>2 DEF UnitsInv, Valid, Waiting
  <2>7. TodoInv(r)'
    <3>1. ASSUME NEW o \in {"source"} \X DOMAIN desired
          PROVE  o \in Object /\ o[1] = "source" /\ o[2] \in DOMAIN desired
                 /\ Belongs(o[2], ReqGroup[r])
      BY <2>1 DEF Object, Belongs
    <3> QED
      BY <2>1, <2>2, <3>1 DEF TodoInv, Looping
  <2>8. StageInv(r)'
    BY <2>1, <2>2 DEF StageInv, Written, DeploySteps
  <2> QED
    BY <1>3, <2>5, <2>6, <2>7, <2>8, WorkKeeps DEF RequestInv
<1> QED
  BY <1>4, <1>5, <1>6

\* A request that has not begun, and one that is refused, concern nobody.
LEMMA ReceiveKeeps ==
  ASSUME held' \subseteq Req, IInv, NEW r \in Req, Receive(r)
  PROVE  IInv'
<1>1. TypeOK /\ TodoInv(r) /\ UnitsInv(r) /\ AloneInv(r)
  BY AtWork
<1>2. /\ pc[r] = "new" /\ ReqKind[r] = "deploy" /\ units' = units /\ cluster' = cluster
      /\ faults' = faults /\ crashes' = crashes /\ undisturbed' = undisturbed /\ raced' = raced
  BY DEF Receive, counters, ghosts, Finish
<1>3. /\ TypeOK'
      /\ pc'[r] \in {"locking", "rejected"} /\ todo'[r] = {}
      /\ \A q \in Req \ {r} : pc'[q] = pc[q] /\ todo'[q] = todo[q]
      /\ \A s \in Server, g \in Group : lock[s][g] # r => lock'[s][g] = lock[s][g]
  <2>1. CASE pc' = [pc EXCEPT ![r] = "locking"] /\ todo' = todo /\ lock' = lock
    BY <1>1, <1>2, <2>1 DEF TypeOK, TodoInv, Looping
  <2>2. CASE Finish(r, "rejected")
    <3>1. TypeOK'
      BY <1>1, <1>2, <2>2, FinishType DEF TypeOK, Finished
    <3>2. \A s \in Server, g \in Group : lock[s][g] # r => lock'[s][g] = lock[s][g]
      BY <1>1, <2>2, ReleaseKeeps DEF Finish
    <3> QED
      BY <1>1, <2>2, <3>1, <3>2 DEF TypeOK, Finish
  <2> QED
    BY <2>1, <2>2 DEF Receive, ghosts
<1>4. pc[r] \notin Working /\ pc'[r] \notin Working \cup Looping
  BY <1>2, <1>3 DEF Working, DeploySteps, DeleteSteps, Looping
<1>5. ASSUME NEW q \in Req \ {r}
      PROVE  RequestInv(q)'
  <2>1. TodoInv(q) /\ UnitsInv(q) /\ LockInv(q) /\ AloneInv(q) /\ (q \in undisturbed => StageInv(q))
    BY AtWork
  <2>2. pc'[q] = pc[q] /\ todo'[q] = todo[q]
    BY <1>3
  <2>3. TodoInv(q)' /\ UnitsInv(q)'
    BY <1>2, <2>1, <2>2 DEF TodoInv, UnitsInv, Valid
  <2>4. LockInv(q)'
    <3>1. ReqServer[q] \in Server /\ ReqGroup[q] \in Group /\ q # r
      BY RequestsAssumption
    <3> QED
      BY <1>3, <2>1, <2>2, <3>1 DEF LockInv
  <2>5. AloneInv(q)'
    BY <1>2, <1>3, <1>4, <2>1, <2>2 DEF AloneInv
  <2>6. q \in undisturbed => StageInv(q)'
    BY <1>2, <2>1, <2>2 DEF StageInv, Written, Pruned, Exactly, Wanted, UnitsOf
  <2> QED
    BY <1>2, <2>3, <2>4, <2>5, <2>6 DEF RequestInv
<1>6. RequestInv(r)'
  <2>1. TodoInv(r)' /\ StageInv(r)'
    BY <1>3, <1>4 DEF TodoInv, StageInv, Working, DeploySteps, DeleteSteps
  <2>2. UnitsInv(r)'
    BY <1>1, <1>2, <1>3 DEF UnitsInv, Valid, Waiting, DeploySteps
  <2>3. LockInv(r)'
    BY <1>2, <1>3 DEF LockInv, DeploySteps, DeleteSteps
  <2>4. AloneInv(r)'
    BY <1>1, <1>2, <1>3, <1>4 DEF AloneInv
  <2> QED
    BY <2>1, <2>2, <2>3, <2>4 DEF RequestInv
<1>7. OwnerInv' /\ AcceptedOnly' /\ FunctionHasSource'
  BY <1>2 DEF IInv, OwnerInv, AcceptedOnly, FunctionHasSource, UnitsOf, Belongs
<1> QED
  BY <1>3, <1>5, <1>6, <1>7 DEF IInv

\* A request begins to work on its group; unless a rival works on it, nobody does.
LEMMA TakeUpKeeps ==
  ASSUME held' \subseteq Req,
         IInv, NEW r \in Req, NEW step \in {"planning", "delete: list functions"},
         pc[r] \in {"new", "locking"},
         IF step = "planning"
         THEN ReqKind[r] = "deploy" /\ Lockable(r) /\ Acquire(r)
         ELSE ReqKind[r] = "delete" /\ pc[r] = "new" /\ lock' = lock,
         pc' = [pc EXCEPT ![r] = step], TakeUp(r),
         UNCHANGED <<units, todo, cluster, counters>>
  PROVE  IInv'
<1>1. TypeOK /\ TodoInv(r) /\ UnitsInv(r)
  BY AtWork
<1>2. units' = units /\ todo' = todo /\ cluster' = cluster /\ faults' = faults /\ crashes' = crashes
  BY DEF counters
<1>3. /\ step \in Working /\ pc[r] \notin Working
      /\ pc'[r] = step
      /\ \A q \in Req \ {r} : pc'[q] = pc[q]
      /\ pc' \in [Req -> {"new", "locking"} \cup Working \cup Finished]
  BY <1>1 DEF TypeOK, Working, DeploySteps, DeleteSteps
<1>4. ReqServer[r] \in Server /\ ReqGroup[r] \in Group
  BY RequestsAssumption
<1>5. /\ lock' \in [Server -> [Group -> Req \cup {None}]]
      /\ step = "planning" => lock'[ReqServer[r]][ReqGroup[r]] = r
      /\ \A q \in Req \ {r} :
            lock[ReqServer[q]][ReqGroup[q]] = q => lock'[ReqServer[q]][ReqGroup[q]] = q
  <2>1. CASE step = "planning"
    <3>1. lock[ReqServer[r]][ReqGroup[r]] = None
          /\ lock' = [lock EXCEPT ![ReqServer[r]][ReqGroup[r]] = r]
      BY <2>1 DEF Lockable, Acquire
    <3>2. /\ lock' \in [Server -> [Group -> Req \cup {None}]]
          /\ lock'[ReqServer[r]][ReqGroup[r]] = r
          /\ \A s \in Server, g \in Group :
                s # ReqServer[r] \/ g # ReqGroup[r] => lock'[s][g] = lock[s][g]
      BY <1>1, <3>1, LockType
    <3>3. ASSUME NEW q \in Req \ {r}, lock[ReqServer[q]][ReqGroup[q]] = q
          PROVE  lock'[ReqServer[q]][ReqGroup[q]] = q
      <4>1. ReqServer[q] \in Server /\ ReqGroup[q] \in Group /\ q # None
        BY RequestsAssumption
      <4>2. ReqServer[q] # ReqServer[r] \/ ReqGroup[q] # ReqGroup[r]
        BY <3>1, <3>3, <4>1
      <4> QED
        BY <3>2, <3>3, <4>1, <4>2
    <3> QED
      BY <3>2, <3>3
  <2>2. CASE step = "delete: list functions"
    BY <1>1, <2>2 DEF TypeOK
  <2> QED
    BY <2>1, <2>2
<1>6. ASSUME NEW q \in Req \ {r}, ReqGroup[q] = ReqGroup[r], pc[q] \in Working
      PROVE  q \in Rivals(r)
  <2>1. SUFFICES ASSUME ReqKind[q] # "delete", ReqKind[r] # "delete", ReqServer[q] = ReqServer[r]
                 PROVE  FALSE
    BY <1>6 DEF Rivals
  <2>2. LockInv(q)
    BY AtWork
  <2>3. lock[ReqServer[q]][ReqGroup[q]] = q
    BY <1>6, <2>1, <2>2 DEF LockInv, Working
  <2>4. lock[ReqServer[r]][ReqGroup[r]] = None
    BY <2>1 DEF Lockable
  <2> QED
    BY <1>6, <2>1, <2>3, <2>4, RequestsAssumption
<1>7. /\ undisturbed' \subseteq Req /\ raced' \subseteq Group /\ raced \subseteq raced'
      /\ \A q \in Req \ {r} :
            q \in undisturbed' <=> q \in undisturbed /\ ReqGroup[q] # ReqGroup[r]
      /\ r \in undisturbed' <=> Rivals(r) = {}
      /\ Rivals(r) # {} => ReqGroup[r] \in raced'
      /\ \A g \in raced' : g \in raced \/ g = ReqGroup[r]
  BY <1>1, <1>4 DEF TakeUp, TypeOK
<1>8. ASSUME NEW q \in Req \ {r}
      PROVE  RequestInv(q)'
  <2>1. TodoInv(q) /\ UnitsInv(q) /\ LockInv(q) /\ AloneInv(q) /\ (q \in undisturbed => StageInv(q))
    BY AtWork
  <2>2. pc'[q] = pc[q]
    BY <1>3
  <2>3. TodoInv(q)' /\ UnitsInv(q)'
    BY <1>2, <2>1, <2>2 DEF TodoInv, UnitsInv, Valid
  <2>4. LockInv(q)'
    BY <1>5, <2>1, <2>2 DEF LockInv
  <2>5. AloneInv(q)'
    <3>1. ASSUME q \in undisturbed', NEW p \in Req \ {q}, ReqGroup[p] = ReqGroup[q]
          PROVE  pc'[p] \notin Working
      BY <1>3, <1>7, <2>1, <3>1 DEF AloneInv
    <3>2. ASSUME pc'[q] \in Working, ReqGroup[q] \notin raced'
          PROVE  q \in undisturbed'
      <4>1. ReqGroup[q] # ReqGroup[r]
        BY <1>6, <1>7, <2>2, <3>2
      <4> QED
        BY <1>7, <2>1, <2>2, <3>2, <4>1 DEF AloneInv
    <3> QED
      BY <3>1, <3>2 DEF AloneInv
  <2>6. q \in undisturbed' => StageInv(q)'
    BY <1>2, <1>7, <2>1, <2>2 DEF StageInv, Written, Pruned, Exactly, Wanted, UnitsOf
  <2> QED
    BY <2>3, <2>4, <2>5, <2>6 DEF RequestInv
<1>9. RequestInv(r)'
  <2>1. TodoInv(r)' /\ StageInv(r)'
    BY <1>1, <1>2, <1>3 DEF TodoInv, StageInv, Looping, DeploySteps, DeleteSteps
  <2>2. UnitsInv(r)'
    BY <1>1, <1>2, <1>3 DEF UnitsInv, Valid, Waiting, DeploySteps, DeleteSteps
  <2>3. LockInv(r)'
    BY <1>3, <1>5 DEF LockInv, DeploySteps, DeleteSteps
  <2>4. AloneInv(r)'
    BY <1>3, <1>6, <1>7 DEF AloneInv
  <2> QED
    BY <2>1, <2>2, <2>3, <2>4 DEF RequestInv
<1>10. OwnerInv' /\ AcceptedOnly' /\ FunctionHasSource'
  <2>1. OwnerInv'
    BY <1>2 DEF IInv, OwnerInv, Belongs
  <2>2. AcceptedOnly'
    BY <1>2, AcceptedStays DEF IInv
  <2>3. FunctionHasSource'
    BY <1>2, <1>7 DEF IInv, FunctionHasSource
  <2> QED
    BY <2>1, <2>2, <2>3
<1>11. TypeOK'
  BY <1>1, <1>2, <1>3, <1>5, <1>7 DEF TypeOK
<1> QED
  BY <1>8, <1>9, <1>10, <1>11 DEF IInv

LEMMA LockDeploymentKeeps ==
  ASSUME held' \subseteq Req, IInv, NEW r \in Req, LockDeployment(r)
  PROVE  IInv'
<1>1. pc[r] = "locking" /\ ReqKind[r] = "deploy"
  BY AtWork DEF LockDeployment, LockInv
<1> QED
  BY <1>1, TakeUpKeeps DEF LockDeployment

LEMMA BeginDeleteKeeps ==
  ASSUME held' \subseteq Req, IInv, NEW r \in Req, BeginDelete(r)
  PROVE  IInv'
<1>1. lock' = lock /\ UNCHANGED <<units, todo, cluster, counters>>
  BY DEF BeginDelete
<1> QED
  BY <1>1, TakeUpKeeps DEF BeginDelete

-----------------------------------------------------------------------------
(* Crashes and the rest of the cluster.                                    *)

LEMMA CrashKeeps ==
  ASSUME held' \subseteq Req, IInv, NEW s \in Server, Crash(s)
  PROVE  IInv'
<1> DEFINE lost == {r \in Req : ReqServer[r] = s /\ pc[r] \in Working \cup {"locking"}}
<1>1. TypeOK
  BY DEF IInv
<1>2. /\ units' = units /\ cluster' = cluster /\ undisturbed' = undisturbed /\ raced' = raced
      /\ faults' = faults /\ crashes' \in 0 .. MaxCrashes
  BY <1>1, BoundsAssumption DEF Crash, TypeOK, ghosts
<1>3. /\ \A q \in lost : pc'[q] = "lost" /\ todo'[q] = {}
      /\ \A q \in Req \ lost : pc'[q] = pc[q] /\ todo'[q] = todo[q]
      /\ pc' = [q \in Req |-> IF q \in lost THEN "lost" ELSE pc[q]]
      /\ todo' = [q \in Req |-> IF q \in lost THEN {} ELSE todo[q]]
  BY DEF Crash
<1>4. /\ lock' \in [Server -> [Group -> Req \cup {None}]]
      /\ \A t \in Server \ {s} : lock'[t] = lock[t]
  BY <1>1 DEF Crash, TypeOK
<1>5. TypeOK'
  <2>1. pc' \in [Req -> {"new", "locking"} \cup Working \cup Finished]
    BY <1>1, <1>3 DEF TypeOK, Finished
  <2>2. todo' \in [Req -> SUBSET Object]
    BY <1>1, <1>3 DEF TypeOK
  <2> QED
    BY <1>1, <1>2, <1>4, <2>1, <2>2 DEF TypeOK
<1>6. \A q \in Req : pc'[q] \in Working => pc[q] \in Working /\ q \notin lost
  BY <1>3 DEF Working, DeploySteps, DeleteSteps
<1>7. ASSUME NEW q \in Req
      PROVE  RequestInv(q)'
  <2>1. TodoInv(q) /\ UnitsInv(q) /\ LockInv(q) /\ AloneInv(q) /\ (q \in undisturbed => StageInv(q))
    BY AtWork
  <2>2. AloneInv(q)'
    BY <1>2, <1>3, <1>6, <2>1 DEF AloneInv
  <2>3. CASE q \in lost
    <3>1. pc'[q] = "lost" /\ todo'[q] = {}
      BY <1>3, <2>3
    <3>2. TodoInv(q)' /\ LockInv(q)' /\ StageInv(q)'
      BY <3>1 DEF TodoInv, LockInv, StageInv, DeploySteps, DeleteSteps
    <3>3. UnitsInv(q)'
      BY <1>2, <2>1, <3>1 DEF UnitsInv, Valid, Waiting, DeploySteps
    <3> QED
      BY <2>2, <3>2, <3>3 DEF RequestInv
  <2>4. CASE q \notin lost
    <3>1. pc'[q] = pc[q] /\ todo'[q] = todo[q]
      BY <1>3, <2>4
    <3>2. TodoInv(q)' /\ UnitsInv(q)'
      BY <1>2, <2>1, <3>1 DEF TodoInv, UnitsInv, Valid
    <3>3. LockInv(q)'
      <4>1. pc[q] \in DeploySteps => ReqServer[q] \in Server \ {s}
        BY <2>4, RequestsAssumption DEF Working
      <4> QED
        BY <1>4, <2>1, <3>1, <4>1 DEF LockInv
    <3>4. q \in undisturbed => StageInv(q)'
      BY <1>2, <2>1, <3>1 DEF StageInv, Written, Pruned, Exactly, Wanted, UnitsOf
    <3> QED
      BY <1>2, <2>2, <3>2, <3>3, <3>4 DEF RequestInv
  <2> QED
    BY <2>3, <2>4
<1>8. OwnerInv' /\ AcceptedOnly' /\ FunctionHasSource'
  BY <1>2 DEF IInv, OwnerInv, AcceptedOnly, FunctionHasSource, UnitsOf, Belongs
<1> QED
  BY <1>5, <1>7, <1>8 DEF IInv

\* What happens to endpoints maps alone is no concern of any request.
LEMMA QuietKeeps ==
  ASSUME held' \subseteq Req, IInv, UNCHANGED <<pc, units, todo, lock, ghosts, counters>>,
         cluster' \in [Object -> Entry], OwnerInv',
         \A kind \in {"function", "source"}, u \in Unit :
            cluster'[<<kind, u>>] = cluster[<<kind, u>>]
  PROVE  IInv'
<1>1. /\ pc' = pc /\ units' = units /\ todo' = todo /\ lock' = lock
      /\ undisturbed' = undisturbed /\ raced' = raced
      /\ faults' = faults /\ crashes' = crashes
  BY DEF ghosts, counters
<1>2. AcceptedOnly'
  BY <1>1, AcceptedStays DEF IInv
<1>3. FunctionHasSource'
  BY <1>1 DEF IInv, FunctionHasSource
<1>4. ASSUME NEW q \in Req
      PROVE  RequestInv(q)'
  <2>1. TodoInv(q) /\ UnitsInv(q) /\ LockInv(q) /\ AloneInv(q) /\ (q \in undisturbed => StageInv(q))
        /\ TypeOK
    BY AtWork
  <2>2. TodoInv(q)' /\ UnitsInv(q)' /\ LockInv(q)' /\ AloneInv(q)'
    BY <1>1, <2>1 DEF TodoInv, UnitsInv, Valid, LockInv, AloneInv
  <2>3. \A v \in UnitsOf(units[q]) : v \in Unit
    BY <2>1, OwnUnits DEF TypeOK
  <2>4. q \in undisturbed => StageInv(q)'
    <3>1. \A kind \in {"function", "source"} : Written(q, kind) => Written(q, kind)'
      BY <1>1, <2>3 DEF Written, Wanted
    <3>2. \A kind \in {"function", "source"} : \A keep :
              Pruned(q, kind, keep) => Pruned(q, kind, keep)'
      BY <1>1 DEF Pruned
    <3>3. ASSUME NEW f \in {units[q], NoUnits}, Exactly(ReqGroup[q], f)
          PROVE  Exactly(ReqGroup[q], f)'
      BY <3>3 DEF Exactly, UnitsOf
    <3>4. pc'[q] = pc[q] /\ units'[q] = units[q]
      BY <1>1
    <3> QED
      BY <2>1, <3>1, <3>2, <3>3, <3>4 DEF StageInv
  <2> QED
    BY <1>1, <2>2, <2>4 DEF RequestInv
<1>5. TypeOK'
  BY <1>1 DEF IInv, TypeOK
<1> QED
  BY <1>2, <1>3, <1>4, <1>5 DEF IInv

\* Neither does a request that is held, or nothing at all.
LEMMA ClusterStays ==
  ASSUME held' \subseteq Req, IInv,
         UNCHANGED <<pc, units, todo, lock, cluster, ghosts, counters>>
  PROVE  IInv'
<1>1. cluster' \in [Object -> Entry] /\ OwnerInv'
  BY DEF IInv, TypeOK, OwnerInv, Belongs
<1> QED
  BY <1>1, QuietKeeps

LEMMA EndpointsKeep ==
  ASSUME held' \subseteq Req,
         IInv, UNCHANGED <<pc, units, todo, lock, ghosts, counters>>, NEW u \in Unit,
         NEW entry \in Entry, Put(<<"endpoints", u>>, entry),
         entry # Absent => Belongs(u, entry.group)
  PROVE  IInv'
<1> DEFINE o0 == <<"endpoints", u>>
<1>1. o0 \in Object /\ o0[2] = u
  BY DEF Object
<1>2. /\ cluster' \in [Object -> Entry] /\ cluster'[o0] = entry
      /\ \A o \in Object : o # o0 => cluster'[o] = cluster[o]
  BY <1>1 DEF IInv, TypeOK, Put
<1>3. \A kind \in {"function", "source"}, v \in Unit : cluster'[<<kind, v>>] = cluster[<<kind, v>>]
  BY <1>2 DEF Object
<1>4. OwnerInv'
  <2>1. ASSUME NEW o \in Object, cluster'[o] # Absent
        PROVE  Belongs(o[2], cluster'[o].group)
    BY <1>1, <1>2, <2>1 DEF IInv, OwnerInv
  <2> QED
    BY <2>1 DEF OwnerInv, Belongs
<1> QED
  BY <1>2, <1>3, <1>4, QuietKeeps

LEMMA PublishEndpointsKeeps ==
  ASSUME held' \subseteq Req, IInv, NEW u \in Unit, PublishEndpoints(u)
  PROVE  IInv'
<1> DEFINE group == cluster[<<"function", u>>].group
           entry == [group |-> group, content |-> None]
<1>1. <<"function", u>> \in Object /\ <<"function", u>>[2] = u
  BY DEF Object
<1>2. Belongs(u, group)
  BY <1>1 DEF IInv, OwnerInv, PublishEndpoints
<1>3. entry \in Entry
  BY <1>2, BelongsOnce DEF Entry
<1> QED
  BY <1>2, <1>3, EndpointsKeep DEF PublishEndpoints

LEMMA CollectEndpointsKeeps ==
  ASSUME held' \subseteq Req, IInv, NEW u \in Unit, CollectEndpoints(u)
  PROVE  IInv'
<1>1. Absent \in Entry
  BY DEF Absent, Entry
<1> QED
  BY <1>1, EndpointsKeep DEF CollectEndpoints, Remove, Put

-----------------------------------------------------------------------------
(* The theorems.                                                           *)

LEMMA InitEstablishes == Init => IInv
<1> SUFFICES ASSUME Init  PROVE IInv
  OBVIOUS
<1>1. /\ \A r \in Req : pc[r] \in {"new", "absent"} /\ units[r] = NoUnits /\ todo[r] = {}
      /\ undisturbed = {} /\ raced = {}
      /\ \A o \in Object : cluster[o] = Absent
  BY DEF Init
<1>2. TypeOK
  <2>1. pc \in [Req -> {"new", "locking"} \cup Working \cup Finished]
    BY DEF Init, Finished
  <2>2. cluster \in [Object -> Entry]
    BY DEF Init, Absent, Entry
  <2> QED
    BY <2>1, <2>2, BoundsAssumption DEF Init, TypeOK
<1>3. OwnerInv
  BY <1>1 DEF OwnerInv
<1>4. AcceptedOnly /\ FunctionHasSource
  BY <1>1 DEF AcceptedOnly, FunctionHasSource, Object
<1>5. ASSUME NEW r \in Req
      PROVE  RequestInv(r)
  <2>1. pc[r] \notin Working /\ pc[r] # "locking" /\ pc[r] \in Waiting
    BY <1>1 DEF Working, DeploySteps, DeleteSteps, Waiting
  <2>2. TodoInv(r) /\ LockInv(r) /\ AloneInv(r)
    BY <1>1, <2>1 DEF TodoInv, LockInv, AloneInv, Working
  <2>3. UnitsInv(r)
    BY <1>1, <2>1 DEF UnitsInv, Waiting, Working
  <2> QED
    BY <1>1, <2>2, <2>3 DEF RequestInv
<1> QED
  BY <1>2, <1>3, <1>4, <1>5 DEF IInv

LEMMA NextPreserves == IInv /\ [Next]_vars => IInv'
<1> SUFFICES ASSUME IInv, [Next]_vars  PROVE IInv'
  OBVIOUS
<1>1. CASE Next
  <2>1. ASSUME NEW r \in Req, Handle(r)
        PROVE  IInv'
    <3>1. held' \subseteq Req
      BY <2>1 DEF Handle, IInv, TypeOK
    <3>2. CASE Deploying(r)
      BY <3>1, <3>2, ReceiveKeeps, LockDeploymentKeeps, PlanKeeps, UpsertSourceKeeps,
         UpsertFunctionKeeps, ListStaleFunctionsKeeps, DeleteStaleFunctionKeeps,
         ListStaleSourcesKeeps, DeleteStaleSourceKeeps DEF Deploying
    <3>3. CASE Deleting(r)
      BY <3>1, <3>3, BeginDeleteKeeps, ListFunctionsKeeps, DeleteFunctionKeeps,
         ListConfigMapsKeeps, DeleteConfigMapKeeps DEF Deleting
    <3>4. CASE CallFails(r)
      BY <3>1, <3>4, CallFailsKeeps
    <3> QED
      BY <2>1, <3>2, <3>3, <3>4 DEF Handle
  <2>2. ASSUME NEW r \in Req, Hold(r)
        PROVE  IInv'
    <3>1. held' \subseteq Req
      BY <2>2 DEF Hold, IInv, TypeOK
    <3> QED
      BY <2>2, <3>1, ClusterStays DEF Hold
  <2>3. ASSUME NEW s \in Server, Crash(s)
        PROVE  IInv'
    <3>1. held' \subseteq Req
      BY <2>3 DEF Crash, IInv, TypeOK
    <3> QED
      BY <2>3, <3>1, CrashKeeps
  <2>4. ASSUME NEW u \in Unit, PublishEndpoints(u) \/ CollectEndpoints(u)
        PROVE  IInv'
    <3>1. held' \subseteq Req
      BY <2>4 DEF PublishEndpoints, CollectEndpoints, IInv, TypeOK
    <3> QED
      BY <2>4, <3>1, PublishEndpointsKeeps, CollectEndpointsKeeps
  <2> QED
    BY <1>1, <2>1, <2>2, <2>3, <2>4 DEF Next
<1>2. CASE UNCHANGED vars
  <2>1. UNCHANGED <<pc, units, todo, lock, ghosts, counters>> /\ cluster' = cluster
    BY <1>2 DEF vars, ghosts, counters
  <2>2. held' \subseteq Req
    BY <1>2 DEF vars, IInv, TypeOK
  <2> QED
    BY <2>1, <2>2, ClusterStays
<1> QED
  BY <1>1, <1>2

\* The inductive invariant holds in every reachable state.
THEOREM InductiveInvariant == Spec => []IInv
<1>1. Init => IInv
  BY InitEstablishes
<1>2. IInv /\ [Next]_vars => IInv'
  BY NextPreserves
<1> QED
  BY <1>1, <1>2, PTL DEF Spec

\* The types of all variables (Deploy.TypeOK).
THEOREM TypeCorrect == Spec => []TypeOK
<1>1. IInv => TypeOK
  BY DEF IInv
<1> QED
  BY <1>1, InductiveInvariant, PTL

\* Whatever fails and crashes, no Function of a group without rivals lacks its source:
\* sources are written first and pruned last (Deploy.FunctionHasSource).
THEOREM FunctionHasSourceCorrect == Spec => []FunctionHasSource
<1>1. IInv => FunctionHasSource
  BY DEF IInv
<1> QED
  BY <1>1, InductiveInvariant, PTL

\* All that is in the cluster some request asked for, within the limit and with the
\* planning it required (Deploy.AcceptedOnly).
THEOREM AcceptedOnlyCorrect == Spec => []AcceptedOnly
<1>1. IInv => AcceptedOnly
  BY DEF IInv
<1> QED
  BY <1>1, InductiveInvariant, PTL

\* A success without rivals leaves exactly what was asked (Deploy.SuccessIsExact).
THEOREM SuccessIsExactCorrect == Spec => []SuccessIsExact
<1>1. IInv => SuccessIsExact
  <2>1. ASSUME IInv, NEW r \in undisturbed, pc[r] = "succeeded"
        PROVE  Exactly(ReqGroup[r], IF ReqKind[r] = "deploy" THEN units[r] ELSE NoUnits)
    <3>1. r \in Req
      BY <2>1 DEF IInv, TypeOK
    <3>2. StageInv(r)
      BY <2>1, <3>1, AtWork
    <3> QED
      BY <2>1, <3>2 DEF StageInv
  <2> QED
    BY <2>1 DEF SuccessIsExact
<1> QED
  BY <1>1, InductiveInvariant, PTL

\* Deploys of one id on one server never work at once: from planning to the last prune
\* each holds the mutex of lockDeployment (deploy_plan.go:73-74).
OneDeployAtATime ==
    \A q, r \in Req :
        /\ pc[q] \in DeploySteps /\ pc[r] \in DeploySteps
        /\ ReqGroup[q] = ReqGroup[r] /\ ReqServer[q] = ReqServer[r]
        => q = r

\* The lock excludes, through every failure path and crash (OneDeployAtATime).
THEOREM LockExcludes == Spec => []OneDeployAtATime
<1>1. IInv => OneDeployAtATime
  <2>1. ASSUME IInv, NEW q \in Req, NEW r \in Req,
               pc[q] \in DeploySteps, pc[r] \in DeploySteps,
               ReqGroup[q] = ReqGroup[r], ReqServer[q] = ReqServer[r]
        PROVE  q = r
    <3>1. LockInv(q) /\ LockInv(r)
      BY <2>1, AtWork
    <3> QED
      BY <2>1, <3>1 DEF LockInv
  <2> QED
    BY <2>1 DEF OneDeployAtATime
<1> QED
  BY <1>1, InductiveInvariant, PTL

\* Who changes an object: a request that has it on its list, or the operator.
LEMMA ChangedBy ==
  ASSUME IInv, [Next]_vars, NEW o \in Object, cluster'[o] # cluster[o]
  PROVE  \/ \E r \in Req :
               /\ o \in todo[r]
               /\ \/ /\ pc[r] \in {"sources", "functions"}
                     /\ Put(o, [group |-> ReqGroup[r], content |-> units[r][o[2]]])
                  \/ /\ pc[r] \in Looping \ {"sources", "functions"}
                     /\ Remove(o)
         \/ /\ o = <<"endpoints", o[2]>> /\ o[2] \in Unit
            /\ PublishEndpoints(o[2]) \/ CollectEndpoints(o[2])
<1>1. TypeOK /\ \A r \in Req : todo[r] \subseteq Object
  BY DEF IInv, TypeOK
<1>2. ASSUME NEW r \in Req, UpsertSourceConfigMap(r) \/ UpsertFunction(r)
      PROVE  /\ o \in todo[r] /\ pc[r] \in {"sources", "functions"}
             /\ Put(o, [group |-> ReqGroup[r], content |-> units[r][o[2]]])
  <2>1. PICK p \in todo[r] : Put(p, [group |-> ReqGroup[r], content |-> units[r][p[2]]])
    BY <1>2 DEF UpsertSourceConfigMap, UpsertFunction
  <2>2. o = p
    BY <1>1, <2>1 DEF Put, TypeOK
  <2> QED
    BY <1>2, <2>1, <2>2 DEF UpsertSourceConfigMap, UpsertFunction
<1>3. ASSUME NEW r \in Req,
             \/ DeleteStaleFunction(r) \/ DeleteStaleSource(r)
             \/ DeleteFunction(r) \/ DeleteConfigMap(r)
      PROVE  o \in todo[r] /\ pc[r] \in Looping \ {"sources", "functions"} /\ Remove(o)
  <2>1. PICK p \in todo[r] : Remove(p)
    BY <1>3 DEF DeleteStaleFunction, DeleteStaleSource, DeleteFunction, DeleteConfigMap
  <2>2. o = p
    BY <1>1, <2>1 DEF Remove, TypeOK
  <2> QED
    BY <1>3, <2>1, <2>2
       DEF DeleteStaleFunction, DeleteStaleSource, DeleteFunction, DeleteConfigMap, Looping
<1>4. ASSUME NEW u \in Unit, PublishEndpoints(u) \/ CollectEndpoints(u)
      PROVE  /\ o = <<"endpoints", o[2]>> /\ o[2] \in Unit
             /\ PublishEndpoints(o[2]) \/ CollectEndpoints(o[2])
  <2>1. o = <<"endpoints", u>>
    BY <1>1, <1>4 DEF PublishEndpoints, CollectEndpoints, Put, Remove, TypeOK
  <2> QED
    BY <1>4, <2>1
<1>5. ASSUME cluster' = cluster
      PROVE  FALSE
  BY <1>5
<1>6. CASE UNCHANGED vars
  BY <1>5, <1>6 DEF vars
<1>7. CASE \E s \in Server : Crash(s)
  BY <1>5, <1>7 DEF Crash
<1>8. CASE \E r \in Req : Hold(r)
  BY <1>5, <1>8 DEF Hold
<1>9. CASE \E r \in Req : Handle(r)
  <2>1. PICK r \in Req : Handle(r)
    BY <1>9
  <2>2. ~(\/ Receive(r) \/ LockDeployment(r) \/ Plan(r) \/ ListStaleFunctions(r)
          \/ ListStaleSources(r) \/ BeginDelete(r) \/ ListFunctions(r)
          \/ ListConfigMaps(r) \/ CallFails(r))
    BY <1>5 DEF Receive, LockDeployment, Plan, ListStaleFunctions, ListStaleSources,
       BeginDelete, ListFunctions, ListConfigMaps, CallFails
  <2> QED
    BY <1>2, <1>3, <2>1, <2>2 DEF Handle, Deploying, Deleting
<1> QED
  BY <1>4, <1>6, <1>7, <1>8, <1>9 DEF Next

\* An upgrade never takes a group down (Deploy.OnlyDeleteEmpties): while a deploy prunes,
\* the Functions it wants are all there.
THEOREM OnlyDeleteEmptiesCorrect == Spec => OnlyDeleteEmpties
<1>1. ASSUME IInv, [Next]_vars, NEW g \in Group \ raced, HasFunctions(g), ~HasFunctions(g)'
      PROVE  \E r \in Req : ReqGroup[r] = g /\ pc[r] = "delete functions"
  <2>1. PICK u \in Unit : cluster[<<"function", u>>].group = g
    BY <1>1 DEF HasFunctions, Listed
  <2>2. \A v \in Unit : cluster'[<<"function", v>>].group # g
    BY <1>1 DEF HasFunctions, Listed
  <2> DEFINE o == <<"function", u>>
  <2>3. o \in Object /\ o[2] = u /\ o[1] = "function" /\ cluster'[o] # cluster[o]
    BY <2>1, <2>2 DEF Object
  <2>4. Belongs(u, g)
    BY <1>1, <2>1, <2>3, RequestsAssumption DEF IInv, OwnerInv, Absent
  <2> HIDE DEF o
  <2>5. PICK r \in Req :
            /\ o \in todo[r]
            /\ \/ /\ pc[r] \in {"sources", "functions"}
                  /\ Put(o, [group |-> ReqGroup[r], content |-> units[r][u]])
               \/ /\ pc[r] \in Looping \ {"sources", "functions"}
                  /\ Remove(o)
    BY <1>1, <2>3, ChangedBy
  <2>6. TypeOK /\ TodoInv(r) /\ UnitsInv(r) /\ AloneInv(r) /\ (r \in undisturbed => StageInv(r))
    BY <1>1, AtWork
  <2>7. ReqGroup[r] = g
    BY <2>3, <2>4, <2>5, <2>6, BelongsOnce DEF TodoInv
  <2>8. CASE Put(o, [group |-> ReqGroup[r], content |-> units[r][u]])
    <3>1. cluster'[o] = [group |-> g, content |-> units[r][u]]
      BY <2>3, <2>6, <2>7, <2>8 DEF Put, TypeOK
    <3>2. cluster'[o].group = g
      BY <3>1
    <3>3. cluster'[<<"function", u>>].group # g
      BY <2>2
    <3> QED
      BY <3>2, <3>3 DEF o
  <2>9. CASE Remove(o) /\ pc[r] \in Looping \ {"sources", "functions"}
    <3>1. pc[r] \in {"prune functions", "delete functions"}
      BY <2>3, <2>5, <2>6, <2>9 DEF TodoInv, Looping
    <3>2. SUFFICES ASSUME ~(pc[r] = "delete functions")  PROVE FALSE
      BY <2>7
    <3>3. r \in undisturbed
      BY <1>1, <2>6, <2>7, <3>1, <3>2 DEF AloneInv, Working, DeploySteps
    <3>4. Written(r, "function") /\ units[r] # NoUnits
      BY <2>6, <3>1, <3>2, <3>3 DEF StageInv, UnitsInv, DeploySteps
    <3>5. PICK v \in UnitsOf(units[r]) : TRUE
      BY <2>6, <3>4, UnitMapsAre DEF TypeOK
    <3>6. v \in Unit
      BY <2>6, OwnUnits DEF TypeOK
    <3>7. <<"function", v>> \notin todo[r]
      BY <2>6, <3>1, <3>2 DEF TodoInv
    <3>8. cluster[<<"function", v>>] = Wanted(r, v)
      BY <3>4, <3>7 DEF Written
    <3>9. <<"function", v>> \in Object /\ <<"function", v>> # o
      BY <2>5, <3>6, <3>7 DEF Object
    <3>10. cluster'[<<"function", v>>] = cluster[<<"function", v>>]
      BY <2>3, <2>6, <2>9, <3>9 DEF Remove, TypeOK
    <3> QED
      BY <2>2, <2>7, <3>6, <3>8, <3>10 DEF Wanted
  <2> QED
    BY <2>5, <2>8, <2>9
<1>2. IInv /\ [Next]_vars =>
          [\A g \in Group \ raced :
              HasFunctions(g) /\ ~HasFunctions(g)' =>
                  \E r \in Req : /\ ReqGroup[r] = g
                                 /\ pc[r] = "delete functions"]_vars
  BY <1>1
<1> QED
  BY <1>2, InductiveInvariant, PTL DEF Spec, OnlyDeleteEmpties

\* The endpoints map of a Function is not taken away while the Function exists
\* (Deploy.EndpointsOutliveFunction): prunes list sources only, and a delete lists the
\* maps when its Functions are gone.
THEOREM EndpointsOutliveFunctionCorrect == Spec => EndpointsOutliveFunction
<1>1. ASSUME IInv, [Next]_vars, NEW u \in Unit,
             cluster[<<"endpoints", u>>] # Absent, cluster'[<<"endpoints", u>>] = Absent,
             cluster[<<"endpoints", u>>].group \notin raced
      PROVE  cluster[<<"function", u>>] = Absent
  <2> DEFINE o == <<"endpoints", u>>
             fn == <<"function", u>>
             g == cluster[o].group
  <2>1. /\ o \in Object /\ o[2] = u /\ o[1] = "endpoints" /\ cluster'[o] # cluster[o]
        /\ fn \in Object /\ fn[2] = u
    BY <1>1 DEF Object
  <2>2. Belongs(u, g) /\ OwnerInv
    BY <1>1, <2>1 DEF IInv, OwnerInv
  <2>3. cluster[fn] # Absent => cluster[fn].group = g /\ g # None
    BY <2>1, <2>2, BelongsOnce DEF OwnerInv
  <2> HIDE DEF o, fn, g
  <2>4. CASE PublishEndpoints(u)
    <3>1. cluster'[o] = [group |-> cluster[fn].group, content |-> None]
      BY <1>1, <2>1, <2>4 DEF PublishEndpoints, Put, IInv, TypeOK, o, fn
    <3>2. cluster'[o] = Absent
      BY <1>1 DEF o
    <3>3. cluster[fn].group = None
      BY <3>1, <3>2 DEF Absent
    <3> QED
      BY <2>3, <3>3 DEF fn
  <2>5. CASE CollectEndpoints(u)
    BY <2>5 DEF CollectEndpoints
  <2>6. ASSUME NEW r \in Req, o \in todo[r], pc[r] \in Looping
        PROVE  cluster[fn] = Absent
    <3>1. TodoInv(r) /\ AloneInv(r) /\ (r \in undisturbed => StageInv(r))
      BY <1>1, AtWork
    <3>2. pc[r] = "delete maps"
      BY <2>1, <2>6, <3>1 DEF TodoInv, Looping
    <3>3. ReqGroup[r] = g
      BY <2>1, <2>2, <2>6, <3>1, BelongsOnce DEF TodoInv
    <3>4. r \in undisturbed
      BY <1>1, <3>1, <3>2, <3>3 DEF AloneInv, Working, DeleteSteps, g, o
    <3>5. Pruned(r, "function", {}) /\ fn \notin todo[r]
      BY <3>1, <3>2, <3>4 DEF StageInv, TodoInv, fn
    <3> QED
      BY <2>3, <3>3, <3>5 DEF Pruned, fn
  <2>7. \/ \E r \in Req : o \in todo[r] /\ pc[r] \in Looping
        \/ PublishEndpoints(u) \/ CollectEndpoints(u)
    BY <1>1, <2>1, ChangedBy DEF Looping
  <2> QED
    BY <2>4, <2>5, <2>6, <2>7 DEF fn
<1>2. IInv /\ [Next]_vars =>
          [\A u \in Unit :
              /\ cluster[<<"endpoints", u>>] # Absent
              /\ cluster'[<<"endpoints", u>>] = Absent
              /\ cluster[<<"endpoints", u>>].group \notin raced
              => cluster[<<"function", u>>] = Absent]_vars
  BY <1>1
<1> QED
  BY <1>2, InductiveInvariant, PTL DEF Spec, EndpointsOutliveFunction
=============================================================================
