---------------------------- MODULE RouterProofs ----------------------------
(***************************************************************************)
(* The router's table is always right for one moment and never goes back:  *)
(* module Router implements module RouteTable, for any Functions, names,   *)
(* groups and bounds.                                                      *)
(***************************************************************************)
EXTENDS Router, SequenceTheorems, WellFoundedInduction, TLAPS

-----------------------------------------------------------------------------
(* Choosing among exporters.                                               *)

\* Of the Functions in a set, one is listed first ...
LEMMA FirstIsMember ==
  ASSUME NEW S \in SUBSET Unit, S # {}
  PROVE  First(S) \in S
  <1> DEFINE T == {Rank[u] : u \in S}
  <1>1. T \subseteq Nat /\ T # {}
    BY RoutesAssumption
  <1>2. PICK x \in T : \A y \in T : ~(<<y, x>> \in OpToRel(<, Nat))
    BY <1>1, NatLessThanWellFounded, WFMin, Zenon
  <1>3. PICK u \in S : x = Rank[u]
    OBVIOUS
  <1>4. ASSUME NEW v \in S
        PROVE  Rank[u] <= Rank[v]
    <2>1. Rank[v] \in T /\ Rank[v] \in Nat /\ x \in Nat
      BY <1>1
    <2>2. ~(Rank[v] < x)
      BY <1>2, <2>1, Zenon DEF OpToRel
    <2> QED
      BY <1>3, <2>1, <2>2
  <1> QED
    BY <1>4 DEF First

\* ... and one last, where the ranks are bounded.
LEMMA LastIsMember ==
  ASSUME NEW S \in SUBSET Unit, S # {},
         NEW K \in Nat, \A u \in Unit : Rank[u] <= K
  PROVE  Last(S) \in S
  <1> DEFINE T == {K - Rank[u] : u \in S}
  <1>1. T \subseteq Nat /\ T # {}
    BY RoutesAssumption
  <1>2. PICK x \in T : \A y \in T : ~(<<y, x>> \in OpToRel(<, Nat))
    BY <1>1, NatLessThanWellFounded, WFMin, Zenon
  <1>3. PICK u \in S : x = K - Rank[u]
    OBVIOUS
  <1>4. ASSUME NEW v \in S
        PROVE  Rank[v] <= Rank[u]
    <2>1. K - Rank[v] \in T /\ K - Rank[v] \in Nat /\ x \in Nat
      BY <1>1
    <2>2. ~(K - Rank[v] < x)
      BY <1>2, <2>1, Zenon DEF OpToRel
    <2>3. Rank[v] \in Nat /\ Rank[u] \in Nat
      BY RoutesAssumption
    <2> QED
      BY <1>3, <2>1, <2>2, <2>3
  <1> QED
    BY <1>4 DEF Last

\* The loop of Refresh makes a table that is right for the list it was given:
\* whatever overwrites or keeps a route, it leads to an exporter of the name.
LEMMA RefreshIsRight ==
  ASSUME NEW list \in Lists,
         NEW K \in Nat, \A u \in Unit : Rank[u] <= K
  PROVE  /\ NextRoutes(list) \in Table!Tables
         /\ Table!RightFor(list, NextRoutes(list))
  <1>1. ASSUME NEW key \in Keys
        PROVE  IF Table!Exporters(list, key) = {} THEN Route(list, key[1], key[2]) = None
               ELSE Route(list, key[1], key[2]) \in Table!Exporters(list, key)
    <2> DEFINE exporting == Exporting(list, key[2])
               inGroup == {u \in exporting : GroupOf[u] = key[1]}
    <2>1. exporting \subseteq Unit /\ inGroup \subseteq exporting
      BY DEF Exporting
    <2>2. inGroup \subseteq Table!Exporters(list, key)
      BY DEF Exporting, Table!Exporters
    <2>3. Table!Exporters(list, key) = IF key[1] = NoGroup THEN exporting ELSE inGroup
      BY DEF Exporting, Table!Exporters
    <2>4. CASE inGroup # {}
      <3>1. Route(list, key[1], key[2]) = Last(inGroup)
        BY <2>4 DEF Route
      <3>2. Last(inGroup) \in inGroup
        BY <2>1, <2>4, LastIsMember
      <3> QED
        BY <2>2, <2>4, <3>1, <3>2
    <2>5. CASE inGroup = {} /\ key[1] = NoGroup /\ exporting # {}
      <3>1. Route(list, key[1], key[2]) = First(exporting)
        BY <2>5 DEF Route
      <3>2. First(exporting) \in exporting
        BY <2>1, <2>5, FirstIsMember
      <3> QED
        BY <2>3, <2>5, <3>1, <3>2
    <2>6. CASE inGroup = {} /\ ~(key[1] = NoGroup /\ exporting # {})
      <3>1. Route(list, key[1], key[2]) = None
        BY <2>6 DEF Route
      <3> QED
        BY <2>3, <2>6, <3>1
    <2> QED
      BY <2>4, <2>5, <2>6
  <1> QED
    BY <1>1 DEF NextRoutes, Table!RightFor, Table!Tables, Table!Keys, Keys, Table!Exporters

-----------------------------------------------------------------------------
(* The history.                                                            *)

RouterInv == RoutesTypeOK /\ HistoryInv

LEMMA PublishStep ==
  ASSUME RouterInv, NEW u \in Unit, NEW names \in Exports(u), Publish(u, names)
  PROVE  RouterInv' /\ Table!Change
  <1>1. exported' \in Lists
    BY RoutesAssumption DEF RouterInv, RoutesTypeOK, Publish, Lists, Exports
  <1>2. /\ hist' = Append(hist, exported') /\ hist' \in Seq(Lists)
        /\ Len(hist') = Len(hist) + 1 /\ hist # << >> /\ Len(hist) \in Nat \ {0}
    BY <1>1 DEF RouterInv, RoutesTypeOK, HistoryInv, Publish
  <1>3. \A i \in 1 .. Len(hist) : hist'[i] = hist[i]
    BY <1>1, <1>2 DEF RouterInv, RoutesTypeOK
  <1>4. HistoryInv'
    <2>1. hist'[Len(hist')] = exported' /\ hist' # << >>
      BY <1>1, <1>2 DEF RouterInv, RoutesTypeOK
    <2>2. listed' # None => mark' \in 1 .. Len(hist') /\ hist'[mark'] = listed'
      BY <1>2, <1>3 DEF RouterInv, HistoryInv, Publish
    <2>3. routes' = NextRoutes(hist'[1])
      BY <1>2, <1>3 DEF RouterInv, HistoryInv, Publish
    <2> QED
      BY <2>1, <2>2, <2>3 DEF HistoryInv, NextRoutes
  <1>5. RoutesTypeOK'
    <2>1. spent' \in [changes : 0 .. MaxChanges, failures : 0 .. MaxFailures]
      BY RoutesBoundsAssumption DEF RouterInv, RoutesTypeOK, Publish
    <2>2. UNCHANGED <<routes, listed, mark>>
      BY DEF Publish
    <2> QED
      BY <1>1, <1>2, <2>1, <2>2 DEF RouterInv, RoutesTypeOK
  <1>6. Table!Change
    BY <1>1, <1>2 DEF RouterInv, RoutesTypeOK, Publish, Table!Change, Table!Lists, Lists
  <1> QED
    BY <1>4, <1>5, <1>6 DEF RouterInv

LEMMA StoreStep ==
  ASSUME RouterInv, StoreRoutes,
         NEW K \in Nat, \A u \in Unit : Rank[u] <= K
  PROVE  RouterInv' /\ Table!Renew
  <1>1. /\ mark \in 1 .. Len(hist) /\ hist[mark] = listed /\ listed \in Lists
        /\ hist \in Seq(Lists) /\ hist' = SubSeq(hist, mark, Len(hist))
        /\ routes' = NextRoutes(listed) /\ listed' = None /\ exported' = exported
    BY DEF RouterInv, RoutesTypeOK, HistoryInv, StoreRoutes
  <1>2. /\ hist' \in Seq(Lists) /\ Len(hist') = Len(hist) - mark + 1
        /\ hist'[1] = listed /\ hist'[Len(hist')] = hist[Len(hist)] /\ hist' # << >>
    <2> DEFINE later == SubSeq(hist, mark, Len(hist))
    <2>1. /\ later \in Seq(Lists)
          /\ Len(later) = Len(hist) - mark + 1
          /\ \A i \in 1 .. Len(hist) - mark + 1 : later[i] = hist[mark + i - 1]
      BY <1>1, SubSeqProperties
    <2>2. Len(hist) - mark + 1 \in Nat \ {0}
      BY <1>1
    <2>3. later[1] = hist[mark] /\ later[Len(hist) - mark + 1] = hist[Len(hist)]
      <3>1. Len(hist) \in Nat /\ mark \in Nat /\ mark <= Len(hist)
        BY <1>1
      <3>2. 1 \in 1 .. Len(hist) - mark + 1 /\ mark + 1 - 1 = mark
        BY <3>1
      <3>3. /\ Len(hist) - mark + 1 \in 1 .. Len(hist) - mark + 1
            /\ mark + (Len(hist) - mark + 1) - 1 = Len(hist)
        BY <3>1
      <3> HIDE DEF later
      <3>4. later[1] = hist[mark + 1 - 1]
        BY <2>1, <3>2
      <3>5. later[Len(hist) - mark + 1] = hist[mark + (Len(hist) - mark + 1) - 1]
        BY <2>1, <3>3
      <3> QED
        BY <3>2, <3>3, <3>4, <3>5
    <2>4. later # << >>
      BY <2>1, <2>2
    <2> QED
      BY <1>1, <2>1, <2>3, <2>4
  <1>3. routes' \in Table!Tables /\ Table!RightFor(listed, routes')
    BY <1>1, RefreshIsRight
  <1>4. HistoryInv'
    BY <1>1, <1>2 DEF RouterInv, HistoryInv, NextRoutes
  <1>5. RoutesTypeOK'
    BY <1>1, <1>2, <1>3 DEF RouterInv, RoutesTypeOK, StoreRoutes, Table!Tables, Table!Keys, Keys
  <1>6. Table!Renew
    BY <1>1, <1>3 DEF Table!Renew
  <1> QED
    BY <1>4, <1>5, <1>6 DEF RouterInv

LEMMA ListStep ==
  ASSUME RouterInv, ListFunctions \/ ListFails
  PROVE  RouterInv' /\ UNCHANGED <<hist, routes>>
  <1>1. Len(hist) \in 1 .. Len(hist)
    BY DEF RouterInv, RoutesTypeOK, HistoryInv
  <1>2. UNCHANGED <<exported, hist, routes>>
    BY DEF ListFunctions, ListFails
  <1>3. RoutesTypeOK'
    BY <1>1, RoutesBoundsAssumption DEF RouterInv, RoutesTypeOK, ListFunctions, ListFails
  <1>4. HistoryInv'
    BY <1>1, <1>2 DEF RouterInv, HistoryInv, ListFunctions, ListFails, NextRoutes
  <1> QED
    BY <1>2, <1>3, <1>4 DEF RouterInv

LEMMA InitRouterInv == RoutesInit => RouterInv /\ Table!Init
  <1> SUFFICES ASSUME RoutesInit
               PROVE  RouterInv /\ Table!Init
    OBVIOUS
  <1>1. Nothing \in Lists /\ exported \in Lists
    BY DEF RoutesInit, Nothing, Lists
  <1>2. /\ hist \in Seq(Lists) /\ Len(hist) = 2 /\ hist # << >>
        /\ hist[1] = Nothing /\ hist[2] = exported
    BY <1>1 DEF RoutesInit
  <1>3. \A group \in Group, name \in FnName : Route(Nothing, group, name) = None
    BY DEF Route, Exporting, Nothing
  <1>4. routes = NextRoutes(Nothing)
    BY <1>3 DEF RoutesInit, NextRoutes, Keys
  <1>5. RouterInv
    BY <1>1, <1>2, <1>4, RoutesBoundsAssumption
       DEF RoutesInit, RouterInv, RoutesTypeOK, HistoryInv
  <1>6. Table!Init
    BY <1>2 DEF RoutesInit, Table!Init, Table!Lists, Lists, Nothing, Table!Keys, Keys
  <1> QED
    BY <1>5, <1>6

\* Every step of the router is a step of the table, or none.
LEMMA RouterStep ==
  ASSUME NEW K \in Nat, \A u \in Unit : Rank[u] <= K
  PROVE  RouterInv /\ [RoutesNext]_routing =>
           RouterInv' /\ [Table!Change \/ Table!Renew]_<<hist, routes>>
  <1> SUFFICES ASSUME RouterInv, [RoutesNext]_routing
               PROVE  RouterInv' /\ [Table!Change \/ Table!Renew]_<<hist, routes>>
    OBVIOUS
  <1>1. CASE ListFunctions \/ ListFails
    BY <1>1, ListStep
  <1>2. CASE StoreRoutes
    BY <1>2, StoreStep
  <1>3. ASSUME NEW u \in Unit, NEW names \in Exports(u), Publish(u, names)
        PROVE  RouterInv' /\ Table!Change
    BY <1>3, PublishStep
  <1>4. CASE UNCHANGED routing
    BY <1>4 DEF routing, RouterInv, RoutesTypeOK, HistoryInv, NextRoutes
  <1> QED
    BY <1>1, <1>2, <1>3, <1>4 DEF RoutesNext, Refresh

\* The table is made of the first list of the history, in every state.
THEOREM HistoryCorrect ==
  ASSUME NEW K \in Nat, \A u \in Unit : Rank[u] <= K
  PROVE  RoutesSpec => []HistoryInv
  <1>1. RouterInv => HistoryInv
    BY DEF RouterInv
  <1> QED
    BY <1>1, InitRouterInv, RouterStep, PTL DEF RoutesSpec

\* The router implements the table: what it serves is right for one list of the
\* cluster, and never for an older one than before.
THEOREM RouterImplementsTable ==
  ASSUME NEW K \in Nat, \A u \in Unit : Rank[u] <= K
  PROVE  RoutesSpec => RoutesAreOfOneMoment
  <1> QED
    BY InitRouterInv, RouterStep, PTL DEF RoutesSpec, RoutesAreOfOneMoment, Table!Spec
=============================================================================
