------------------------------- MODULE Router -------------------------------
(***************************************************************************)
(* The route table of the router (src/internal/router/registry.go).        *)
(*                                                                         *)
(* One goroutine lists the Functions every few seconds, builds a new table *)
(* from the names in their status and swaps it in.  A list that fails      *)
(* leaves the table as it is.  The Functions change meanwhile.             *)
(***************************************************************************)
EXTENDS Naturals, Sequences

CONSTANTS
    Unit,        \* Functions
    Rank,        \* the order of their names, in which they are listed
    FnName,      \* names of functions they export
    Group,       \* deployment ids, NoGroup among them
    GroupOf,     \* spec.deployGroup of each Function
    NoGroup,     \* the empty id
    Sources,     \* Sources[u]: the sets of names that sources of u may export
    None,        \* no route, nothing listed
    MaxChanges,  \* bound: changes of what a Function exports
    MaxFailures  \* bound: lists that fail

ASSUME RoutesAssumption ==
    /\ GroupOf \in [Unit -> Group]
    /\ NoGroup \in Group
    /\ None \notin Unit
    /\ Sources \in [Unit -> SUBSET SUBSET FnName]
    /\ Rank \in [Unit -> Nat]
    /\ \A u, v \in Unit : Rank[u] = Rank[v] => u = v

ASSUME RoutesBoundsAssumption == MaxChanges \in Nat /\ MaxFailures \in Nat

VARIABLES
    exported,  \* status.functions of each Function; {} also when there is none
    routes,    \* Registry.routes
    listed,    \* what the refresh that is running has listed, or None
    hist,      \* ghost: the lists of the cluster since the one routes is made of
    mark,      \* ghost: where in hist the running refresh listed
    spent      \* changes and failures so far

routing == <<exported, routes, listed, hist, mark, spent>>

Keys == Group \X FnName
Lists == [Unit -> SUBSET FnName]

RoutesTypeOK ==
    /\ exported \in Lists
    /\ routes \in [Keys -> Unit \cup {None}]
    /\ listed \in Lists \cup {None}
    /\ hist \in Seq(Lists)
    /\ mark \in Nat
    /\ spent \in [changes : 0 .. MaxChanges, failures : 0 .. MaxFailures]

-----------------------------------------------------------------------------
(* The table made of a list.                                               *)

Last(S) == CHOOSE u \in S : \A v \in S : Rank[v] <= Rank[u]
First(S) == CHOOSE u \in S : \A v \in S : Rank[u] <= Rank[v]

Exporting(list, name) == {u \in Unit : name \in list[u]}

\* Within a group a later Function overwrites an earlier one.  Without a group
\* the first one keeps the name, but one that has no group overwrites it: its
\* own key is the key without group.
Route(list, group, name) ==
    LET exporting == Exporting(list, name)
        inGroup == {u \in exporting : GroupOf[u] = group}
    IN  IF inGroup # {} THEN Last(inGroup)
        ELSE IF group = NoGroup /\ exporting # {} THEN First(exporting)
        ELSE None

\* Faulty: the old table is added to.
MergedRoutes(list) ==
    [key \in Keys |-> LET route == Route(list, key[1], key[2])
                      IN  IF route = None THEN routes[key] ELSE route]

\* The whole table is made anew.
NextRoutes(list) == [key \in Keys |-> Route(list, key[1], key[2])]

-----------------------------------------------------------------------------

Nothing == [u \in Unit |-> {}]

\* A Function lists what its source exports, or nothing.
Exports(u) == Sources[u] \cup {{}}

\* NewRegistry: an empty table.
RoutesInit ==
    /\ exported \in {list \in Lists : \A u \in Unit : list[u] \in Exports(u)}
    /\ routes = [key \in Keys |-> None]
    /\ listed = None
    /\ hist = <<Nothing, exported>>
    /\ mark = 1
    /\ spent = [changes |-> 0, failures |-> 0]

\* The operator writes another status, or a Function is deployed or deleted.
Publish(u, names) ==
    /\ names # exported[u]
    /\ spent.changes < MaxChanges
    /\ spent' = [spent EXCEPT !.changes = @ + 1]
    /\ exported' = [exported EXCEPT ![u] = names]
    /\ hist' = Append(hist, exported')
    /\ UNCHANGED <<routes, listed, mark>>

\* kube.List answers.
ListFunctions ==
    /\ listed = None
    /\ listed' = exported
    /\ mark' = Len(hist)
    /\ UNCHANGED <<exported, routes, hist, spent>>

ListFails ==
    /\ listed = None
    /\ spent.failures < MaxFailures
    /\ spent' = [spent EXCEPT !.failures = @ + 1]
    /\ UNCHANGED <<exported, routes, listed, hist, mark>>

\* r.routes.Store(&next).
StoreRoutes ==
    /\ listed # None
    /\ routes' = NextRoutes(listed)
    /\ listed' = None
    /\ hist' = SubSeq(hist, mark, Len(hist))
    /\ mark' = 1
    /\ UNCHANGED <<exported, spent>>

Refresh == ListFunctions \/ ListFails \/ StoreRoutes

RoutesNext == Refresh \/ \E u \in Unit : \E names \in Exports(u) : Publish(u, names)

RoutesSpec == RoutesInit /\ [][RoutesNext]_routing

-----------------------------------------------------------------------------
(* Properties.                                                             *)

Table == INSTANCE RouteTable WITH lists <- hist, table <- routes

\* The router serves the routes of one moment, never of two, and never goes
\* back to an earlier one; every exporter's name is found, in its group and
\* without one (registry.go:60-96).
RoutesAreOfOneMoment == Table!Spec

\* What the refinement rests on: hist ends in the present, the running refresh
\* knows one of its lists, and the table is made of the first.
HistoryInv ==
    /\ hist # << >>
    /\ hist[Len(hist)] = exported
    /\ listed # None => mark \in 1 .. Len(hist) /\ hist[mark] = listed
    /\ routes = NextRoutes(hist[1])
=============================================================================
