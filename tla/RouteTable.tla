----------------------------- MODULE RouteTable -----------------------------
(***************************************************************************)
(* What the table of the router promises, whatever way it is computed.     *)
(*                                                                         *)
(* At any time the table is right for one list of the cluster: not for a   *)
(* mixture of two, and never for a list older than one it was right for    *)
(* before.  How far it lags behind is left open.                           *)
(***************************************************************************)
EXTENDS Naturals, Sequences

CONSTANTS
    Unit,    \* Functions
    FnName,  \* names of functions they export
    Group,   \* deployment ids
    GroupOf, \* the id of each Function
    NoGroup, \* no id, in a key or in a Function
    None     \* no route

VARIABLES
    lists,   \* what the cluster listed, from the list the table is right for on
    table    \* the Function a call goes to, by id and name

Keys == Group \X FnName
Lists == [Unit -> SUBSET FnName]
Tables == [Keys -> Unit \cup {None}]

\* Who may serve a key: an exporter of the name in the id, or any if no id is given.
Exporters(list, key) ==
    {u \in Unit : key[2] \in list[u] /\ key[1] \in {GroupOf[u], NoGroup}}

\* Each key leads to an exporter, if there is one.
RightFor(list, routes) ==
    \A key \in Keys :
        IF Exporters(list, key) = {} THEN routes[key] = None
        ELSE routes[key] \in Exporters(list, key)

\* A router that has just started knows of nothing.
Init ==
    /\ lists \in Seq(Lists)
    /\ lists # << >>
    /\ lists[1] = [u \in Unit |-> {}]
    /\ table = [key \in Keys |-> None]

\* Functions appear, disappear, or export other names.
Change ==
    /\ lists' \in Seq(Lists)
    /\ Len(lists') = Len(lists) + 1
    /\ SubSeq(lists', 1, Len(lists)) = lists
    /\ UNCHANGED table

\* The table becomes right for this or a later list.
Renew ==
    \E i \in 1 .. Len(lists) :
        /\ lists' = SubSeq(lists, i, Len(lists))
        /\ table' \in Tables
        /\ RightFor(lists[i], table')

Spec == Init /\ [][Change \/ Renew]_<<lists, table>>
=============================================================================
