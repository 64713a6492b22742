---------------------------- MODULE MCDiscovery ----------------------------
(***************************************************************************)
(* Small deploy groups for TLC.  The names "a", "b", "c" are ranked in     *)
(* that order; each pod is a record of its name and its number.            *)
(***************************************************************************)
EXTENDS Discovery

OnePodEach == {[name |-> n, no |-> 1] : n \in Name}

\* The first name has an old and a new pod, as during a rolling update.
TwoPodsOfA == OnePodEach \cup {[name |-> "a", no |-> 2]}

NameOfPod == [p \in Pod |-> p.name]

AlphabetRank == [n \in Name |-> CHOOSE i \in 1 .. 3 : <<"a", "b", "c">>[i] = n]

\* Every runtime sees every other.
FullMesh == [n \in Name |-> {Name \ {n}}]

\* Endpoints are read at start, while the group may still be growing: a
\* runtime may find any part of the group mounted.
AnyMesh == [n \in Name |-> SUBSET (Name \ {n})]

\* The local harness starts a pod without FUNCTION_NAME.
UnnamedB == {p \in Pod : p.name = "b"}
=============================================================================
