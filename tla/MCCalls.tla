------------------------------ MODULE MCCalls ------------------------------
(***************************************************************************)
(* A small mesh for TLC: "a1" and "a2" of one id call each other, "b1" of  *)
(* another id exports a name they export too.                              *)
(***************************************************************************)
EXTENDS Calls

RankOf == [u \in Unit |-> CHOOSE i \in 1 .. 3 : <<"a1", "a2", "b1">>[i] = u]

GroupByName == [u \in Unit |-> IF u = "b1" THEN "b" ELSE "a"]

\* "ask" of a1 calls "two" of a2 and "tell" of a2 calls "one" of a1; another
\* source of a1 lacks "ask".
SourcesOf == [u \in Unit |-> CASE u = "a1" -> {{"ask", "one"}, {"one"}}
                               [] u = "a2" -> {{"tell", "two"}}
                               [] u = "b1" -> {{"ask"}}]

RemoteOf == [n \in FnName |-> CASE n = "ask" -> [unit |-> "a2", name |-> "two"]
                                [] n = "tell" -> [unit |-> "a1", name |-> "one"]
                                [] OTHER -> None]

Client(via, path, group, name, unit) ==
    [via |-> via, path |-> path, group |-> group, name |-> name, unit |-> unit]

\* One call through the mesh, one to the runtime itself for a promise.
Clients ==
    {Client("mesh", "call", "a", "ask", "a1"),
     Client("direct", "await", "", "tell", "a2")}

ViaOf == [c \in Call |-> c.via]
PathOf == [c \in Call |-> c.path]
CallGroupOf == [c \in Call |-> c.group]
CallNameOf == [c \in Call |-> c.name]
CallUnitOf == [c \in Call |-> c.unit]
=============================================================================
