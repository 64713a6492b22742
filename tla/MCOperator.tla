----------------------------- MODULE MCOperator -----------------------------
(***************************************************************************)
(* A few Functions for TLC: "a1" and "a2" are of one deploy group, "b1" of *)
(* another; "u1" was applied by hand, without a group.                     *)
(***************************************************************************)
EXTENDS Operator

GroupByName ==
    [u \in Unit |-> CASE u \in {"a1", "a2"} -> "a"
                      [] u = "b1" -> "b"
                      [] OTHER -> NoGroup]
=============================================================================
