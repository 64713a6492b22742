------------------------------ MODULE MCStatus ------------------------------
(***************************************************************************)
(* Module Status for TLC.  StatusReported.cfg gives the versions as model  *)
(* values; liveness is checked, so there is no symmetry.                   *)
(***************************************************************************)
EXTENDS Status
=============================================================================
