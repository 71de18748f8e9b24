----------------------------- MODULE MCPickTrace -----------------------------
(* PickTrace.tla for TLC, on the instances of MCRequestPath.tla. *)
EXTENDS PickTrace, MCRequestPath
=============================================================================
