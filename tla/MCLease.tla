------------------------------ MODULE MCLease -------------------------------
(* Lease.tla for TLC. *)
EXTENDS Lease, TLC

\* Leases are interchangeable.
Symmetric == Permutations(Leases)
=============================================================================
