------------------------------ MODULE MCLease ------------------------------
(* Small instances of the controller lease for TLC.                        *)
EXTENDS Lease
=============================================================================
