---------------------------- MODULE MCMembership ----------------------------
(* Membership on small sets of rows and requests. *)
EXTENDS Membership
=============================================================================
