--------------------------- MODULE MCCredentials ---------------------------
(* Credentials on small sets of memberships and requests. *)
EXTENDS Credentials
=============================================================================
