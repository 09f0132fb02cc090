------------------------------- MODULE MCDesk -------------------------------
(* Desk with three users, who may be requester, expert and administrator. *)
EXTENDS DeskView, TLC

Symmetry == Permutations(Users) \cup Permutations(DeskRequests)
=============================================================================
