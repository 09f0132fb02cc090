--------------------------- MODULE MCTrackRoster ---------------------------
(***************************************************************************)
(* The tracks on small sets of members, rows and requests.  Assignments    *)
(* that are not yet made are all the same, so the first of them is made    *)
(* first.                                                                  *)
(***************************************************************************)
EXTENDS TrackRoster, TLC

CONSTANT FirstAssignment

InOrder ==
    assignment[FirstAssignment] = NoAssignment => \A l \in Assignments : assignment[l] = NoAssignment

MCSpec == Init /\ [][Next /\ InOrder']_vars

Symmetry == Permutations(Users) \cup Permutations(Tracks) \cup Permutations(Requests)
=============================================================================
