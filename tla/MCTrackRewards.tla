--------------------------- MODULE MCTrackRewards ---------------------------
(***************************************************************************)
(* Recognition and the rewards of track contributions on small sets of     *)
(* rows; and the pages of the site, of which one is a draft that the seed  *)
(* never refreshes and one is public with a former copy that it knows.     *)
(*                                                                         *)
(* Contributions that are not yet made are all the same, so the first of   *)
(* them is made first.                                                     *)
(*                                                                         *)
(* The two share no row, so a behaviour is of one of them, and the other   *)
(* rests at its initial state; that is why they may have model values, and *)
(* so symmetries, in common.                                               *)
(***************************************************************************)
EXTENDS TrackRewards, ContentView, TLC

CONSTANT FirstContribution

rewardVars ==
    <<contribution, origin, live, weight, score, hours, badge, milestone, certificate,
      pc, arg, calls, quiet, torn, work, flags, entries>>

contentVars ==
    <<block, consents, server, todo, seed, clock, starts, published,
      contentPc, contentArg, contentCalls>>

NoRewards == calls = 0 /\ ~hours /\ work = [w \in TrackWork |-> "none"]
NoPages   == starts = 0 /\ block = [s \in Slugs |-> Pages!NoBlock]

InOrder ==
    contribution[FirstContribution] = "none" => \A c \in Contributions : contribution[c] = "none"

OneInit == InitTrackRewards /\ Pages!Init /\ (NoRewards \/ NoPages)

OneNext ==
    \/ NoPages /\ Next /\ InOrder' /\ UNCHANGED contentVars
    \/ NoRewards /\ Pages!Next /\ UNCHANGED rewardVars

OneSpec == OneInit /\ [][OneNext]_<<rewardVars, contentVars>>

Symmetry == Permutations(Requests)
=============================================================================
