----------------------------- MODULE MCCatalogs -----------------------------
(***************************************************************************)
(* The catalogs that scripts/dev-local.ts seeds, with one entry in most    *)
(* lists, and the hours of a volunteer, which two of the staff decide on   *)
(* and correct.                                                            *)
(*                                                                         *)
(* The two share no row, so a behaviour is of one of them, and the other   *)
(* rests at its initial state; that is why they may have model values, and *)
(* so symmetries, in common.                                               *)
(***************************************************************************)
EXTENDS CatalogsView, MCVolunteerHours, TLC

catalogVars ==
    <<setting, track, milestone, card, asked, torn, settled, catalogPc, catalogArg, catalogCalls>>

hourVars ==
    <<entry, adjusted, adjustments, impact, profile, level, approvedCache, pendingCache,
      scoreCache, pc, arg, quiet, contested, crossed>>

NoEntries == /\ catalogCalls = 0
             /\ setting = [x \in C!Settings |-> "none"]
             /\ track = [k \in Tracks |-> C!NoTrack]
NoHours   == ~profile /\ quiet = {} /\ \A e \in Entries : entry[e] = "none"

\* At most one of the entries is decided by two calls at once in a behaviour.
OneContested == Cardinality(contested) <= 1

OneInit == C!Init /\ Init

OneNext ==
    \/ NoEntries /\ Next /\ OneContested' /\ UNCHANGED catalogVars
    \/ NoHours /\ C!Next /\ UNCHANGED hourVars

OneSpec == OneInit /\ [][OneNext]_<<catalogVars, hourVars>>

Symmetry ==
    Permutations(CatalogRequests) \cup Permutations(Milestones)
=============================================================================
