----------------------------- MODULE MCPrivacy -----------------------------
(***************************************************************************)
(* The public pages of two members, with one section shown at first and    *)
(* one hidden; and two volunteers who want the one place that an           *)
(* opportunity has.                                                        *)
(*                                                                         *)
(* The two share no row, so a behaviour is of one of them, and the other   *)
(* rests at its initial state; that is why they may have model values, and *)
(* so symmetries, in common.                                               *)
(***************************************************************************)
EXTENDS PrivacyView, Volunteering, TLC

pageVars ==
    <<settings, memberProfile, preference, content, allowed, had, pagePc, pageArg, pageCalls>>

volunteeringVars == <<oppStatus, appStatus, partStatus, lock, pc, arg>>

NoPages == pageCalls = 0 /\ settings = [u \in Members |-> P!NoSettings]

NoOpportunities ==
    /\ oppStatus = [o \in Opportunities |-> "none"]
    /\ pc = [r \in Requests |-> "idle"]

OneInit == P!Init /\ Init

\* The settings, the profile and the preferences are rows of their own, and so are
\* the calls that read or write each: those of one kind at a time.
Kinds == {{"settings", "page", "code"}, {"profile", "list"}, {"preference", "notify"}}
OneKind == \E kind \in Kinds : \A r \in PageRequests : pageArg[r].call \in kind \cup {"none"}

OneNext ==
    \/ NoPages /\ Next /\ UNCHANGED pageVars
    \/ NoOpportunities /\ P!Next /\ OneKind' /\ UNCHANGED volunteeringVars

OneSpec == OneInit /\ [][OneNext]_<<pageVars, volunteeringVars>>

Symmetry == Permutations(Members) \cup Permutations(PageRequests)

\* One place, and two who want it.
OnePlace == [o \in Opportunities |-> 1]
=============================================================================
