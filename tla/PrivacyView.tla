---------------------------- MODULE PrivacyView ----------------------------
(***************************************************************************)
(* Privacy beside another component: what other components name as well,   *)
(* the users, the requests and their locals, has a name of its own here,   *)
(* so that a module may EXTEND both.                                       *)
(***************************************************************************)
CONSTANTS
    Members, Sections, Handles, Shown, Awards,
    PageRequests, Nobody, MaxPageCalls

VARIABLES
    settings, memberProfile, preference, content, allowed, had,
    pagePc, pageArg, pageCalls

P == INSTANCE Privacy WITH
    Users <- Members, Requests <- PageRequests, None <- Nobody, MaxCalls <- MaxPageCalls,
    profile <- memberProfile,
    pc <- pagePc, arg <- pageArg, calls <- pageCalls

PrivacySpec == P!Spec

\* Privacy.tla's: a page shows nothing that was not allowed and there during its
\* call; and an update that no other overlapped leaves what it asked for.
PagesFollowTheFlags == P!PagesFollowTheFlags
QuietUpdatesStick      == P!QuietUpdatesStick
=============================================================================
