---------------------------- MODULE TrackRoster ----------------------------
(***************************************************************************)
(* Professional tracks: applications, memberships with one primary track   *)
(* per member, leadership with one primary leader per track, and the two   *)
(* badges that follow them (src/modules/tracks/service.ts, scope.ts).      *)
(*                                                                         *)
(* Every call is a sequence of statements without a transaction; another   *)
(* call, or a crash, may come between any two.  Only the unique indexes of *)
(* track_memberships, track_leadership_assignments and badge_awards        *)
(* exclude a second primary track, primary leader or badge; a statement    *)
(* they refuse throws, and the statements before it stay.                  *)
(*                                                                         *)
(* Roles of members, texts, audit rows and notifications are left out, and *)
(* the permissions of callers: reviewers are administrators or leaders.    *)
(***************************************************************************)
EXTENDS Naturals

CONSTANTS
    Users, Tracks, Applications, Assignments, Requests, None,
    MaxCalls        \* bounds the calls of a behaviour, and the terms that end

ASSUME NoneIsNothing == None \notin Users \cup Tracks \cup Applications \cup Assignments

VARIABLES
    clinic,         \* the users with an active clinic membership
    open,           \* the tracks that are active and take applications
    application,    \* track_applications
    member,         \* track_memberships: one row per track and user
    primary,        \* those of them with is_primary
    assignment,     \* track_leadership_assignments
    over,           \* those of them whose endsAt has passed
    badge,          \* the active award of each badge, by its source
    pc, arg,        \* where each request is, and its locals
    calls,          \* the calls so far, and the terms that ended
    \* History, read by properties only: the calls no other has disturbed.
    quiet

rows     == <<application, member, primary, assignment, badge>>
callVars == <<pc, arg>>
vars     == <<clinic, open, over, rows, callVars, calls, quiet>>

Admin  == "admin"
Kinds  == {"primary", "leader"}
Source == Tracks \cup Assignments

Labels ==
    {"idle", "applyTrack", "applyMember", "applyPending", "applyInsert",
     "scope", "decide", "reviewClinic", "assign", "clear", "find", "put",
     "revokeLeader", "insertLeader", "readMember", "suspendMembers", "suspendLeaders",
     "sync", "award", "writeBadge", "done"}

NoAssignment  == [status |-> "none", track |-> None, user |-> None, role |-> None]
NoApplication == [status |-> "none", track |-> None, user |-> None, primary |-> FALSE]

\* found: a row that was looked up; wanted, seen: the badge's source as it should
\* be and as it was read; ref: whether the award read is still the active one.
NoArg ==
    [track |-> None, user |-> None, actor |-> None, app |-> None, primary |-> FALSE,
     role |-> None, assignment |-> None, decision |-> None, found |-> FALSE,
     kind |-> "primary", wanted |-> None, seen |-> None, ref |-> "none", syncs |-> 1]

Init ==
    /\ clinic = Users
    /\ open = Tracks
    /\ application = [a \in Applications |-> NoApplication]
    /\ member = [x \in Tracks \X Users |-> "none"]
    /\ primary = {}
    /\ assignment = [l \in Assignments |-> NoAssignment]
    /\ over = {}
    /\ badge = [k \in Kinds |-> [u \in Users |-> None]]
    /\ pc  = [r \in Requests |-> "idle"]
    /\ arg = [r \in Requests |-> NoArg]
    /\ calls = 0
    /\ quiet = [r \in Requests |-> TRUE]

-----------------------------------------------------------------------------
(* Rows *)

PrimaryTracks(u) == {t \in Tracks : member[<<t, u>>] = "active" /\ <<t, u>> \in primary}

ActiveAs(role) ==
    {l \in Assignments : assignment[l].status = "active" /\ assignment[l].role = role}

PrimaryLeaders(t) == {l \in ActiveAs("primary") : assignment[l].track = t}

LedBy(u) == {l \in ActiveAs("primary") : assignment[l].user = u}

\* getActiveLeadership: a primary or a deputy, within its dates.
ActiveLeadership(u, t) ==
    {l \in Assignments \ over :
        /\ assignment[l].status = "active"
        /\ assignment[l].track = t
        /\ assignment[l].user = u}

\* getVerifiedTrackIdentity, which cards and public profiles show.
VerifiedIdentity(u) ==
    [primary   |-> PrimaryTracks(u),
     secondary |-> {t \in Tracks : member[<<t, u>>] = "active" /\ <<t, u>> \notin primary},
     leads     |-> {assignment[l].track : l \in LedBy(u) \ over}]

\* isGlobalTrackAdmin or getActiveLeadership.
LeaderScope(actor, t) == actor = Admin \/ ActiveLeadership(actor, t) # {}

-----------------------------------------------------------------------------
(* Calls *)

GoTo(r, label, a) ==
    /\ pc'  = [pc  EXCEPT ![r] = label]
    /\ arg' = [arg EXCEPT ![r] = a]

Return(r) == GoTo(r, "idle", NoArg)

\* An error returned to the caller; nothing is rolled back.
Throw(r) == Return(r)

\* The last statement of activateTrackMembership and of the calls below.
Sync(r, a) == GoTo(r, "sync", [NoArg EXCEPT !.user = a.user, !.syncs = a.syncs])

\* activateTrackMembership begins by clearing, when the track is to be primary.
Activate(r, a) ==
    GoTo(r, IF a.primary THEN "clear" ELSE "find",
         [NoArg EXCEPT !.track = a.track, !.user = a.user, !.primary = a.primary,
                       !.syncs = a.syncs])

-----------------------------------------------------------------------------
(* applyToTrack *)

HasClinicMembership(u) == u \in clinic

Apply(r, u, t, wantPrimary) ==
    /\ pc[r] = "idle"
    /\ HasClinicMembership(u)
    /\ GoTo(r, "applyTrack", [NoArg EXCEPT !.user = u, !.track = t, !.primary = wantPrimary])
    /\ UNCHANGED rows

ApplyTrack(r) ==
    /\ pc[r] = "applyTrack"
    /\ \/ arg[r].track \in open /\ GoTo(r, "applyMember", arg[r])
       \/ arg[r].track \notin open /\ Throw(r)
    /\ UNCHANGED rows

ApplyMember(r) ==
    /\ pc[r] = "applyMember"
    /\ \/ member[<<arg[r].track, arg[r].user>>] = "active" /\ Throw(r)
       \/ member[<<arg[r].track, arg[r].user>>] # "active" /\ GoTo(r, "applyPending", arg[r])
    /\ UNCHANGED rows

Pending(u, t) ==
    {a \in Applications :
        /\ application[a].status = "submitted"
        /\ application[a].user = u
        /\ application[a].track = t}

ApplyPending(r) ==
    /\ pc[r] = "applyPending"
    /\ \/ Pending(arg[r].user, arg[r].track) # {} /\ Throw(r)
       \/ Pending(arg[r].user, arg[r].track) = {} /\ GoTo(r, "applyInsert", arg[r])
    /\ UNCHANGED rows

ApplyInsert(r, a) ==
    /\ pc[r] = "applyInsert"
    /\ application[a].status = "none"
    /\ application' = [application EXCEPT ![a] =
           [status |-> "submitted", track |-> arg[r].track, user |-> arg[r].user,
            primary |-> arg[r].primary]]
    /\ Return(r)
    /\ UNCHANGED <<member, primary, assignment, badge>>

-----------------------------------------------------------------------------
(* reviewTrackApplication *)

\* Nobody reviews their own; the application is read once, here.
Review(r, actor, a, decision) ==
    /\ pc[r] = "idle"
    /\ application[a].status # "none"
    /\ application[a].user # actor
    /\ GoTo(r, "scope",
            [NoArg EXCEPT !.actor = actor, !.app = a, !.decision = decision,
                          !.found = application[a].status = "submitted",
                          !.track = application[a].track, !.user = application[a].user,
                          !.primary = application[a].primary])
    /\ UNCHANGED rows

ReviewScope(r) ==
    /\ pc[r] = "scope"
    /\ \/ /\ LeaderScope(arg[r].actor, arg[r].track)
          /\ arg[r].found
          /\ GoTo(r, "decide", arg[r])
       \/ /\ ~LeaderScope(arg[r].actor, arg[r].track) \/ ~arg[r].found
          /\ Throw(r)
    /\ UNCHANGED rows

\* UPDATE ... WHERE id only.
Decide(r) ==
    /\ pc[r] = "decide"
    /\ application' = [application EXCEPT ![arg[r].app].status = arg[r].decision]
    /\ IF arg[r].decision = "approved" THEN GoTo(r, "reviewClinic", arg[r]) ELSE Return(r)
    /\ UNCHANGED <<member, primary, assignment, badge>>

\* The clinic membership is asked for after the decision is written.
ReviewClinic(r) ==
    /\ pc[r] = "reviewClinic"
    /\ \/ HasClinicMembership(arg[r].user) /\ Activate(r, arg[r])
       \/ ~HasClinicMembership(arg[r].user) /\ Throw(r)
    /\ UNCHANGED rows

-----------------------------------------------------------------------------
(* activateTrackMembership *)

Clear(r) ==
    /\ pc[r] = "clear"
    /\ primary' = primary \ {<<t, arg[r].user>> : t \in PrimaryTracks(arg[r].user)}
    /\ GoTo(r, "find", arg[r])
    /\ UNCHANGED <<application, member, assignment, badge>>

Find(r) ==
    /\ pc[r] = "find"
    /\ GoTo(r, "put", [arg[r] EXCEPT !.found = member[<<arg[r].track, arg[r].user>>] # "none"])
    /\ UNCHANGED rows

\* What the two unique indexes of track_memberships refuse: an insert of a row
\* that has come up since it was looked for, and a second primary track.
RowIsThere(r) == ~arg[r].found /\ member[<<arg[r].track, arg[r].user>>] # "none"

\* Mutant: no partial unique index on the primary track.
PutRefusedByRowOnly(r) == RowIsThere(r)

PutRefused(r) ==
    \/ RowIsThere(r)
    \/ arg[r].primary /\ PrimaryTracks(arg[r].user) \ {arg[r].track} # {}

\* The UPDATE of the row that was found, or the INSERT.
Put(r) ==
    LET row == <<arg[r].track, arg[r].user>> IN
    /\ pc[r] = "put"
    /\ \/ PutRefused(r) /\ Throw(r) /\ UNCHANGED <<member, primary>>
       \/ /\ ~PutRefused(r)
          /\ member'  = [member EXCEPT ![row] = "active"]
          /\ primary' = IF arg[r].primary THEN primary \cup {row} ELSE primary \ {row}
          /\ Sync(r, arg[r])
    /\ UNCHANGED <<application, assignment, badge>>

-----------------------------------------------------------------------------
(* assignTrackMember, appointTrackLeader, revokeTrackLeader *)

Assign(r, t, u, isPrimary) ==
    /\ pc[r] = "idle"
    /\ HasClinicMembership(u)
    /\ Activate(r, [NoArg EXCEPT !.track = t, !.user = u, !.primary = isPrimary])
    /\ UNCHANGED rows

\* No clinic membership is asked for here.  The call syncs the badges twice.
Appoint(r, t, u, role) ==
    LET a == [NoArg EXCEPT !.track = t, !.user = u, !.role = role, !.syncs = 2] IN
    /\ pc[r] = "idle"
    /\ \/ /\ role = "primary"
          /\ assignment' = [l \in Assignments |->
                 IF l \in PrimaryLeaders(t)
                 THEN [assignment[l] EXCEPT !.status = "revoked"] ELSE assignment[l]]
       \/ role = "deputy" /\ UNCHANGED assignment
    /\ GoTo(r, "insertLeader", a)
    /\ UNCHANGED <<application, member, primary, badge>>

InsertLeader(r, l) ==
    LET t == arg[r].track IN
    /\ pc[r] = "insertLeader"
    /\ \/ arg[r].role = "primary" /\ PrimaryLeaders(t) # {} /\ Throw(r) /\ UNCHANGED assignment
       \/ /\ arg[r].role = "primary" => PrimaryLeaders(t) = {}
          /\ assignment[l] = NoAssignment
          /\ assignment' = [assignment EXCEPT ![l] =
                 [status |-> "active", track |-> t, user |-> arg[r].user, role |-> arg[r].role]]
          /\ GoTo(r, "readMember", arg[r])
    /\ UNCHANGED <<application, member, primary, badge>>

\* The flag of an active membership is read here and written back by Put.
ReadMember(r) ==
    LET row == <<arg[r].track, arg[r].user>> IN
    /\ pc[r] = "readMember"
    /\ Activate(r, [arg[r] EXCEPT !.primary = member[row] = "active" /\ row \in primary])
    /\ UNCHANGED rows

Revoke(r, l) ==
    /\ pc[r] = "idle"
    /\ assignment[l] # NoAssignment
    /\ GoTo(r, "revokeLeader", [NoArg EXCEPT !.assignment = l, !.user = assignment[l].user])
    /\ UNCHANGED rows

RevokeLeader(r) ==
    /\ pc[r] = "revokeLeader"
    /\ assignment' = [assignment EXCEPT ![arg[r].assignment].status = "revoked"]
    /\ Sync(r, arg[r])
    /\ UNCHANGED <<application, member, primary, badge>>

-----------------------------------------------------------------------------
(* suspendTrackPrivilegesForUser, called when a membership leaves active *)

\* The membership's holder may have an active membership of another type.
LoseMembership(r, u) ==
    /\ pc[r] = "idle"
    /\ u \in clinic
    /\ \/ clinic' = clinic \ {u}
       \/ UNCHANGED clinic
    /\ GoTo(r, "suspendMembers", [NoArg EXCEPT !.user = u])
    /\ UNCHANGED rows

\* Mutant: the status of a leadership is written to the memberships.
SuspendMembersAsRevoked(r) ==
    /\ pc[r] = "suspendMembers"
    /\ member' = [x \in Tracks \X Users |->
           IF x[2] = arg[r].user /\ member[x] = "active" THEN "revoked" ELSE member[x]]
    /\ GoTo(r, "suspendLeaders", arg[r])
    /\ UNCHANGED <<application, primary, assignment, badge>>

SuspendMembers(r) ==
    /\ pc[r] = "suspendMembers"
    /\ member' = [x \in Tracks \X Users |->
           IF x[2] = arg[r].user /\ member[x] = "active" THEN "suspended" ELSE member[x]]
    /\ GoTo(r, "suspendLeaders", arg[r])
    /\ UNCHANGED <<application, primary, assignment, badge>>

SuspendLeaders(r) ==
    /\ pc[r] = "suspendLeaders"
    /\ assignment' = [l \in Assignments |->
           IF assignment[l].status = "active" /\ assignment[l].user = arg[r].user
           THEN [assignment[l] EXCEPT !.status = "suspended"] ELSE assignment[l]]
    /\ Sync(r, arg[r])
    /\ UNCHANGED <<application, member, primary, badge>>

-----------------------------------------------------------------------------
(* syncTrackBadges: first the badge of the primary track, then the leader's *)

\* The primary track, or one of the tracks the user leads.
Holdings(kind, u) == IF kind = "primary" THEN PrimaryTracks(u) ELSE LedBy(u)

SyncRead(r) ==
    LET held == Holdings(arg[r].kind, arg[r].user) IN
    /\ pc[r] = "sync"
    /\ \/ held = {} /\ GoTo(r, "award", [arg[r] EXCEPT !.wanted = None])
       \/ \E s \in held : GoTo(r, "award", [arg[r] EXCEPT !.wanted = s])
    /\ UNCHANGED rows

SyncAward(r) ==
    LET source == badge[arg[r].kind][arg[r].user] IN
    /\ pc[r] = "award"
    /\ GoTo(r, "writeBadge",
            [arg[r] EXCEPT !.seen = source, !.ref = IF source = None THEN "none" ELSE "live"])
    /\ UNCHANGED rows

\* Where a sync goes after one badge.
Synced(r) ==
    LET a == [arg[r] EXCEPT !.wanted = None, !.seen = None, !.ref = "none"] IN
    CASE arg[r].kind = "primary" -> [label |-> "sync", arg |-> [a EXCEPT !.kind = "leader"]]
      [] arg[r].kind = "leader" /\ arg[r].syncs = 2 ->
             [label |-> "sync", arg |-> [a EXCEPT !.kind = "primary", !.syncs = 1]]
      [] OTHER -> [label |-> "done", arg |-> a]

\* An award whose row is revoked is no longer the one that others have read.
Forget(r) ==
    [q \in Requests |->
        IF q = r THEN Synced(r).arg
        ELSE IF /\ arg[q].ref = "live"
                /\ arg[q].kind = arg[r].kind
                /\ arg[q].user = arg[r].user THEN [arg[q] EXCEPT !.ref = "gone"]
        ELSE arg[q]]

\* Mutant: a badge that is no longer due stays.
SyncWriteOnlyGrants(r) ==
    LET a == arg[r] IN
    /\ pc[r] = "writeBadge"
    /\ badge' = IF a.wanted # None /\ a.ref = "none"
                THEN [badge EXCEPT ![a.kind][a.user] = a.wanted] ELSE badge
    /\ GoTo(r, Synced(r).label, Synced(r).arg)
    /\ UNCHANGED <<application, member, primary, assignment>>

SyncWrite(r) ==
    LET a    == arg[r]
        next == Synced(r)
    IN
    /\ pc[r] = "writeBadge"
    /\ \/ \* INSERT; the unique index on active awards may refuse it.
          /\ a.wanted # None /\ a.ref = "none"
          /\ \/ badge[a.kind][a.user] # None /\ Throw(r) /\ UNCHANGED badge
             \/ /\ badge[a.kind][a.user] = None
                /\ badge' = [badge EXCEPT ![a.kind][a.user] = a.wanted]
                /\ GoTo(r, next.label, next.arg)
       \/ \* The award that was read is revoked.
          /\ a.wanted = None /\ a.ref = "live"
          /\ badge' = [badge EXCEPT ![a.kind][a.user] = None]
          /\ pc'  = [pc EXCEPT ![r] = next.label]
          /\ arg' = Forget(r)
       \/ \* It is given its new track.
          /\ a.wanted # None /\ a.ref = "live" /\ a.kind = "primary" /\ a.seen # a.wanted
          /\ badge' = [badge EXCEPT ![a.kind][a.user] = a.wanted]
          /\ GoTo(r, next.label, next.arg)
       \/ \* Nothing to write, or a row that others have revoked.
          /\ \/ a.ref = "gone"
             \/ a.wanted = None /\ a.ref = "none"
             \/ a.wanted # None /\ a.ref = "live" /\ (a.kind = "leader" \/ a.seen = a.wanted)
          /\ GoTo(r, next.label, next.arg)
          /\ UNCHANGED badge
    /\ UNCHANGED <<application, member, primary, assignment>>

Finish(r) ==
    /\ pc[r] = "done"
    /\ Return(r)
    /\ UNCHANGED rows

-----------------------------------------------------------------------------
(* The server actions, and what changes around them *)

MemberCalls(r) ==
    \E u \in Users, t \in Tracks, p \in BOOLEAN : Apply(r, u, t, p)

ReviewCalls(r) ==
    \E actor \in Users \cup {Admin}, a \in Applications, d \in {"approved", "rejected"} :
        Review(r, actor, a, d)

AdminCalls(r) ==
    \/ \E t \in Tracks, u \in Users :
        \/ \E p \in BOOLEAN : Assign(r, t, u, p)
        \/ \E role \in {"primary", "deputy"} : Appoint(r, t, u, role)
    \/ \E l \in Assignments : Revoke(r, l)

Begin(r) == MemberCalls(r) \/ ReviewCalls(r) \/ AdminCalls(r)

Continue(r) ==
    \/ ApplyTrack(r) \/ ApplyMember(r) \/ ApplyPending(r)
    \/ \E a \in Applications : ApplyInsert(r, a)
    \/ ReviewScope(r) \/ Decide(r) \/ ReviewClinic(r)
    \/ Clear(r) \/ Find(r) \/ Put(r)
    \/ \E l \in Assignments : InsertLeader(r, l)
    \/ ReadMember(r) \/ RevokeLeader(r)
    \/ SuspendMembers(r) \/ SuspendLeaders(r)
    \/ SyncRead(r) \/ SyncAward(r) \/ SyncWrite(r) \/ Finish(r)

Crash(r) ==
    /\ pc[r] # "idle"
    /\ Return(r)
    /\ UNCHANGED rows

\* configureTrack opens and closes a track in one statement.
ConfigureTrack(t) ==
    /\ open' = IF t \in open THEN open \ {t} ELSE open \cup {t}
    /\ UNCHANGED <<clinic, over, rows, callVars>>

\* A membership is issued or reactivated; the tracks stay as they are.
GainMembership(u) ==
    /\ u \notin clinic
    /\ clinic' = clinic \cup {u}
    /\ UNCHANGED <<open, over, rows, callVars>>

\* endsAt passes.  It may be set for any appointment.
EndTerm(l) ==
    /\ assignment[l].status = "active"
    /\ l \notin over
    /\ over' = over \cup {l}
    /\ UNCHANGED <<clinic, open, rows, callVars>>

-----------------------------------------------------------------------------
(* History *)

Record(r) ==
    quiet' = [q \in Requests |->
        \/ pc'[q] = "idle"
        \/ q = r /\ (pc[q] = "idle" \/ quiet[q])]

Call ==
    /\ calls < MaxCalls
    /\ calls' = calls + 1
    /\ \/ \E r \in Requests : Begin(r) /\ UNCHANGED <<clinic, open, over>> /\ Record(r)
       \/ \E r \in Requests, u \in Users :
            LoseMembership(r, u) /\ UNCHANGED <<open, over>> /\ Record(r)
       \/ \E u \in Users : GainMembership(u) /\ UNCHANGED quiet
       \/ \E t \in Tracks : ConfigureTrack(t) /\ UNCHANGED quiet
       \/ \E l \in Assignments : EndTerm(l) /\ UNCHANGED quiet

Next ==
    \/ Call
    \/ /\ UNCHANGED calls
       /\ \/ \E r \in Requests :
               Continue(r) /\ UNCHANGED <<clinic, open, over>> /\ Record(r)
          \/ \E r \in Requests :
               Crash(r) /\ UNCHANGED <<clinic, open, over>> /\ Record(r)

Spec == Init /\ [][Next]_vars

-----------------------------------------------------------------------------
(* Properties *)

LeaderSeat  == INSTANCE Seats WITH Seat <- Tracks, Holder <- Assignments,
                   holders <- [t \in Tracks |-> PrimaryLeaders(t)]
PrimarySeat == INSTANCE Seats WITH Seat <- Users, Holder <- Tracks,
                   holders <- [u \in Users |-> PrimaryTracks(u)]

TypeOK ==
    /\ clinic \subseteq Users
    /\ open \subseteq Tracks
    /\ application \in [Applications ->
           [status : {"none", "submitted", "approved", "rejected"},
            track : Tracks \cup {None}, user : Users \cup {None}, primary : BOOLEAN]]
    /\ member \in [Tracks \X Users -> {"none", "active", "suspended"}]
    /\ primary \subseteq {x \in Tracks \X Users : member[x] # "none"}
    /\ assignment \in [Assignments ->
           [status : {"none", "active", "suspended", "revoked"}, track : Tracks \cup {None},
            user : Users \cup {None}, role : {"primary", "deputy", None}]]
    /\ over \subseteq Assignments
    /\ badge \in [Kinds -> [Users -> Source \cup {None}]]
    /\ pc \in [Requests -> Labels]

\* A member's primary track and a track's primary leader are seats: however the
\* clearing and setting statements of several calls interleave or break off,
\* there is never a second holder, and none is replaced without a vacancy.
SeatsAreKept == LeaderSeat!Spec /\ PrimarySeat!Spec

\* A call undisturbed by others leaves its member with just the badges that are
\* due, whatever races and crashes have left before it: the badges agree with
\* the identity that cards and profiles show.  (A leader keeps the badge when the
\* term is over, and the identity does not show it.)
QuietCallsSettleBadges ==
    \A r \in Requests :
        pc[r] = "done" /\ quiet[r] =>
            LET u  == arg[r].user
                id == VerifiedIdentity(u)
            IN
            /\ {badge["primary"][u]} \ {None} = id.primary
            /\ id.primary \cap id.secondary = {}
            /\ badge["leader"][u] # None <=> LedBy(u) # {}
            /\ id.leads # {} => badge["leader"][u] # None
=============================================================================
