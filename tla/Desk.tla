-------------------------------- MODULE Desk --------------------------------
(***************************************************************************)
(* Consultations and the meetings held on them (src/modules/consultations, *)
(* src/modules/meetings), and what the catalog of roles lets each user do  *)
(* there (src/modules/identity/rbac).                                      *)
(*                                                                         *)
(* A call reads the rows it decides on, checks, and then writes by id; no  *)
(* call is a transaction, and a consultation has no table of transitions.  *)
(* Roles are granted and never taken away, so a permission that was read   *)
(* is still there when the call writes: it is read with the row.           *)
(*                                                                         *)
(* Texts, tracks, times (and the stamps they leave) and audit rows are left*)
(* out, and users who are not active: their calls end before they read     *)
(* anything.  Of the provider of the meetings' rooms there is only whether *)
(* it is set up.                                                           *)
(***************************************************************************)
EXTENDS Naturals

\* ROLE_SEEDS
RoleSlugs ==
    {"super_admin", "platform_admin", "membership_admin", "volunteer_admin", "track_lead",
     "volunteer_leader", "reviewer", "content_manager", "partner_manager", "auditor",
     "expert", "founder", "volunteer", "member"}

CONSTANTS
    Users, Consultations, Meetings, Requests, None,
    Granted,        \* the roles that are held in the model, of those there are
    Ready,          \* resolveMeetingProviderReadiness
    MaxCalls        \* bounds the calls of a behaviour

VARIABLES
    role,           \* user_roles
    consultation,   \* consultation_requests
    message,        \* consultation_messages
    room,           \* meeting_rooms
    participant,    \* meeting_participants: the role of each user
    told,           \* the notifications sent under each idempotency key
    pc, arg,        \* where each request is, and its locals
    calls,
    served,         \* History: everyone a consultation was ever assigned to
    died            \* History: the rows whose call died

rows     == <<role, consultation, message, room, participant, told>>
callVars == <<pc, arg>>
history  == <<served, died>>
vars     == <<rows, callVars, calls, history>>

MessageKinds == {"message", "deliverable", "feedback"}

\* What a meeting's row is for each user: "none", "host" or "attendee", and
\* "host joined" or "attendee joined" once it has a stamp.
NoParticipants == [u \in Users |-> "none"]

NoConsultation == [requester |-> None, expert |-> None, status |-> "none"]
NoRoom         == [consultation |-> None, creator |-> None, status |-> "none"]

\* expert, requester: as createMeeting read them; to: the status to set.
NoArg == [user |-> None, on |-> None, meeting |-> None, kind |-> "none", to |-> "none",
          requester |-> None, expert |-> None]

Init ==
    /\ role \in [Users -> {{}} \cup {{g} : g \in Granted}]
    /\ consultation = [c \in Consultations |-> NoConsultation]
    /\ message = {}
    /\ room = [m \in Meetings |-> NoRoom]
    /\ participant = [m \in Meetings |-> NoParticipants]
    /\ told = [c \in Consultations |-> [requester |-> None, expert |-> None]]
    /\ pc  = [r \in Requests |-> "idle"]
    /\ arg = [r \in Requests |-> NoArg]
    /\ calls = 0
    /\ served = [c \in Consultations |-> {}]
    /\ died = {}

-----------------------------------------------------------------------------
(* Roles and permissions *)

ConsultationAdmin ==
    {"consultation.read.any", "consultation.assign", "consultation.respond",
     "consultation.manage", "meeting.create", "meeting.manage", "meeting.start"}

TrackLeader == {"meeting.start"}

\* ROLE_PERMISSION_MAP, of the permissions the desk asks for.
RolePermissions(g) ==
    CASE g = "super_admin"           -> ConsultationAdmin \cup {"consultation.create"}
      [] g = "platform_admin"        -> ConsultationAdmin
      [] g = "track_lead"            -> TrackLeader \cup {"consultation.respond", "meeting.create"}
      [] g = "reviewer"              -> {"consultation.respond"}
      [] g = "expert"                -> {"consultation.respond", "meeting.create", "meeting.start"}
      [] g \in {"founder", "member"} -> {"consultation.create"}
      [] OTHER                       -> {}

\* getPermissionsForUser: who has no role at all counts as a member.
Permissions(u) ==
    IF role[u] = {} THEN RolePermissions("member")
    ELSE UNION {RolePermissions(g) : g \in role[u]}

\* requirePermission, or a look at getPermissionsForUser.
Can(u, permission) == permission \in Permissions(u)

GrantRole(u, g) ==
    /\ g \notin role[u]
    /\ role' = [role EXCEPT ![u] = @ \cup {g}]
    /\ UNCHANGED <<consultation, message, room, participant, told, callVars, history>>

-----------------------------------------------------------------------------
(* Calls *)

GoTo(r, label, a) ==
    /\ pc'  = [pc  EXCEPT ![r] = label]
    /\ arg' = [arg EXCEPT ![r] = a]

Step(r, label) == GoTo(r, label, arg[r])
Return(r)      == GoTo(r, "idle", NoArg)

Begin(r, label, a) == pc[r] = "idle" /\ GoTo(r, label, a)

-----------------------------------------------------------------------------
(* Consultations *)

\* The row is new: no other call can come between the check and the insert.
CreateConsultation(r, u, c) ==
    /\ pc[r] = "idle"
    /\ consultation[c] = NoConsultation
    /\ Can(u, "consultation.create")
    /\ consultation' = [consultation EXCEPT ![c] =
           [requester |-> u, expert |-> None, status |-> "submitted"]]
    /\ UNCHANGED <<role, message, room, participant, told, callVars, history>>

CanAccess(u, c) ==
    \/ u \in {consultation[c].requester, consultation[c].expert}
    \/ Can(u, "consultation.read.any")

\* The page of a consultation, and the list of those a user may open.
GetConsultation(u, c) == consultation[c] # NoConsultation /\ CanAccess(u, c)

ListConsultations(u) ==
    {c \in Consultations :
        /\ consultation[c] # NoConsultation
        /\ \/ Can(u, "consultation.read.any")
           \/ consultation[c].requester = u
           \/ consultation[c].expert = u}

\* listEligibleConsultationExperts, offered to who assigns.
EligibleExperts == {u \in Users : Can(u, "consultation.respond")}

AddMessage(r, u, c, kind) ==
    /\ consultation[c].status \notin {"none", "closed", "cancelled"}
    /\ CanAccess(u, c)
    /\ kind = "deliverable" =>
           consultation[c].expert = u \/ Can(u, "consultation.manage")
    /\ kind = "feedback" => consultation[c].requester = u
    /\ Begin(r, "insertMessage", [NoArg EXCEPT !.user = u, !.on = c, !.kind = kind])
    /\ UNCHANGED <<rows, history>>

\* The consultation may have been closed, or handed on, since it was read.
InsertMessage(r) ==
    /\ pc[r] = "insertMessage"
    /\ message' = message \cup {[on |-> arg[r].on, author |-> arg[r].user, kind |-> arg[r].kind]}
    /\ Return(r)
    /\ UNCHANGED <<role, consultation, room, participant, told, history>>

\* Whatever the status was; the expert may be the requester.
Assign(r, u, c, x) ==
    /\ Can(u, "consultation.assign")
    /\ consultation[c] # NoConsultation
    /\ Can(x, "consultation.respond")
    /\ consultation' = [consultation EXCEPT ![c].expert = x, ![c].status = "assigned"]
    /\ served' = [served EXCEPT ![c] = @ \cup {x}]
    /\ Begin(r, "tellRequester", [NoArg EXCEPT !.user = u, !.on = c, !.expert = x])
    /\ UNCHANGED <<role, message, room, participant, told, died>>

\* notifyDomainEvent sends once under a key.
Tell(c, as, u) ==
    told' = [told EXCEPT ![c][as] = IF @ = None THEN u ELSE @]

\* Mutant: who assigns the consultation to himself tells no one.
TellRequesterOfOthers(r) ==
    LET c == arg[r].on IN
    /\ pc[r] = "tellRequester"
    /\ IF arg[r].expert = arg[r].user THEN UNCHANGED told
       ELSE Tell(c, "requester", consultation[c].requester)
    /\ IF arg[r].expert = arg[r].user THEN Return(r) ELSE Step(r, "tellExpert")
    /\ UNCHANGED <<role, consultation, message, room, participant, history>>

TellRequester(r) ==
    LET c == arg[r].on IN
    /\ pc[r] = "tellRequester"
    /\ Tell(c, "requester", consultation[c].requester)
    /\ IF arg[r].expert = arg[r].user THEN Return(r) ELSE Step(r, "tellExpert")
    /\ UNCHANGED <<role, consultation, message, room, participant, history>>

TellExpert(r) ==
    /\ pc[r] = "tellExpert"
    /\ Tell(arg[r].on, "expert", arg[r].expert)
    /\ Return(r)
    /\ UNCHANGED <<role, consultation, message, room, participant, history>>

UpdateConsultation(r, u, c, to) ==
    /\ consultation[c] # NoConsultation
    /\ \/ consultation[c].expert = u /\ Can(u, "consultation.respond")
       \/ consultation[c].requester = u /\ to = "cancelled"
       \/ Can(u, "consultation.manage")
    /\ Begin(r, "setConsultation", [NoArg EXCEPT !.user = u, !.on = c, !.to = to])
    /\ UNCHANGED <<rows, history>>

SetConsultation(r) ==
    /\ pc[r] = "setConsultation"
    /\ consultation' = [consultation EXCEPT ![arg[r].on].status = arg[r].to]
    /\ Return(r)
    /\ UNCHANGED <<role, message, room, participant, told, history>>

-----------------------------------------------------------------------------
(* Meetings *)

\* On a consultation, or on none.
CreateMeeting(r, u, c, m) ==
    /\ room[m] = NoRoom
    /\ Can(u, "meeting.create")
    /\ c # None =>
           /\ consultation[c] # NoConsultation
           /\ consultation[c].expert = u \/ Can(u, "meeting.manage")
    /\ \A q \in Requests : arg[q].meeting # m
    /\ Begin(r, "insertRoom",
             [NoArg EXCEPT !.user = u, !.on = c, !.meeting = m,
                           !.requester = IF c = None THEN None ELSE consultation[c].requester,
                           !.expert    = IF c = None THEN None ELSE consultation[c].expert])
    /\ UNCHANGED <<rows, history>>

InsertRoom(r) ==
    /\ pc[r] = "insertRoom"
    /\ room' = [room EXCEPT ![arg[r].meeting] =
           [consultation |-> arg[r].on, creator |-> arg[r].user, status |-> "scheduled"]]
    /\ Step(r, "insertParticipants")
    /\ UNCHANGED <<role, consultation, message, participant, told, history>>

\* Mutant: the expert is set before the requester.
InviteeExpertFirst(a, u) ==
    IF u = a.requester THEN "attendee"
    ELSE IF u \in {a.expert, a.user} THEN "host" ELSE "none"

\* The Map of participants: a later entry replaces an earlier one.
Invitee(a, u) ==
    IF u = a.requester /\ u # a.expert THEN "attendee"
    ELSE IF u \in {a.expert, a.user} THEN "host" ELSE "none"

InsertParticipants(r) ==
    /\ pc[r] = "insertParticipants"
    /\ participant' = [participant EXCEPT ![arg[r].meeting] =
           [u \in Users |-> Invitee(arg[r], u)]]
    /\ Return(r)
    /\ UNCHANGED <<role, consultation, message, room, told, history>>

IsHost(u, m) == participant[m][u] \in {"host", "host joined"} \/ Can(u, "meeting.manage")

ListMeetings(u) ==
    {m \in Meetings : room[m] # NoRoom /\ (Can(u, "meeting.manage") \/ participant[m][u] # "none")}

HasAccess(u, m) == participant[m][u] # "none" \/ Can(u, "meeting.manage")

\* buildMeetingJoinSession: who is let into the provider's room as its moderator.
Moderates(u, m) ==
    /\ Ready
    /\ room[m].status \in {"scheduled", "live"}
    /\ HasAccess(u, m)
    /\ IsHost(u, m)

\* markMeetingJoined: a manager who is not a participant has no row to update.
MarkJoined(r, u, m) ==
    /\ room[m].status \in {"scheduled", "live"}
    /\ HasAccess(u, m)
    /\ Begin(r, "join", [NoArg EXCEPT !.user = u, !.meeting = m])
    /\ UNCHANGED <<rows, history>>

Join(r) ==
    LET m == arg[r].meeting
        u == arg[r].user
    IN
    /\ pc[r] = "join"
    /\ participant' = [participant EXCEPT ![m][u] =
           CASE @ = "host"     -> "host joined"
             [] @ = "attendee" -> "attendee joined"
             [] OTHER          -> @]
    /\ Return(r)
    /\ UNCHANGED <<role, consultation, message, room, told, history>>

\* LIFECYCLE; its column of permissions is not what the code asks for.
From(to) == IF to = "live" THEN {"scheduled"} ELSE {"scheduled", "live"}

MayMove(u, m, to) ==
    /\ IsHost(u, m)
    /\ room[m].status \in From(to)
    /\ IF to = "live" THEN Can(u, "meeting.start")
       ELSE \E p \in {"meeting.manage", "meeting.start"} : Can(u, p)

UpdateMeeting(r, u, m, to) ==
    /\ MayMove(u, m, to)
    /\ Begin(r, "setMeeting", [NoArg EXCEPT !.user = u, !.meeting = m, !.to = to])
    /\ UNCHANGED <<rows, history>>

\* UPDATE ... WHERE id only.
SetMeeting(r) ==
    /\ pc[r] = "setMeeting"
    /\ room' = [room EXCEPT ![arg[r].meeting].status = arg[r].to]
    /\ Return(r)
    /\ UNCHANGED <<role, consultation, message, participant, told, history>>

\* What the page of a meeting offers: canStart, canComplete, canCancel.
Offers(u, m, to) ==
    /\ IsHost(u, m)
    /\ CASE to = "live"      -> room[m].status = "scheduled" /\ Can(u, "meeting.start")
         [] to = "completed" -> room[m].status = "live"
         [] to = "cancelled" -> room[m].status \in {"scheduled", "live"}
    /\ \E p \in {"meeting.manage", "meeting.start"} : Can(u, p)

-----------------------------------------------------------------------------

ConsultationCalls(r) ==
    \E u \in Users, c \in Consultations :
        \/ CreateConsultation(r, u, c)
        \/ \E kind \in MessageKinds : AddMessage(r, u, c, kind)
        \/ \E x \in Users : Assign(r, u, c, x)
        \/ \E to \in {"in_progress", "completed", "closed", "cancelled"} :
               UpdateConsultation(r, u, c, to)

MeetingCalls(r) ==
    \E u \in Users, m \in Meetings :
        \/ \E c \in Consultations \cup {None} : CreateMeeting(r, u, c, m)
        \/ MarkJoined(r, u, m)
        \/ \E to \in {"live", "completed", "cancelled"} : UpdateMeeting(r, u, m, to)

Continue(r) ==
    \/ InsertMessage(r) \/ TellRequester(r) \/ TellExpert(r) \/ SetConsultation(r)
    \/ InsertRoom(r) \/ InsertParticipants(r) \/ Join(r) \/ SetMeeting(r)

\* A request dies, or one of its statements throws.
Crash(r) ==
    /\ pc[r] # "idle"
    /\ died' = died \cup (CASE pc[r] \in {"tellRequester", "tellExpert"} -> {arg[r].on}
                            [] pc[r] = "insertParticipants"             -> {arg[r].meeting}
                            [] OTHER                                    -> {})
    /\ Return(r)
    /\ UNCHANGED <<rows, served>>

\* MaxCalls is a bound of the model, not of the code.
Next ==
    \/ /\ calls < MaxCalls
       /\ calls' = calls + 1
       /\ \/ \E r \in Requests : ConsultationCalls(r) \/ MeetingCalls(r)
          \/ \E u \in Users, g \in Granted : GrantRole(u, g)
    \/ \E r \in Requests : (Continue(r) \/ Crash(r)) /\ UNCHANGED calls

Spec == Init /\ [][Next]_vars

-----------------------------------------------------------------------------
(* Properties *)

\* createMeeting against updateMeetingStatus and the meeting's page: who
\* scheduled a meeting finds it and is offered to start it and to cancel it,
\* whatever the consultation's requester and expert are and become; what a page
\* offers to anyone the call accepts; and who starts a meeting, or ends it,
\* moderates its room.
CreatorMayRunIt ==
    \A m \in Meetings :
        LET u == room[m].creator
            written == \A r \in Requests : pc[r] = "insertParticipants" => arg[r].meeting # m
        IN
        /\ room[m].status = "scheduled" /\ m \notin died /\ written =>
               m \in ListMeetings(u) /\ Offers(u, m, "live") /\ Offers(u, m, "cancelled")
        /\ \A v \in Users, to \in {"live", "completed", "cancelled"} :
               Offers(v, m, to) => MayMove(v, m, to) /\ (Ready => Moderates(v, m))

\* assignConsultation: the requester of a consultation that was ever assigned has
\* been told, and no one else in his place, unless the call that would have told
\* him died or goes on; and the link he was sent opens.  Who was told that it is
\* his to answer is one it was assigned to.  Who is its expert now finds it and
\* may answer, whoever had it before.
AssignmentsAreTold ==
    \A c \in Consultations :
        /\ told[c].requester \in {None, consultation[c].requester}
        /\ /\ c \notin died /\ served[c] # {}
           /\ \A r \in Requests : pc[r] \in {"tellRequester", "tellExpert"} => arg[r].on # c
           => /\ told[c].requester = consultation[c].requester
              /\ GetConsultation(told[c].requester, c)
              /\ told[c].expert \in served[c] \cup {None}
        /\ consultation[c].expert # None =>
              /\ consultation[c].expert \in EligibleExperts
              /\ c \in ListConsultations(consultation[c].expert)
=============================================================================
