---------------------------- MODULE Volunteering ----------------------------
(***************************************************************************)
(* Volunteer opportunities, the applications to them and the places they   *)
(* have (src/modules/volunteering/service.ts), as the calls that server    *)
(* requests make on the database, a statement at a time.                   *)
(*                                                                         *)
(* Only an acceptance runs in a transaction: it locks the opportunity's    *)
(* row, counts the participations, and inserts one more.  The row lock     *)
(* keeps back other acceptances, updates of the opportunity, and the       *)
(* foreign key of a new application; it keeps back no other decision on    *)
(* the application, which was read before the transaction began.  What     *)
(* the transaction writes is seen at its commit, so its writes are one     *)
(* step.                                                                   *)
(*                                                                         *)
(* The unique indexes of applications and participations are on            *)
(* <<opportunity, user>>, and that pair is a row's key here; the status    *)
(* "none" is that of a row not inserted.  Volunteers have an active        *)
(* profile and reviewers are others than the applicant; deadlines,         *)
(* texts, attendance rows, audit rows (on connections of their own, see    *)
(* Membership) and notifications are left out.                             *)
(***************************************************************************)
EXTENDS Naturals, FiniteSets

CONSTANTS Users, Opportunities, Requests, None,
          MaxParticipants, Unlimited   \* Unlimited: max_participants is null

ASSUME UsersFinite == IsFiniteSet(Users)
ASSUME NoneIsNoRequest == None \notin Requests
ASSUME MaxParticipantsType ==
    /\ Unlimited \notin Nat
    /\ MaxParticipants \in [Opportunities -> Nat \cup {Unlimited}]

Keys == Opportunities \X Users

VARIABLES
    oppStatus,     \* volunteer_opportunities
    appStatus,     \* volunteer_opportunity_applications
    partStatus,    \* volunteer_participations
    lock,          \* the transaction that holds an opportunity's row
    pc, arg        \* where each request is, and its locals

tables   == <<oppStatus, appStatus, partStatus>>
callVars == <<pc, arg>>
vars     == <<tables, lock, callVars>>

OpportunityStatus ==
    {"draft", "published", "applications_closed", "in_progress",
     "completed", "cancelled", "archived"}

\* OPPORTUNITY_TRANSITIONS
OpportunityMay(from, to) ==
    <<from, to>> \in
        {<<"draft", "published">>, <<"draft", "cancelled">>,
         <<"published", "applications_closed">>, <<"published", "in_progress">>,
         <<"published", "cancelled">>,
         <<"applications_closed", "in_progress">>, <<"applications_closed", "cancelled">>,
         <<"in_progress", "completed">>, <<"in_progress", "cancelled">>,
         <<"completed", "archived">>, <<"cancelled", "archived">>}

ApplicationStatus ==
    {"submitted", "under_review", "accepted", "rejected", "withdrawn", "waitlisted"}

\* APPLICATION_TRANSITIONS
ApplicationMay(from, to) ==
    <<from, to>> \in
        {<<"submitted", "under_review">>, <<"submitted", "withdrawn">>,
         <<"under_review", "accepted">>, <<"under_review", "rejected">>,
         <<"under_review", "waitlisted">>, <<"under_review", "withdrawn">>,
         <<"waitlisted", "accepted">>, <<"waitlisted", "rejected">>,
         <<"waitlisted", "withdrawn">>}

Decisions == {"accepted", "rejected", "waitlisted"}

\* The participation statuses some code writes.
ParticipationStatus == {"accepted", "active"}

Labels ==
    {"idle", "writeOpportunity", "checkDuplicate", "insertApplication", "withdraw",
     "moveToReview", "reread", "decide", "lockOpportunity", "count", "accept", "attend"}

NoArg == [opp |-> None, user |-> None, to |-> None]

Init ==
    /\ oppStatus  = [o \in Opportunities |-> "none"]
    /\ appStatus  = [k \in Keys |-> "none"]
    /\ partStatus = [k \in Keys |-> "none"]
    /\ lock = [o \in Opportunities |-> None]
    /\ pc   = [r \in Requests |-> "idle"]
    /\ arg  = [r \in Requests |-> NoArg]

GoTo(r, label, a) ==
    /\ pc'  = [pc  EXCEPT ![r] = label]
    /\ arg' = [arg EXCEPT ![r] = a]

Return(r) == GoTo(r, "idle", NoArg)

Begin(r, label, o, u, to) ==
    /\ pc[r] = "idle"
    /\ GoTo(r, label, [opp |-> o, user |-> u, to |-> to])
    /\ UNCHANGED <<tables, lock>>

Key(r) == <<arg[r].opp, arg[r].user>>

\* The transaction of r ends, and its row lock with it.
ReleaseLock(r) == lock' = [o \in Opportunities |-> IF lock[o] = r THEN None ELSE lock[o]]

-----------------------------------------------------------------------------
(* createOpportunity, transitionOpportunity *)

CreateOpportunity(r, o) ==
    /\ pc[r] = "idle"
    /\ oppStatus[o] = "none"
    /\ oppStatus' = [oppStatus EXCEPT ![o] = "draft"]
    /\ UNCHANGED <<appStatus, partStatus, lock, callVars>>

TransitionOpportunity(r, o, to) ==
    /\ OpportunityMay(oppStatus[o], to)
    /\ Begin(r, "writeOpportunity", o, None, to)

WriteOpportunity(r) ==
    LET o == arg[r].opp IN
    /\ pc[r] = "writeOpportunity"
    /\ lock[o] = None
    /\ oppStatus' = [oppStatus EXCEPT ![o] = arg[r].to]
    /\ Return(r)
    /\ UNCHANGED <<appStatus, partStatus, lock>>

-----------------------------------------------------------------------------
(* applyToOpportunity, withdrawApplication *)

ApplyToOpportunity(r, o, u) ==
    /\ oppStatus[o] = "published"
    /\ Begin(r, "checkDuplicate", o, u, None)

CheckDuplicate(r) ==
    /\ pc[r] = "checkDuplicate"
    /\ IF appStatus[Key(r)] # "none"
       THEN Return(r)
       ELSE GoTo(r, "insertApplication", arg[r])
    /\ UNCHANGED <<tables, lock>>

\* The unique index refuses a second application; the foreign key of a first
\* one waits for the opportunity's row.
InsertApplication(r) ==
    /\ pc[r] = "insertApplication"
    /\ \/ /\ appStatus[Key(r)] # "none"
          /\ UNCHANGED appStatus
       \/ /\ appStatus[Key(r)] = "none"
          /\ lock[arg[r].opp] = None
          /\ appStatus' = [appStatus EXCEPT ![Key(r)] = "submitted"]
    /\ Return(r)
    /\ UNCHANGED <<oppStatus, partStatus, lock>>

WithdrawApplication(r, o, u) ==
    /\ ApplicationMay(appStatus[<<o, u>>], "withdrawn")
    /\ Begin(r, "withdraw", o, u, "withdrawn")

-----------------------------------------------------------------------------
(* reviewApplication *)

\* What it reads first only decides whether to move the application to
\* under_review.
ReviewApplication(r, o, u, decision) ==
    /\ appStatus[<<o, u>>] # "none"
    /\ Begin(r, IF appStatus[<<o, u>>] = "submitted" THEN "moveToReview" ELSE "reread",
             o, u, decision)

MoveToReview(r) ==
    /\ pc[r] = "moveToReview"
    /\ appStatus' = [appStatus EXCEPT ![Key(r)] = "under_review"]
    /\ GoTo(r, "reread", arg[r])
    /\ UNCHANGED <<oppStatus, partStatus, lock>>

\* Mutant: every decision is the one UPDATE.
RereadOneWay(r) ==
    /\ pc[r] = "reread"
    /\ IF ApplicationMay(appStatus[Key(r)], arg[r].to)
       THEN GoTo(r, "decide", arg[r]) ELSE Return(r)
    /\ UNCHANGED <<tables, lock>>

Reread(r) ==
    /\ pc[r] = "reread"
    /\ \/ /\ ~ApplicationMay(appStatus[Key(r)], arg[r].to)
          /\ Return(r)
       \/ /\ ApplicationMay(appStatus[Key(r)], arg[r].to)
          /\ GoTo(r, IF arg[r].to = "accepted" THEN "lockOpportunity" ELSE "decide", arg[r])
    /\ UNCHANGED <<tables, lock>>

\* The unconditional UPDATE that ends a withdrawal, a rejection and a place on
\* the waiting list.
Decide(r) ==
    /\ pc[r] \in {"withdraw", "decide"}
    /\ appStatus' = [appStatus EXCEPT ![Key(r)] = arg[r].to]
    /\ Return(r)
    /\ UNCHANGED <<oppStatus, partStatus, lock>>

\* Mutant: the row is read, not locked.
ReadOpportunity(r) ==
    /\ pc[r] = "lockOpportunity"
    /\ GoTo(r, "count", arg[r])
    /\ UNCHANGED <<tables, lock>>

\* SELECT ... FOR UPDATE
LockOpportunity(r) ==
    /\ pc[r] = "lockOpportunity"
    /\ lock[arg[r].opp] = None
    /\ lock' = [lock EXCEPT ![arg[r].opp] = r]
    /\ GoTo(r, "count", arg[r])
    /\ UNCHANGED tables

\* countAcceptedParticipants
Participants(o) == {u \in Users : partStatus[<<o, u>>] \in ParticipationStatus}

Full(o) ==
    /\ MaxParticipants[o] # Unlimited
    /\ Cardinality(Participants(o)) >= MaxParticipants[o]

Count(r) ==
    /\ pc[r] = "count"
    /\ \/ /\ Full(arg[r].opp)
          /\ ReleaseLock(r)
          /\ Return(r)
       \/ /\ ~Full(arg[r].opp)
          /\ GoTo(r, "accept", arg[r])
          /\ UNCHANGED lock
    /\ UNCHANGED tables

\* The application's UPDATE, the participation's INSERT and the COMMIT.  The
\* unique index refuses a second participation, and everything is rolled back.
Accept(r) ==
    /\ pc[r] = "accept"
    /\ \/ /\ partStatus[Key(r)] # "none"
          /\ UNCHANGED <<appStatus, partStatus>>
       \/ /\ partStatus[Key(r)] = "none"
          /\ appStatus'  = [appStatus  EXCEPT ![Key(r)] = "accepted"]
          /\ partStatus' = [partStatus EXCEPT ![Key(r)] = "accepted"]
    /\ ReleaseLock(r)
    /\ Return(r)
    /\ UNCHANGED oppStatus

-----------------------------------------------------------------------------
(* recordAttendance *)

\* Mutant: the attendance is taken for the status.
RecordAttendanceAsStatus(r, o, u, attended) ==
    /\ partStatus[<<o, u>>] # "none"
    /\ Begin(r, "attend", o, u, IF attended THEN "attended" ELSE "absent")

\* A volunteer who attended is active; any other record writes back the status
\* that was read.
RecordAttendance(r, o, u, attended) ==
    /\ partStatus[<<o, u>>] # "none"
    /\ Begin(r, "attend", o, u, IF attended THEN "active" ELSE partStatus[<<o, u>>])

Attend(r) ==
    /\ pc[r] = "attend"
    /\ partStatus' = [partStatus EXCEPT ![Key(r)] = arg[r].to]
    /\ Return(r)
    /\ UNCHANGED <<oppStatus, appStatus, lock>>

-----------------------------------------------------------------------------

\* The process dies, or the database is lost, at any statement.
Crash(r) ==
    /\ pc[r] # "idle"
    /\ ReleaseLock(r)
    /\ Return(r)
    /\ UNCHANGED tables

\* The server actions, by whom they let in.
OrganizerCalls(r) ==
    \E o \in Opportunities :
        \/ CreateOpportunity(r, o)
        \/ \E to \in OpportunityStatus : TransitionOpportunity(r, o, to)

VolunteerCalls(r) ==
    \E o \in Opportunities, u \in Users :
        ApplyToOpportunity(r, o, u) \/ WithdrawApplication(r, o, u)

ReviewerCalls(r) ==
    \E o \in Opportunities, u \in Users, decision \in Decisions :
        ReviewApplication(r, o, u, decision)

AttendanceCalls(r) ==
    \E o \in Opportunities, u \in Users, attended \in BOOLEAN :
        RecordAttendance(r, o, u, attended)

Call(r) ==
    \/ OrganizerCalls(r)
    \/ VolunteerCalls(r)
    \/ ReviewerCalls(r)
    \/ AttendanceCalls(r)

Continue(r) ==
    \/ WriteOpportunity(r)
    \/ CheckDuplicate(r)
    \/ InsertApplication(r)
    \/ MoveToReview(r)
    \/ Reread(r)
    \/ Decide(r)
    \/ LockOpportunity(r)
    \/ Count(r)
    \/ Accept(r)
    \/ Attend(r)

Next == \E r \in Requests : Call(r) \/ Continue(r) \/ Crash(r)

Spec == Init /\ [][Next]_vars

-----------------------------------------------------------------------------
(* Properties *)

\* What a request holds between its statements: a place it is at, and the
\* status that the statement to come writes.
Args == [opp  : Opportunities \cup {None},
         user : Users \cup {None},
         to   : OpportunityStatus \cup ApplicationStatus \cup ParticipationStatus \cup {None}]

TypeOK ==
    /\ oppStatus  \in [Opportunities -> OpportunityStatus \cup {"none"}]
    /\ appStatus  \in [Keys -> ApplicationStatus \cup {"none"}]
    /\ partStatus \in [Keys -> ParticipationStatus \cup {"none"}]
    /\ lock \in [Opportunities -> Requests \cup {None}]
    /\ pc   \in [Requests -> Labels]
    /\ arg  \in [Requests -> Args]

\* reviewApplication: an opportunity never has more participants than places,
\* however many reviewers accept applications to it at once.
PlacesNeverExceeded ==
    \A o \in Opportunities :
        MaxParticipants[o] # Unlimited =>
            Cardinality(Participants(o)) <= MaxParticipants[o]

\* reviewApplication: what the count found under the row lock, a free place, is
\* still so at the commit.
CountStillTrue ==
    \A r \in Requests : pc[r] = "accept" => ~Full(arg[r].opp)

\* reviewApplication: an accepted application has its participation, whatever
\* other decisions and crashes come in between.  (Not the converse: a decision
\* that read the application before may overwrite the acceptance.)
AcceptedHasPlace ==
    \A k \in Keys : appStatus[k] = "accepted" => partStatus[k] # "none"

\* reviewApplication: the row of an opportunity is locked only by a transaction
\* that goes on (none of its steps waits), so that nobody who wants the row, a
\* reviewer of a full opportunity included, waits for ever.
LockHeldInTransaction ==
    \A o \in Opportunities :
        lock[o] # None => /\ pc[lock[o]] \in {"count", "accept"}
                          /\ arg[lock[o]].opp = o
=============================================================================
