---------------------------- MODULE Credentials ----------------------------
(***************************************************************************)
(* Credentials: how they follow the memberships they stand for, and what   *)
(* public verification answers (src/modules/credentials/service.ts).       *)
(*                                                                         *)
(* A membership call commits first and only then brings the credential     *)
(* along, in statements of their own without a transaction: issuance runs  *)
(* issueCredentialForMembership, a status change syncCredentialWith-       *)
(* Membership.  Between them other calls, a crash or a verification may    *)
(* come.  The commits are steps of MembershipRegistry, which Membership.tla *)
(* implements.                                                             *)
(*                                                                         *)
(* Texts, tracks, history and audit rows, notifications, rate limits and   *)
(* permissions are left out; public codes are taken to be distinct, and a  *)
(* list of credentials stands for each of its rows.                        *)
(***************************************************************************)
EXTENDS Naturals

CONSTANTS Users, Types, Memberships, Requests, None

ASSUME NoneIsNothing == None \notin Users \cup Types \cup Memberships \cup Requests

VARIABLES
    memStatus, memOwner, memType,   \* memberships, as the registry has them
    ended,                          \* the memberships whose endsAt has passed
    credStatus,                     \* credentials, one per membership
    pc, arg,                        \* where each request is, and its locals
    \* History, read by properties only: the calls whose membership was active
    \* at some moment of the call; and the memberships at which a call died
    \* that owed them a credential.
    saw, dropped

memVars  == <<memStatus, memOwner, memType>>
callVars == <<pc, arg>>
vars     == <<memVars, ended, credStatus, callVars, saw, dropped>>

R == INSTANCE MembershipRegistry

CredentialStatus == {"active", "suspended", "expired", "revoked"}

\* Mutant: the public spelling is stored.
ToPublicStatus(status) ==
    CASE status = "active" -> "ACTIVE" [] status = "suspended" -> "SUSPENDED"
      [] OTHER -> "REVOKED"

\* mapMembershipStatusToCredential
MapMembershipStatus(status) ==
    IF status \in CredentialStatus THEN status ELSE "revoked"

\* Mutant: the credential's own status is trusted.
CredentialStatusAlone(credential, membership, over) ==
    IF credential # "active" THEN credential ELSE IF over THEN "expired" ELSE "active"

\* effectiveCredentialStatus
EffectiveStatus(credential, membership, over) ==
    CASE membership # "active" -> MapMembershipStatus(membership)
      [] membership = "active" /\ credential # "active" -> credential
      [] membership = "active" /\ credential = "active" /\ over -> "expired"
      [] OTHER -> "active"

Labels ==
    {"idle", "issueRead", "issueExisting", "issueInsert", "syncRead", "syncCredential",
     "write", "backfill", "backfillExisting", "backfilled",
     "verifyMembership", "verifyTime", "ownCredential", "answered"}

\* mem: the membership a call is at; to: a status to write, or the answer;
\* read: a status it has read; todo: what a backfill still has before it.
NoArg == [mem |-> None, to |-> None, read |-> None, todo |-> {}, scanned |-> {}]

Args ==
    [mem  : Memberships \cup {None},
     to   : CredentialStatus \cup {None},
     read : CredentialStatus \cup {None},
     todo : SUBSET Memberships,
     scanned : SUBSET Memberships]

Init ==
    /\ R!Init
    /\ ended = {}
    /\ credStatus = [m \in Memberships |-> "none"]
    /\ pc  = [r \in Requests |-> "idle"]
    /\ arg = [r \in Requests |-> NoArg]
    /\ saw = {}
    /\ dropped = {}

-----------------------------------------------------------------------------
(* Calls *)

GoTo(r, label, a) ==
    /\ pc'  = [pc  EXCEPT ![r] = label]
    /\ arg' = [arg EXCEPT ![r] = a]

Return(r) == GoTo(r, "idle", NoArg)

\* issueCredentialForMembership and syncCredentialWithMembership come back to
\* the backfill that called them, or end the call.
Done(r) ==
    IF arg[r].scanned # {}
    THEN GoTo(r, "backfill", [arg[r] EXCEPT !.mem = None, !.to = None, !.read = None])
    ELSE Return(r)

\* An exception also ends a backfill.
Throw(r) == Return(r)

HasCredential(m) == credStatus[m] # "none"

-----------------------------------------------------------------------------
(* issueCredentialForMembership *)

\* Mutant: no check of the membership's status.
IssueReadUnchecked(r) ==
    /\ pc[r] = "issueRead"
    /\ GoTo(r, "issueExisting", arg[r])
    /\ UNCHANGED <<memVars, ended, credStatus>>

\* Only for an active membership.
IssueRead(r) ==
    /\ pc[r] = "issueRead"
    /\ \/ memStatus[arg[r].mem] = "active" /\ GoTo(r, "issueExisting", arg[r])
       \/ memStatus[arg[r].mem] # "active" /\ Throw(r)
    /\ UNCHANGED <<memVars, ended, credStatus>>

IssueExisting(r) ==
    /\ pc[r] = "issueExisting"
    /\ \/ HasCredential(arg[r].mem) /\ Done(r)
       \/ ~HasCredential(arg[r].mem) /\ GoTo(r, "issueInsert", arg[r])
    /\ UNCHANGED <<memVars, ended, credStatus>>

\* The unique index on membership_id lets one of two inserts in; the other
\* finds the credential of the first.
IssueInsert(r) ==
    LET m == arg[r].mem IN
    /\ pc[r] = "issueInsert"
    /\ \/ /\ HasCredential(m)
          /\ Done(r)
          /\ UNCHANGED credStatus
       \/ /\ ~HasCredential(m)
          /\ credStatus' = [credStatus EXCEPT ![m] = "active"]
          /\ Done(r)
    /\ UNCHANGED <<memVars, ended>>

-----------------------------------------------------------------------------
(* syncCredentialWithMembership *)

SyncRead(r) ==
    /\ pc[r] = "syncRead"
    /\ GoTo(r, "syncCredential",
            [arg[r] EXCEPT !.read = MapMembershipStatus(memStatus[arg[r].mem])])
    /\ UNCHANGED <<memVars, ended, credStatus>>

\* Mutant: a membership without a credential is left without one.
SyncOnlyExisting(r) ==
    /\ pc[r] = "syncCredential"
    /\ \/ ~HasCredential(arg[r].mem) /\ Return(r)
       \/ HasCredential(arg[r].mem) /\ GoTo(r, "write", [arg[r] EXCEPT !.to = arg[r].read])
    /\ UNCHANGED <<memVars, ended, credStatus>>

\* A missing credential is issued if the membership was read as active.
SyncCredential(r) ==
    LET m == arg[r].mem IN
    /\ pc[r] = "syncCredential"
    /\ \/ ~HasCredential(m) /\ arg[r].read = "active" /\ GoTo(r, "issueRead", arg[r])
       \/ ~HasCredential(m) /\ arg[r].read # "active" /\ Return(r)
       \/ HasCredential(m) /\ credStatus[m] = arg[r].read /\ Return(r)
       \/ /\ HasCredential(m)
          /\ credStatus[m] # arg[r].read
          /\ GoTo(r, "write", [arg[r] EXCEPT !.to = arg[r].read])
    /\ UNCHANGED <<memVars, ended, credStatus>>

\* The UPDATE of a sync or of an administrator, WHERE id only.
Write(r) ==
    /\ pc[r] = "write"
    /\ credStatus' = [credStatus EXCEPT ![arg[r].mem] = arg[r].to]
    /\ Done(r)
    /\ UNCHANGED <<memVars, ended>>

-----------------------------------------------------------------------------
(* The calls that begin all this *)

\* approveApplication and issueMembershipDirectly, from their commit on.
IssueMembership(r, m, u, t) ==
    /\ pc[r] = "idle"
    /\ R!Issue(m, u, t)
    /\ GoTo(r, "issueRead", [NoArg EXCEPT !.mem = m])
    /\ UNCHANGED <<ended, credStatus>>

\* suspendMembership and revokeMembership, from their commit on.
DeactivateMembership(r, m, to) ==
    /\ pc[r] = "idle"
    /\ R!Deactivate(m, to)
    /\ GoTo(r, "syncRead", [NoArg EXCEPT !.mem = m])
    /\ UNCHANGED <<ended, credStatus>>

\* reactivateMembership, from its commit on.
ReactivateMembership(r, m) ==
    /\ pc[r] = "idle"
    /\ R!Reactivate(m)
    /\ GoTo(r, "syncRead", [NoArg EXCEPT !.mem = m])
    /\ UNCHANGED <<ended, credStatus>>

AdminIssueCredential(r, m) ==
    /\ pc[r] = "idle"
    /\ memStatus[m] # "none"
    /\ GoTo(r, "issueRead", [NoArg EXCEPT !.mem = m])
    /\ UNCHANGED <<memVars, ended, credStatus>>

\* changeCredentialStatus: an unchanged status ends the call.
ChangeCredentialStatus(r, m, to) ==
    /\ pc[r] = "idle"
    /\ HasCredential(m)
    /\ credStatus[m] # to
    /\ GoTo(r, "write", [NoArg EXCEPT !.mem = m, !.to = to])
    /\ UNCHANGED <<memVars, ended, credStatus>>

AdminSuspendCredential(r, m) == ChangeCredentialStatus(r, m, "suspended")
AdminRevokeCredential(r, m)  == ChangeCredentialStatus(r, m, "revoked")

\* backfillCredentials reads the active memberships ...
BackfillCredentials(r) ==
    LET active == {m \in Memberships : memStatus[m] = "active"} IN
    /\ pc[r] = "idle"
    /\ active # {}
    /\ GoTo(r, "backfill", [NoArg EXCEPT !.todo = active, !.scanned = active])
    /\ UNCHANGED <<memVars, ended, credStatus>>

\* ... and takes them one by one: a credential that exists is skipped, a
\* missing one is issued.
BackfillNext(r) ==
    /\ pc[r] = "backfill"
    /\ \/ \E m \in arg[r].todo :
            GoTo(r, "backfillExisting", [arg[r] EXCEPT !.mem = m, !.todo = @ \ {m}])
       \/ arg[r].todo = {} /\ GoTo(r, "backfilled", arg[r])
    /\ UNCHANGED <<memVars, ended, credStatus>>

BackfillExisting(r) ==
    /\ pc[r] = "backfillExisting"
    /\ \/ HasCredential(arg[r].mem) /\ Done(r)
       \/ ~HasCredential(arg[r].mem) /\ GoTo(r, "issueRead", arg[r])
    /\ UNCHANGED <<memVars, ended, credStatus>>

-----------------------------------------------------------------------------
(* What is shown of a credential *)

\* The credential is read, then its membership, then the clock.
ReadCredential(r, m) ==
    /\ pc[r] = "idle"
    /\ HasCredential(m)
    /\ GoTo(r, "verifyMembership", [NoArg EXCEPT !.mem = m, !.read = credStatus[m]])
    /\ UNCHANGED <<memVars, ended, credStatus>>

VerifyPublicCode(r, m)      == ReadCredential(r, m)
GetCredentialForAdmin(r, m) == ReadCredential(r, m)

VerifyMembership(r) ==
    /\ pc[r] = "verifyMembership"
    /\ GoTo(r, "verifyTime",
            [arg[r] EXCEPT !.to = MapMembershipStatus(memStatus[arg[r].mem])])
    /\ UNCHANGED <<memVars, ended, credStatus>>

VerifyTime(r) ==
    /\ pc[r] = "verifyTime"
    /\ GoTo(r, "answered",
            [arg[r] EXCEPT !.to =
                EffectiveStatus(arg[r].read, arg[r].to, arg[r].mem \in ended)])
    /\ UNCHANGED <<memVars, ended, credStatus>>

\* The holder's own list reads the membership first; one without a credential
\* is passed over.
ListOwnCredentials(r, m) ==
    /\ pc[r] = "idle"
    /\ memStatus[m] # "none"
    /\ GoTo(r, "ownCredential", [NoArg EXCEPT !.mem = m, !.to = MapMembershipStatus(memStatus[m])])
    /\ UNCHANGED <<memVars, ended, credStatus>>

OwnCredential(r) ==
    /\ pc[r] = "ownCredential"
    /\ \/ ~HasCredential(arg[r].mem) /\ Return(r)
       \/ /\ HasCredential(arg[r].mem)
          /\ GoTo(r, "verifyTime", [arg[r] EXCEPT !.read = credStatus[arg[r].mem]])
    /\ UNCHANGED <<memVars, ended, credStatus>>

Finish(r) ==
    /\ pc[r] \in {"answered", "backfilled"}
    /\ Return(r)
    /\ UNCHANGED <<memVars, ended, credStatus>>

\* What the calls of the membership service go on to, and the script that
\* makes up for it.
MembershipCalls(r) ==
    \/ \E m \in Memberships :
        \/ \E u \in Users, t \in Types : IssueMembership(r, m, u, t)
        \/ \E to \in {"suspended", "revoked"} : DeactivateMembership(r, m, to)
        \/ ReactivateMembership(r, m)
    \/ BackfillCredentials(r)

AdministratorCalls(r) ==
    \E m \in Memberships :
        \/ AdminIssueCredential(r, m)
        \/ AdminSuspendCredential(r, m)
        \/ AdminRevokeCredential(r, m)
        \/ GetCredentialForAdmin(r, m)

Pages(r) ==
    \E m \in Memberships : VerifyPublicCode(r, m) \/ ListOwnCredentials(r, m)

Begin(r) == MembershipCalls(r) \/ AdministratorCalls(r) \/ Pages(r)

Continue(r) ==
    \/ IssueRead(r) \/ IssueExisting(r) \/ IssueInsert(r)
    \/ SyncRead(r) \/ SyncCredential(r) \/ Write(r)
    \/ BackfillNext(r) \/ BackfillExisting(r)
    \/ VerifyMembership(r) \/ OwnCredential(r) \/ VerifyTime(r) \/ Finish(r)

\* The process dies: every statement so far stays.
Crash(r) ==
    /\ pc[r] # "idle"
    /\ Return(r)
    /\ UNCHANGED <<memVars, ended, credStatus>>

\* endsAt passes.
Expire(m) ==
    /\ memStatus[m] # "none"
    /\ m \notin ended
    /\ ended' = ended \cup {m}
    /\ UNCHANGED <<memVars, credStatus, callVars>>

-----------------------------------------------------------------------------

\* The labels at which a membership call still owes its credential.
Owing == {"issueRead", "issueExisting", "issueInsert", "syncRead", "syncCredential"}

\* The membership a call is at is active after the step.
SeesMember(r) == LET m == arg'[r].mem IN m # None /\ memStatus'[m] = "active"

Observe ==
    saw' = {r \in Requests : SeesMember(r) \/ (r \in saw /\ arg'[r].mem = arg[r].mem)}

Next ==
    /\ \/ \E r \in Requests : (Begin(r) \/ Continue(r)) /\ UNCHANGED dropped
       \/ \E r \in Requests :
            /\ Crash(r)
            /\ dropped' = IF pc[r] \in Owing THEN dropped \cup {arg[r].mem} ELSE dropped
       \/ \E m \in Memberships : Expire(m) /\ UNCHANGED dropped
    /\ Observe

Spec == Init /\ [][Next]_vars

\* The event loop runs every continuation, and no statement of these calls
\* waits for another's.
Fairness == \A r \in Requests : WF_vars(Continue(r) /\ UNCHANGED dropped /\ Observe)

FairSpec == Spec /\ Fairness

-----------------------------------------------------------------------------
(* Properties *)

TypeOK ==
    /\ memStatus  \in [Memberships -> {"none", "active", "suspended", "revoked"}]
    /\ memOwner   \in [Memberships -> Users \cup {None}]
    /\ memType    \in [Memberships -> Types \cup {None}]
    /\ ended \cup dropped \subseteq Memberships
    /\ credStatus \in [Memberships -> CredentialStatus \cup {"none"}]
    /\ pc  \in [Requests -> Labels]
    /\ arg \in [Requests -> Args]
    /\ saw \subseteq Requests

\* Public verification, the holder's list and the administrator's page say
\* ACTIVE only of a membership that was active at some moment of the call,
\* however far its credential lags behind: a suspension counts from its commit,
\* and also when the call then crashes.
VerifiedActiveWasMember ==
    \A r \in Requests : pc[r] = "answered" /\ arg[r].to = "active" => r \in saw

\* No credential becomes active unless its membership was active at some moment
\* of the call that writes it.
ActivationWasEarned ==
    [][\A m \in Memberships :
          credStatus[m] # "active" /\ credStatus'[m] = "active" =>
              \E r \in saw : arg[r].mem = m]_vars

\* A membership that stays active gets its credential, unless the process died
\* over it.
EveryActiveMembershipIsCredentialed ==
    \A m \in Memberships :
        memStatus[m] = "active" ~>
            HasCredential(m) \/ memStatus[m] # "active" \/ m \in dropped
=============================================================================
