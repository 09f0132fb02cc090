----------------------------- MODULE Membership -----------------------------
(***************************************************************************)
(* Membership applications, issuance and status changes                    *)
(* (src/modules/membership/service.ts), as the calls that server requests  *)
(* make on the database.                                                   *)
(*                                                                         *)
(* Each `await` of a service function is a database statement of its own,  *)
(* so a call is a sequence of steps and the steps of different calls       *)
(* interleave: most functions read a row, decide, and then UPDATE it with  *)
(* WHERE id only.  issueMembershipInTx is the exception: it holds the      *)
(* application's row lock (SELECT ... FOR UPDATE) from its re-read to its   *)
(* commit, and an UPDATE of a locked row waits.                            *)
(*                                                                         *)
(* Statements run on a pool of connections (shared/db/client.ts).  One     *)
(* that may wait for a row keeps its connection while it waits, and a      *)
(* transaction keeps one from BEGIN to COMMIT; the audit rows of an        *)
(* issuance are written in mid-transaction on a second one.                *)
(*                                                                         *)
(* A table is one variable per column a property tells apart, indexed by   *)
(* the row's id; "none" is the status of a row not inserted yet.  Texts,   *)
(* tracks, dates, reviewers, audit rows and permissions are left out: the  *)
(* callers modelled are those whom requirePermission lets through, on      *)
(* enabled membership types, and a reviewer is not the applicant           *)
(* (self_approval_forbidden).  No code sets a membership to "expired".     *)
(***************************************************************************)
EXTENDS Naturals, FiniteSets

CONSTANTS Users, Types, Applications, Memberships, Requests, None, PoolSize

ASSUME NoneIsNoValue ==
    None \notin Users \cup Types \cup Applications \cup Memberships \cup Requests

ASSUME PoolNotEmpty == PoolSize \in Nat \ {0}

VARIABLES
    appStatus, appOwner, appType,            \* membership_applications
    memStatus, memOwner, memType, memApp,    \* memberships
    lock,                                    \* who holds an application's row lock
    pc, arg,                                 \* where each request is, and its locals
    conn                                     \* the requests that hold a connection

appVars  == <<appStatus, appOwner, appType>>
memVars  == <<memStatus, memOwner, memType, memApp>>
callVars == <<pc, arg, conn>>
vars     == <<appVars, memVars, lock, callVars>>

ApplicationStatus ==
    {"draft", "submitted", "under_review", "changes_requested",
     "approved", "rejected", "withdrawn"}

OpenApplicationStatus == {"draft", "submitted", "under_review", "changes_requested"}

\* APPLICATION_TRANSITIONS
CanTransition(from, to) ==
    <<from, to>> \in
        {<<"draft", "submitted">>,
         <<"submitted", "under_review">>, <<"submitted", "withdrawn">>,
         <<"under_review", "changes_requested">>, <<"under_review", "approved">>,
         <<"under_review", "rejected">>,
         <<"changes_requested", "submitted">>, <<"changes_requested", "withdrawn">>}

MembershipStatus == {"active", "suspended", "revoked"}

Labels ==
    {"idle", "createActive", "createInsert", "update", "transition",
     "lockRow", "issueInsert", "audit", "reactivateRead", "changeWrite",
     "issued", "changed"}

\* Statements that can wait for another call's transaction.
Blocking == {"update", "transition", "lockRow", "changeWrite"}

\* After its first statement a transaction still has its connection.
InTransaction == {"issueInsert", "audit"}

NoArg == [app |-> None, mem |-> None, user |-> None, type |-> None, to |-> None]

Args ==
    [app  : Applications \cup {None},
     mem  : Memberships \cup {None},
     user : Users \cup {None},
     type : Types \cup {None},
     to   : ApplicationStatus \cup MembershipStatus \cup {None}]

Init ==
    /\ appStatus = [a \in Applications |-> "none"]
    /\ appOwner  = [a \in Applications |-> None]
    /\ appType   = [a \in Applications |-> None]
    /\ memStatus = [m \in Memberships |-> "none"]
    /\ memOwner  = [m \in Memberships |-> None]
    /\ memType   = [m \in Memberships |-> None]
    /\ memApp    = [m \in Memberships |-> None]
    /\ lock      = [a \in Applications |-> None]
    /\ pc        = [r \in Requests |-> "idle"]
    /\ arg       = [r \in Requests |-> NoArg]
    /\ conn      = {}

-----------------------------------------------------------------------------
(* Rows and calls *)

Submitted(a) == appStatus[a] # "none"       \* the row exists
Issued(m)    == memStatus[m] # "none"

HasActive(u, t) ==
    \E m \in Memberships : memStatus[m] = "active" /\ memOwner[m] = u /\ memType[m] = t

\* Mutant: the index also has the application among its columns.
ActiveElsewhereWideIndex(m) ==
    \E n \in Memberships \ {m} :
        /\ memStatus[n] = "active" /\ memOwner[n] = memOwner[m]
        /\ memType[n] = memType[m] /\ memApp[n] = memApp[m]

\* The unique index memberships_one_active_per_type refuses to make m active.
ActiveElsewhere(m) ==
    \E n \in Memberships \ {m} :
        memStatus[n] = "active" /\ memOwner[n] = memOwner[m] /\ memType[n] = memType[m]

\* A connection of the pool is free, for a statement that cannot wait.
FreeConnection == Cardinality(conn) < PoolSize

\* The call goes on at a label with these locals.
GoTo(r, label, a) ==
    /\ pc'   = [pc EXCEPT ![r] = label]
    /\ arg'  = [arg EXCEPT ![r] = a]
    /\ conn' = IF label \in InTransaction THEN conn ELSE conn \ {r}

Return(r) == GoTo(r, "idle", NoArg)

\* Mutant: an early return of the transaction keeps the row lock.
KeepLocks(r) == UNCHANGED lock

\* The end of a transaction, committed or rolled back.
ReleaseLocks(r) ==
    lock' = [a \in Applications |-> IF lock[a] = r THEN None ELSE lock[a]]

\* A statement that may wait is given a connection, and keeps it.
Acquire(r) ==
    /\ pc[r] \in Blocking
    /\ r \notin conn
    /\ FreeConnection
    /\ conn' = conn \cup {r}
    /\ UNCHANGED <<appVars, memVars, lock, pc, arg>>

-----------------------------------------------------------------------------
(* The applicant's calls *)

\* createApplication up to its first read: no open application of this type.
CreateApplication(r, u, t, to) ==
    /\ pc[r] = "idle"
    /\ ~\E a \in Applications :
            appOwner[a] = u /\ appType[a] = t /\ appStatus[a] \in OpenApplicationStatus
    /\ GoTo(r, "createActive", [NoArg EXCEPT !.user = u, !.type = t, !.to = to])
    /\ UNCHANGED <<appVars, memVars, lock>>

\* Its second read: no active membership of this type.
CreateCheckActive(r) ==
    /\ pc[r] = "createActive"
    /\ FreeConnection
    /\ \/ HasActive(arg[r].user, arg[r].type) /\ Return(r)
       \/ ~HasActive(arg[r].user, arg[r].type) /\ GoTo(r, "createInsert", arg[r])
    /\ UNCHANGED <<appVars, memVars, lock>>

\* The INSERT, which no unique index guards.  Applications is the bound on
\* rows: with none left the statement fails.
CreateInsert(r) ==
    /\ pc[r] = "createInsert"
    /\ FreeConnection
    /\ \/ /\ \A a \in Applications : Submitted(a)
          /\ UNCHANGED appVars
       \/ \E a \in Applications :
            /\ ~Submitted(a)
            /\ appStatus' = [appStatus EXCEPT ![a] = arg[r].to]
            /\ appOwner'  = [appOwner  EXCEPT ![a] = arg[r].user]
            /\ appType'   = [appType   EXCEPT ![a] = arg[r].type]
    /\ Return(r)
    /\ UNCHANGED <<memVars, lock>>

\* updateOwnApplication reads an editable application ...
UpdateOwnApplication(r, a, t) ==
    /\ pc[r] = "idle"
    /\ appStatus[a] \in {"draft", "changes_requested"}
    /\ GoTo(r, "update", [NoArg EXCEPT !.app = a, !.type = t])
    /\ UNCHANGED <<appVars, memVars, lock>>

\* ... and writes its type, whatever its status is by then.
UpdateWrite(r) ==
    /\ pc[r] = "update"
    /\ r \in conn
    /\ lock[arg[r].app] = None
    /\ appType' = [appType EXCEPT ![arg[r].app] = arg[r].type]
    /\ Return(r)
    /\ UNCHANGED <<appStatus, appOwner, memVars, lock>>

\* The read half of every status change of an application outside approval:
\* the transition is checked against the status just read.
BeginTransition(r, a, to) ==
    /\ pc[r] = "idle"
    /\ Submitted(a)
    /\ CanTransition(appStatus[a], to)
    /\ GoTo(r, "transition", [NoArg EXCEPT !.app = a, !.to = to])
    /\ UNCHANGED <<appVars, memVars, lock>>

SubmitOwnApplication(r, a)   == BeginTransition(r, a, "submitted")
WithdrawOwnApplication(r, a) == BeginTransition(r, a, "withdrawn")

-----------------------------------------------------------------------------
(* The reviewer's calls *)

StartReview(r, a)       == BeginTransition(r, a, "under_review")
RequestChanges(r, a)    == BeginTransition(r, a, "changes_requested")

\* Mutant: the decision is passed through to transitionApplication, which
\* has a branch for "approved".
DecideApplication(r, a) == BeginTransition(r, a, "approved")

RejectApplication(r, a) == BeginTransition(r, a, "rejected")

\* The write half: UPDATE ... WHERE id, once no transaction holds the row.
TransitionWrite(r) ==
    /\ pc[r] = "transition"
    /\ r \in conn
    /\ lock[arg[r].app] = None
    /\ appStatus' = [appStatus EXCEPT ![arg[r].app] = arg[r].to]
    /\ Return(r)
    /\ UNCHANGED <<appOwner, appType, memVars, lock>>

\* approveApplication reads the application before its transaction: the
\* holder and the type of the membership come from this read.
ApproveApplication(r, a) ==
    /\ pc[r] = "idle"
    /\ Submitted(a)
    /\ GoTo(r, "lockRow",
            [NoArg EXCEPT !.app = a, !.user = appOwner[a], !.type = appType[a]])
    /\ UNCHANGED <<appVars, memVars, lock>>

\* issueMembershipDirectly runs the same transaction with no application.
IssueMembershipDirectly(r, u, t) ==
    /\ pc[r] = "idle"
    /\ GoTo(r, "lockRow", [NoArg EXCEPT !.user = u, !.type = t])
    /\ UNCHANGED <<appVars, memVars, lock>>

\* issueMembershipInTx refuses after its re-read: the transaction rolls back.
IssueRefused(r) ==
    LET a == arg[r].app IN
    \/ a # None /\ appStatus[a] \notin {"under_review", "approved"}
    \/ a # None /\ appStatus[a] = "approved" /\ \A m \in Memberships : memApp[m] # a
    \/ /\ a # None => appStatus[a] = "under_review"
       /\ HasActive(arg[r].user, arg[r].type)

MembershipsOf(a) == {m \in Memberships : memApp[m] = a}

TakeRowLock(r) == lock' = [a \in Applications |-> IF a = arg[r].app THEN r ELSE lock[a]]

\* The transaction's first half: take the application's row lock, read the
\* row again and look for a duplicate.  An application approved meanwhile
\* gives back the membership it has.
LockRow(r) ==
    LET a == arg[r].app IN
    /\ pc[r] = "lockRow"
    /\ r \in conn
    /\ a # None => lock[a] = None
    /\ \/ IssueRefused(r) /\ Return(r) /\ UNCHANGED lock
       \/ /\ a # None
          /\ appStatus[a] = "approved"
          /\ \E m \in MembershipsOf(a) :
                GoTo(r, "issued", [NoArg EXCEPT !.app = a, !.mem = m])
          /\ UNCHANGED lock
       \/ /\ a # None => appStatus[a] # "approved"
          /\ ~IssueRefused(r)
          /\ TakeRowLock(r)
          /\ GoTo(r, "issueInsert", arg[r])
    /\ UNCHANGED <<appVars, memVars>>

\* q has inserted a membership for this user and type and not committed.
Inserting(q, u, t) == pc[q] = "audit" /\ arg[q].user = u /\ arg[q].type = t

\* Mutant: no unique index behind the duplicate check.
RefusedWhenFull(r) == \A m \in Memberships : Issued(m)

\* The unique index refuses a second active membership.  Memberships is the
\* bound on rows: with none left the insert fails.
InsertRefused(r) ==
    \/ HasActive(arg[r].user, arg[r].type)
    \/ \A m \in Memberships : Issued(m) \/ \E q \in Requests : pc[q] = "audit" /\ arg[q].mem = m

\* The INSERT waits while another transaction has an uncommitted row of the
\* same user and type; then the index refuses it, or the row is in and the
\* transaction goes on to its audit rows.
IssueInsert(r) ==
    /\ pc[r] = "issueInsert"
    /\ \A q \in Requests : ~Inserting(q, arg[r].user, arg[r].type)
    /\ \/ InsertRefused(r) /\ Return(r) /\ ReleaseLocks(r)
       \/ /\ ~InsertRefused(r)
          /\ \E m \in Memberships :
                /\ ~Issued(m)
                /\ \A q \in Requests : pc[q] = "audit" => arg[q].mem # m
                /\ GoTo(r, "audit", [arg[r] EXCEPT !.mem = m])
          /\ UNCHANGED lock
    /\ UNCHANGED <<appVars, memVars>>

InsertMembership(r, m) ==
    /\ memStatus' = [memStatus EXCEPT ![m] = "active"]
    /\ memOwner'  = [memOwner  EXCEPT ![m] = arg[r].user]
    /\ memType'   = [memType   EXCEPT ![m] = arg[r].type]
    /\ memApp'    = [memApp    EXCEPT ![m] = arg[r].app]

\* Mutant: the membership's status written to the application.
MarkActive(a) ==
    appStatus' = [b \in Applications |-> IF b = a THEN "active" ELSE appStatus[b]]

\* Nothing to approve when the membership is issued directly (a = None).
MarkApproved(a) ==
    appStatus' = [b \in Applications |-> IF b = a THEN "approved" ELSE appStatus[b]]

\* The audit rows, on a connection of their own, and the commit, which makes
\* the membership and the approval visible.
IssueCommit(r) ==
    /\ pc[r] = "audit"
    /\ FreeConnection
    /\ InsertMembership(r, arg[r].mem)
    /\ MarkApproved(arg[r].app)
    /\ ReleaseLocks(r)
    /\ GoTo(r, "issued", [NoArg EXCEPT !.app = arg[r].app, !.mem = arg[r].mem])
    /\ UNCHANGED <<appOwner, appType>>

-----------------------------------------------------------------------------
(* The administrator's calls *)

\* changeMembershipStatus reads the membership: an unchanged status is refused.
BeginChange(r, m, to) ==
    /\ Issued(m)
    /\ memStatus[m] # to
    /\ GoTo(r, "changeWrite", [NoArg EXCEPT !.mem = m, !.to = to])
    /\ UNCHANGED <<appVars, memVars, lock>>

SuspendMembership(r, m) == pc[r] = "idle" /\ BeginChange(r, m, "suspended")
RevokeMembership(r, m)  == pc[r] = "idle" /\ BeginChange(r, m, "revoked")

\* reactivateMembership first looks for another active membership ...
ReactivateMembership(r, m) ==
    /\ pc[r] = "idle"
    /\ Issued(m)
    /\ ~ActiveElsewhere(m)
    /\ GoTo(r, "reactivateRead", [NoArg EXCEPT !.mem = m])
    /\ UNCHANGED <<appVars, memVars, lock>>

\* ... and then runs changeMembershipStatus, whose own read may refuse.
ReactivateRead(r) ==
    /\ pc[r] = "reactivateRead"
    /\ FreeConnection
    /\ \/ BeginChange(r, arg[r].mem, "active")
       \/ /\ memStatus[arg[r].mem] = "active"
          /\ Return(r)
          /\ UNCHANGED <<appVars, memVars, lock>>

\* The transaction that writes the status (and its history row): reactivation
\* waits for an uncommitted insert of the same user and type, and fails when
\* the unique index finds another active membership.
ChangeWrite(r) ==
    LET m == arg[r].mem IN
    /\ pc[r] = "changeWrite"
    /\ r \in conn
    /\ arg[r].to = "active" =>
          \A q \in Requests : ~Inserting(q, memOwner[m], memType[m])
    /\ \/ /\ arg[r].to = "active" /\ ActiveElsewhere(m)
          /\ Return(r)
          /\ UNCHANGED memStatus
       \/ /\ ~(arg[r].to = "active" /\ ActiveElsewhere(m))
          /\ memStatus' = [memStatus EXCEPT ![m] = arg[r].to]
          /\ GoTo(r, "changed", [NoArg EXCEPT !.mem = m])
    /\ UNCHANGED <<appVars, memOwner, memType, memApp, lock>>

-----------------------------------------------------------------------------
(* The end of a call *)

\* What follows the commit (credential, tracks, notification) is not of this
\* module: Credentials.tla puts the credential's part before this step.
Finish(r) ==
    /\ pc[r] \in {"issued", "changed"}
    /\ FreeConnection
    /\ Return(r)
    /\ UNCHANGED <<appVars, memVars, lock>>

\* The process or its connection dies: the transaction rolls back, what was
\* committed stays.
Crash(r) ==
    /\ pc[r] # "idle"
    /\ Return(r)
    /\ ReleaseLocks(r)
    /\ UNCHANGED <<appVars, memVars>>

\* What each may ask for (membership/actions.ts): inputs that do not parse, and
\* callers without the permission, get no further.
ApplicantCalls(r) ==
    \/ \E u \in Users, t \in Types, to \in {"draft", "submitted"} : CreateApplication(r, u, t, to)
    \/ \E a \in Applications :
        \/ \E t \in Types : UpdateOwnApplication(r, a, t)
        \/ SubmitOwnApplication(r, a)
        \/ WithdrawOwnApplication(r, a)

ReviewerCalls(r) ==
    \E a \in Applications :
        \/ StartReview(r, a)
        \/ RequestChanges(r, a)
        \/ RejectApplication(r, a)
        \/ ApproveApplication(r, a)

AdministratorCalls(r) ==
    \/ \E u \in Users, t \in Types : IssueMembershipDirectly(r, u, t)
    \/ \E m \in Memberships :
        \/ SuspendMembership(r, m)
        \/ RevokeMembership(r, m)
        \/ ReactivateMembership(r, m)

Begin(r) == ApplicantCalls(r) \/ ReviewerCalls(r) \/ AdministratorCalls(r)

Continue(r) ==
    \/ Acquire(r)
    \/ CreateCheckActive(r)
    \/ CreateInsert(r)
    \/ UpdateWrite(r)
    \/ TransitionWrite(r)
    \/ LockRow(r)
    \/ IssueInsert(r)
    \/ IssueCommit(r)
    \/ ReactivateRead(r)
    \/ ChangeWrite(r)

Step(r) ==
    \/ FreeConnection /\ Begin(r)
    \/ Continue(r)
    \/ Finish(r)
    \/ Crash(r)

Next == \E r \in Requests : Step(r)

Spec == Init /\ [][Next]_vars

\* A started call is run to its end: the event loop runs every continuation,
\* and the pool and PostgreSQL serve those who wait for a connection or a row
\* in order, so a call that finds one free again and again gets it.
Fairness == \A r \in Requests : SF_vars(Continue(r) \/ Finish(r))

FairSpec == Spec /\ Fairness

-----------------------------------------------------------------------------
(* Properties *)

TypeOK ==
    /\ appStatus \in [Applications -> ApplicationStatus \cup {"none"}]
    /\ appOwner  \in [Applications -> Users \cup {None}]
    /\ appType   \in [Applications -> Types \cup {None}]
    /\ memStatus \in [Memberships -> MembershipStatus \cup {"none"}]
    /\ memOwner  \in [Memberships -> Users \cup {None}]
    /\ memType   \in [Memberships -> Types \cup {None}]
    /\ memApp    \in [Memberships -> Applications \cup {None}]
    /\ lock      \in [Applications -> Requests \cup {None}]
    /\ pc        \in [Requests -> Labels]
    /\ arg       \in [Requests -> Args]
    /\ conn      \subseteq Requests

\* A user never holds two active memberships of one type, although issuance
\* and reactivation check for a duplicate before they write.
OneActivePerType ==
    \A m, n \in Memberships :
        /\ memStatus[m] = "active" /\ memStatus[n] = "active"
        /\ memOwner[m] = memOwner[n] /\ memType[m] = memType[n]
        => m = n

\* An applicant told "approved" has a membership: no interleaving and no crash
\* separates the two.
ApprovedHasMembership ==
    \A a \in Applications :
        appStatus[a] = "approved" => \E m \in Memberships : Issued(m) /\ memApp[m] = a

\* A transaction past its re-read holds the row, and the application is still
\* under review: FOR UPDATE keeps the writes of the other calls out.
ReviewHeldUntilCommit ==
    \A r \in Requests :
        pc[r] \in InTransaction /\ arg[r].app # None =>
            lock[arg[r].app] = r /\ appStatus[arg[r].app] = "under_review"

\* An approval hands on the membership of its own application, whether it made
\* it or found it.
ApprovalReturnsItsMembership ==
    \A r \in Requests :
        pc[r] = "issued" => Issued(arg[r].mem) /\ memApp[arg[r].mem] = arg[r].app

\* Every membership issued on an application uses up a review of it: the same
\* step moves the application from under_review to approved.
IssuanceConsumesReview ==
    [][\A m \in Memberships :
          ~Issued(m) /\ Issued(m)' /\ memApp'[m] # None =>
              /\ appStatus[memApp'[m]] = "under_review"
              /\ appStatus'[memApp'[m]] = "approved"]_vars

\* Every call ends: calls never wait on each other in a circle, for rows, for
\* the unique index or for connections, if there are more connections than
\* calls.
EveryCallReturns ==
    \A r \in Requests : pc[r] # "idle" ~> pc[r] = "idle"

\* The component keeps the abstract promise.
Registry == INSTANCE MembershipRegistry

ImplementsRegistry == Registry!Spec
=============================================================================
