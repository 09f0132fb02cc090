------------------------------ MODULE Accounts ------------------------------
(***************************************************************************)
(* Accounts, their roles and sessions (src/modules/identity): the mapping  *)
(* of the identity provider's users onto local ones (auth/clerk-sync.ts),  *)
(* the one-time codes of the legacy provider (auth/service.ts), sessions   *)
(* (session/service.ts), roles (rbac/service.ts) and the bootstrap of the  *)
(* first administrator (bootstrap.ts).                                     *)
(*                                                                         *)
(* No call is a transaction.  The unique indexes on users (email, identity)*)
(* and user_roles (user and role) refuse a second row: the statement       *)
(* throws, and those before it stay.                                       *)
(*                                                                         *)
(* The status of users is changed by nothing in the code but may change.   *)
(* Times are left out but for what they decide: a session or a code may be *)
(* over at any moment, and the resend cooldown may have passed or not.     *)
(* Texts, audit rows, security events, the profile's fields and the bucket *)
(* of the client's address are left out.  Codes and sessions are never     *)
(* used again, so their number bounds the sign-ins of a behaviour.         *)
(***************************************************************************)
EXTENDS Naturals, FiniteSets

CONSTANTS
    Emails,         \* a user's row is known by its e-mail, which never changes
    Clerks,         \* the users of the identity provider
    Codes, Sessions,
    Requests, None,
    Admin,          \* BOOTSTRAP_ADMIN_EMAIL, or None
    Limit, MaxAttempts,
    MaxCalls        \* bounds the calls of a behaviour, and the changes around them

ASSUME NoneIsNothing   == None \notin Emails \cup Clerks \cup Codes \cup Sessions
ASSUME AdminIsOne      == Admin \in Emails \cup {None}
ASSUME LimitsPositive  == Limit \in Nat \ {0} /\ MaxAttempts \in Nat \ {0}
ASSUME CodesAreFinite  == IsFiniteSet(Codes)

VARIABLES
    provider,       \* resolveAuthProvider
    address,        \* External: the e-mail of each identity
    user,           \* users: the status
    bound,          \* users: clerk_user_id
    profile,        \* how much of profiles and profile_contacts there is
    roles,          \* user_roles
    code,           \* auth_otp_challenges
    session,        \* sessions
    bucket,         \* rate_limit_buckets of each address, in the present window
    pc, arg,        \* where each request is, and its locals
    calls,
    \* History, read by properties only: the accounts whose creation died; and the
    \* addresses at which sign-ins of two identities are or were in flight at once,
    \* for as long as one of a row of such sign-ins still is.
    died, contested

rows     == <<user, bound, profile, roles, code, session, bucket>>
callVars == <<pc, arg>>
around   == <<provider, address>>
vars     == <<around, rows, callVars, calls, died, contested>>

\* What the columns of the accounts may hold.
Providers    == {"clerk", "legacy"}
UserStatus   == {"none", "active", "suspended"}
ProfileParts == {"none", "profile", "whole"}
RoleNames    == {"member", "expert", "super_admin"}
BucketCounts == 0..Limit
Attempts     == 0..MaxAttempts

NoCode    == [email |-> None, attempts |-> 0, open |-> FALSE, at |-> 0]
NoSession == [email |-> None, status |-> "none"]

Labels ==
    {"idle", "byClerk", "byEmail", "link", "countRoles", "insertUser", "insertProfile",
     "insertContact", "findMember", "insertMember", "checkStatus", "findSuper", "insertSuper",
     "findBucket", "insertBucket", "countBucket", "latest", "findUser", "checkOtp", "insertCode", "findCode",
     "wrong", "consume", "findActive", "insertSession", "readUser", "revoke", "list",
     "revokeEach", "insertRole", "done"}

\* call: the function; by: the row of the identity, if it has one; status: as it
\* was read; code, session, todo, count: what was found; try: the attempts of
\* consumeRateLimit that are left; seen: the sessions open when the call began,
\* read by properties only.
NoArg == [call |-> "none", email |-> None, clerk |-> None, by |-> None, status |-> "none",
          right |-> FALSE, code |-> None, session |-> None, todo |-> {},
          count |-> 0, try |-> 3, role |-> "none", seen |-> {}]

\* Accounts of the legacy provider have no identity.
Init ==
    /\ provider \in Providers
    /\ address \in [Clerks -> Emails \cup {None}]
    /\ \A k, l \in Clerks : address[k] = address[l] /\ k # l => address[k] = None
    /\ user \in [Emails -> {"none", "active"}]
    /\ bound = [e \in Emails |-> None]
    /\ profile = [e \in Emails |-> IF user[e] = "none" THEN "none" ELSE "whole"]
    /\ roles = [e \in Emails |-> IF user[e] = "none" THEN {} ELSE {"member"}]
    /\ code = [c \in Codes |-> NoCode]
    /\ session = [s \in Sessions |-> NoSession]
    /\ bucket = [e \in Emails |-> 0]
    /\ pc  = [r \in Requests |-> "idle"]
    /\ arg = [r \in Requests |-> NoArg]
    /\ calls = 0
    /\ died = {}
    /\ contested = {}

-----------------------------------------------------------------------------
(* Calls *)

GoTo(r, label, a) ==
    /\ pc'  = [pc  EXCEPT ![r] = label]
    /\ arg' = [arg EXCEPT ![r] = a]

Step(r, label) == GoTo(r, label, arg[r])
Return(r)      == GoTo(r, "idle", NoArg)

\* An error returned to the caller; nothing is rolled back.
Throw(r) == Return(r)

Begin(r, label, a) == pc[r] = "idle" /\ GoTo(r, label, a) /\ UNCHANGED rows

-----------------------------------------------------------------------------
(* syncClerkIdentityToLocalUser *)

Sync(r, k) ==
    /\ provider = "clerk"
    /\ address[k] # None
    /\ Begin(r, "byClerk", [NoArg EXCEPT !.call = "sync", !.clerk = k, !.email = address[k]])

ByClerk(r) ==
    LET mine == {e \in Emails : bound[e] = arg[r].clerk} IN
    /\ pc[r] = "byClerk"
    /\ \/ mine = {} /\ Step(r, "byEmail")
       \/ \E e \in mine :
            GoTo(r, "byEmail", [arg[r] EXCEPT !.by = e, !.status = user[e]])
    /\ UNCHANGED rows

\* Mutant: an account bound to another identity is linked as well.
PlanTakesOver(r, e) ==
    CASE arg[r].by \notin {None, e}           -> "conflict"
      [] arg[r].by = e                        -> "countRoles"
      [] arg[r].by = None /\ user[e] # "none" -> "link"
      [] arg[r].by = None /\ user[e] = "none" -> "insertUser"

\* planClerkUserMapping
Plan(r, e) ==
    CASE arg[r].by \notin {None, e}           -> "conflict"
      [] arg[r].by = e                        -> "countRoles"
      [] arg[r].by = None /\ user[e] # "none" ->
             IF bound[e] \in {None, arg[r].clerk} THEN "link" ELSE "conflict"
      [] arg[r].by = None /\ user[e] = "none" -> "insertUser"

ByEmail(r) ==
    LET e == arg[r].email IN
    /\ pc[r] = "byEmail"
    /\ IF Plan(r, e) = "conflict" THEN Throw(r)
       ELSE GoTo(r, Plan(r, e),
                 [arg[r] EXCEPT !.status = IF arg[r].by = e THEN @
                                           ELSE IF user[e] = "none" THEN "active" ELSE user[e]])
    /\ UNCHANGED rows

Link(r) ==
    LET e == arg[r].email
        k == arg[r].clerk
    IN
    /\ pc[r] = "link"
    /\ IF \E f \in Emails \ {e} : bound[f] = k
       THEN Throw(r) /\ UNCHANGED bound
       ELSE /\ bound' = [bound EXCEPT ![e] = k]
            /\ Step(r, "countRoles")
    /\ UNCHANGED <<user, profile, roles, code, session, bucket>>

\* ensureMemberRoleIfNeeded
CountRoles(r) ==
    /\ pc[r] = "countRoles"
    /\ Step(r, IF roles[arg[r].email] = {} THEN "findMember" ELSE "checkStatus")
    /\ UNCHANGED rows

\* The status is the one that was read, or that of the row just made.
CheckStatus(r) ==
    /\ pc[r] = "checkStatus"
    /\ IF arg[r].status # "active" THEN Throw(r)
       ELSE Step(r, IF arg[r].email = Admin THEN "findSuper" ELSE "done")
    /\ UNCHANGED rows

-----------------------------------------------------------------------------
(* createLocalUserSkeleton, ensureUserSkeleton, ensureMemberRole, bootstrapSuperAdmin *)

InsertUser(r) ==
    LET e == arg[r].email
        k == arg[r].clerk
    IN
    /\ pc[r] = "insertUser"
    /\ IF user[e] # "none" \/ (k # None /\ \E f \in Emails : bound[f] = k)
       THEN Throw(r) /\ UNCHANGED <<user, bound>>
       ELSE /\ user'  = [user  EXCEPT ![e] = "active"]
            /\ bound' = [bound EXCEPT ![e] = k]
            /\ Step(r, "insertProfile")
    /\ UNCHANGED <<profile, roles, code, session, bucket>>

\* Mutant: the contact row is left out.
InsertProfileOnly(r) ==
    /\ pc[r] = "insertProfile"
    /\ profile' = [profile EXCEPT ![arg[r].email] = "profile"]
    /\ Step(r, "findMember")
    /\ UNCHANGED <<user, bound, roles, code, session, bucket>>

InsertProfile(r) ==
    /\ pc[r] = "insertProfile"
    /\ profile' = [profile EXCEPT ![arg[r].email] = "profile"]
    /\ Step(r, "insertContact")
    /\ UNCHANGED <<user, bound, roles, code, session, bucket>>

InsertContact(r) ==
    /\ pc[r] = "insertContact"
    /\ profile' = [profile EXCEPT ![arg[r].email] = "whole"]
    /\ Step(r, "findMember")
    /\ UNCHANGED <<user, bound, roles, code, session, bucket>>

\* Where a call goes on when the member's role is there.
AfterMember(r) ==
    CASE arg[r].call = "sync"      -> "checkStatus"
      [] arg[r].call = "request"   -> "checkOtp"
      [] arg[r].call = "verify"    -> "done"
      [] arg[r].call = "bootstrap" -> "findSuper"

FindMember(r) ==
    /\ pc[r] = "findMember"
    /\ Step(r, IF "member" \in roles[arg[r].email] THEN AfterMember(r) ELSE "insertMember")
    /\ UNCHANGED rows

\* The INSERT of a role, which the unique index may refuse.
Grant(r, role, next) ==
    LET e == arg[r].email IN
    /\ \/ role \in roles[e] /\ Throw(r) /\ UNCHANGED roles
       \/ /\ role \notin roles[e]
          /\ roles' = [roles EXCEPT ![e] = @ \cup {role}]
          /\ Step(r, next)
    /\ UNCHANGED <<user, bound, profile, code, session, bucket>>

InsertMember(r) == pc[r] = "insertMember" /\ Grant(r, "member", AfterMember(r))

\* ensureBootstrapSuperAdmin
FindSuper(r) ==
    /\ pc[r] = "findSuper"
    /\ Step(r, IF "super_admin" \in roles[arg[r].email] THEN "done" ELSE "insertSuper")
    /\ UNCHANGED rows

InsertSuper(r) == pc[r] = "insertSuper" /\ Grant(r, "super_admin", "done")

\* The operator's script.
BootstrapSuperAdmin(r) ==
    /\ Admin # None
    /\ Begin(r, "findUser", [NoArg EXCEPT !.call = "bootstrap", !.email = Admin])

\* assignRole: of an administrator, to anyone.
AssignRole(r, e, role) ==
    /\ user[e] # "none"
    /\ Begin(r, IF role \in roles[e] THEN "done" ELSE "insertRole",
             [NoArg EXCEPT !.call = "assign", !.email = e, !.role = role])

InsertRole(r) == pc[r] = "insertRole" /\ Grant(r, arg[r].role, "done")

-----------------------------------------------------------------------------
(* requestLoginOtp, with consumeRateLimit *)

RequestLoginOtp(r, e) ==
    /\ provider = "legacy"
    /\ Begin(r, "findBucket", [NoArg EXCEPT !.call = "request", !.email = e])

\* Three attempts; the loop ends in the error of contention.
FindBucket(r) ==
    LET n == bucket[arg[r].email] IN
    /\ pc[r] = "findBucket"
    /\ \/ n = 0 /\ Step(r, "insertBucket")
       \/ n >= Limit /\ Throw(r)
       \/ n \in 1..(Limit - 1) /\ GoTo(r, "countBucket", [arg[r] EXCEPT !.count = n])
    /\ UNCHANGED rows

InsertBucket(r) ==
    LET e == arg[r].email IN
    /\ pc[r] = "insertBucket"
    /\ \/ /\ bucket[e] = 0
          /\ bucket' = [bucket EXCEPT ![e] = 1]
          /\ Step(r, "latest")
       \/ /\ bucket[e] > 0
          /\ IF arg[r].try = 1 THEN Throw(r)
             ELSE GoTo(r, "findBucket", [arg[r] EXCEPT !.try = @ - 1])
          /\ UNCHANGED bucket
    /\ UNCHANGED <<user, bound, profile, roles, code, session>>

\* The count that was read, and one.
CountBucket(r) ==
    /\ pc[r] = "countBucket"
    /\ bucket' = [bucket EXCEPT ![arg[r].email] = arg[r].count + 1]
    /\ GoTo(r, "latest", [arg[r] EXCEPT !.count = 0])
    /\ UNCHANGED <<user, bound, profile, roles, code, session>>

OpenCodes(e) == {c \in Codes : code[c].email = e /\ code[c].open}

LatestCode(e) == {c \in OpenCodes(e) : \A d \in OpenCodes(e) : code[d].at <= code[c].at}

\* The cooldown of an open code may have passed.
Latest(r) ==
    /\ pc[r] = "latest"
    /\ \/ OpenCodes(arg[r].email) # {} /\ Throw(r)
       \/ Step(r, "findUser")
    /\ UNCHANGED rows

FindUser(r) ==
    LET e == arg[r].email IN
    /\ pc[r] = "findUser"
    /\ IF user[e] = "none"
       THEN GoTo(r, "insertUser", [arg[r] EXCEPT !.status = "active"])
       ELSE GoTo(r, IF arg[r].call = "bootstrap" THEN "findMember" ELSE "checkOtp",
                 [arg[r] EXCEPT !.status = user[e]])
    /\ UNCHANGED rows

CheckOtp(r) ==
    /\ pc[r] = "checkOtp"
    /\ IF arg[r].status = "active" THEN Step(r, "insertCode") ELSE Return(r)
    /\ UNCHANGED rows

InsertCode(r, c) ==
    /\ pc[r] = "insertCode"
    /\ code[c] = NoCode
    /\ code' = [code EXCEPT ![c] =
           [email |-> arg[r].email, attempts |-> 0, open |-> TRUE,
            at |-> Cardinality({d \in Codes : code[d] # NoCode})]]
    /\ Step(r, "done")
    /\ UNCHANGED <<user, bound, profile, roles, session, bucket>>

-----------------------------------------------------------------------------
(* verifyLoginOtp *)

VerifyLoginOtp(r, e, right) ==
    /\ provider = "legacy"
    /\ Begin(r, "findCode", [NoArg EXCEPT !.call = "verify", !.email = e, !.right = right])

\* Mutant: the attempts are not looked at.
FindCodeUnlocked(r) ==
    /\ pc[r] = "findCode"
    /\ \/ OpenCodes(arg[r].email) = {} /\ Throw(r)
       \/ \E c \in LatestCode(arg[r].email) :
            GoTo(r, IF arg[r].right THEN "consume" ELSE "wrong",
                 [arg[r] EXCEPT !.code = c, !.count = code[c].attempts])
    /\ UNCHANGED rows

\* The latest code that is neither consumed nor expired.
FindCode(r) ==
    /\ pc[r] = "findCode"
    /\ \/ OpenCodes(arg[r].email) = {} /\ Throw(r)
       \/ \E c \in LatestCode(arg[r].email) :
            \/ code[c].attempts >= MaxAttempts /\ Throw(r)
            \/ /\ code[c].attempts < MaxAttempts
               /\ GoTo(r, IF arg[r].right THEN "consume" ELSE "wrong",
                       [arg[r] EXCEPT !.code = c, !.count = code[c].attempts])
    /\ UNCHANGED rows

Wrong(r) ==
    /\ pc[r] = "wrong"
    /\ code' = [code EXCEPT ![arg[r].code].attempts = arg[r].count + 1]
    /\ Throw(r)
    /\ UNCHANGED <<user, bound, profile, roles, session, bucket>>

\* UPDATE ... WHERE id only.
Consume(r) ==
    /\ pc[r] = "consume"
    /\ code' = [code EXCEPT ![arg[r].code].open = FALSE]
    /\ GoTo(r, "findActive", [arg[r] EXCEPT !.code = None, !.count = 0])
    /\ UNCHANGED <<user, bound, profile, roles, session, bucket>>

FindActive(r) ==
    /\ pc[r] = "findActive"
    /\ IF user[arg[r].email] = "active" THEN Step(r, "insertSession") ELSE Throw(r)
    /\ UNCHANGED rows

\* createSession
InsertSession(r, s) ==
    /\ pc[r] = "insertSession"
    /\ session[s] = NoSession
    /\ session' = [session EXCEPT ![s] = [email |-> arg[r].email, status |-> "open"]]
    /\ GoTo(r, "findMember", [arg[r] EXCEPT !.session = s])
    /\ UNCHANGED <<user, bound, profile, roles, code, bucket>>

-----------------------------------------------------------------------------
(* resolveSessionByToken, revokeSession, revokeAllSessionsForUser *)

OpenSessions(e) == {s \in Sessions : session[s].email = e /\ session[s].status = "open"}

\* getLegacySessionAuthContext, for a page or before one of the logouts.
Resolve(r, s, call) ==
    /\ provider = "legacy"
    /\ session[s].status = "open"
    /\ Begin(r, "readUser",
             [NoArg EXCEPT !.call = call, !.email = session[s].email, !.session = s,
                           !.seen = OpenSessions(session[s].email)])

ReadUser(r) ==
    /\ pc[r] = "readUser"
    /\ IF user[arg[r].email] # "active" THEN Throw(r)
       ELSE Step(r, CASE arg[r].call = "page"      -> "done"
                      [] arg[r].call = "logout"    -> "revoke"
                      [] arg[r].call = "logoutAll" -> "list")
    /\ UNCHANGED rows

Revoke(r) ==
    /\ pc[r] = "revoke"
    /\ session' = [session EXCEPT ![arg[r].session].status = "revoked"]
    /\ Step(r, "done")
    /\ UNCHANGED <<user, bound, profile, roles, code, bucket>>

\* Mutant: the session of the request itself is left out.
ListOthers(r) ==
    /\ pc[r] = "list"
    /\ GoTo(r, "revokeEach",
            [arg[r] EXCEPT !.todo = OpenSessions(arg[r].email) \ {arg[r].session}])
    /\ UNCHANGED rows

\* Sessions that are over but not revoked are listed too, to no effect.
List(r) ==
    /\ pc[r] = "list"
    /\ GoTo(r, "revokeEach", [arg[r] EXCEPT !.todo = OpenSessions(arg[r].email)])
    /\ UNCHANGED rows

RevokeEach(r) ==
    /\ pc[r] = "revokeEach"
    /\ \/ /\ arg[r].todo = {}
          /\ Step(r, "done")
          /\ UNCHANGED session
       \/ \E s \in arg[r].todo :
            /\ session' = [session EXCEPT ![s].status = "revoked"]
            /\ GoTo(r, "revokeEach", [arg[r] EXCEPT !.todo = @ \ {s}])
    /\ UNCHANGED <<user, bound, profile, roles, code, bucket>>

Finish(r) == pc[r] = "done" /\ Return(r) /\ UNCHANGED rows

Crash(r) == pc[r] # "idle" /\ Return(r) /\ UNCHANGED rows

-----------------------------------------------------------------------------
(* What changes around the calls *)

\* An identity changes its e-mail, or gives it up, at any moment: the provider knows
\* nothing of the requests in flight.
ChangeAddress(k, e) ==
    /\ e # None => \A l \in Clerks : address[l] # e
    /\ address' = [address EXCEPT ![k] = e]
    /\ UNCHANGED <<provider, rows, callVars>>

\* A deployment that has the provider's keys.
SwitchToClerk ==
    /\ provider = "legacy"
    /\ \A r \in Requests : pc[r] = "idle"
    /\ provider' = "clerk"
    /\ UNCHANGED <<address, rows, callVars>>

SuspendUser(e) ==
    /\ user[e] = "active"
    /\ user' = [user EXCEPT ![e] = "suspended"]
    /\ UNCHANGED <<around, bound, profile, roles, code, session, bucket, callVars>>

CodeExpires(c) ==
    /\ code[c].open
    /\ code' = [code EXCEPT ![c].open = FALSE]
    /\ UNCHANGED <<around, user, bound, profile, roles, session, bucket, callVars>>

SessionExpires(s) ==
    /\ session[s].status = "open"
    /\ session' = [session EXCEPT ![s].status = "over"]
    /\ UNCHANGED <<around, user, bound, profile, roles, code, bucket, callVars>>

-----------------------------------------------------------------------------

\* Every request of a signed-in identity, and the one that follows a sign-in: that
\* leaves an audit row and a stamp besides, and a refusal by it leaves the
\* provider's session, which is not modelled, where it is.
GetClerkAuthContext(r, k) == Sync(r, k)
CompleteClerkLogin(r, k)  == Sync(r, k)

ClerkCalls(r) == \E k \in Clerks : GetClerkAuthContext(r, k) \/ CompleteClerkLogin(r, k)

OtpCalls(r) ==
    \E e \in Emails : RequestLoginOtp(r, e) \/ \E right \in BOOLEAN : VerifyLoginOtp(r, e, right)

SessionCalls(r) ==
    \E s \in Sessions, call \in {"page", "logout", "logoutAll"} : Resolve(r, s, call)

RoleCalls(r) ==
    \/ BootstrapSuperAdmin(r)
    \/ \E e \in Emails, role \in {"member", "expert"} : AssignRole(r, e, role)

Call(r) == ClerkCalls(r) \/ OtpCalls(r) \/ SessionCalls(r) \/ RoleCalls(r)

Change ==
    \/ \E k \in Clerks, e \in Emails \cup {None} : ChangeAddress(k, e)
    \/ SwitchToClerk
    \/ \E e \in Emails : SuspendUser(e)
    \/ \E c \in Codes : CodeExpires(c)
    \/ \E s \in Sessions : SessionExpires(s)

Continue(r) ==
    \/ ByClerk(r) \/ ByEmail(r) \/ Link(r) \/ CountRoles(r) \/ CheckStatus(r)
    \/ InsertUser(r) \/ InsertProfile(r) \/ InsertContact(r)
    \/ FindMember(r) \/ InsertMember(r) \/ FindSuper(r) \/ InsertSuper(r) \/ InsertRole(r)
    \/ FindBucket(r) \/ InsertBucket(r) \/ CountBucket(r) \/ Latest(r) \/ FindUser(r) \/ CheckOtp(r)
    \/ \E c \in Codes : InsertCode(r, c)
    \/ FindCode(r) \/ Wrong(r) \/ Consume(r) \/ FindActive(r)
    \/ \E s \in Sessions : InsertSession(r, s)
    \/ ReadUser(r) \/ Revoke(r) \/ List(r) \/ RevokeEach(r)
    \/ Finish(r)

Creating(r, e) == pc[r] \in {"insertProfile", "insertContact"} /\ arg[r].email = e

\* A sign-in at the address e, and two of different identities.
Syncing(r, e) == arg[r].clerk # None /\ arg[r].email = e

Contest(e) ==
    \E q, r \in Requests : Syncing(q, e) /\ Syncing(r, e) /\ arg[q].clerk # arg[r].clerk

Contend ==
    contested' = {e \in Emails :
        /\ \E r \in Requests : Syncing(r, e)'
        /\ e \in contested \/ Contest(e)'}

\* MaxCalls is a bound of the model, not of the code.
Move ==
    \/ /\ calls < MaxCalls
       /\ calls' = calls + 1
       /\ \/ \E r \in Requests : Call(r) /\ UNCHANGED around
          \/ Change
       /\ UNCHANGED died
    \/ \E r \in Requests :
        \/ Continue(r) /\ UNCHANGED <<around, calls, died>>
        \/ /\ Crash(r)
           /\ died' = died \cup {e \in Emails : Creating(r, e)}
           /\ UNCHANGED <<around, calls>>

Next == Move /\ Contend

Spec == Init /\ [][Next]_vars

-----------------------------------------------------------------------------
(* Properties *)

TypeOK ==
    /\ provider \in Providers
    /\ address \in [Clerks -> Emails \cup {None}]
    /\ user \in [Emails -> UserStatus]
    /\ bound \in [Emails -> Clerks \cup {None}]
    /\ profile \in [Emails -> ProfileParts]
    /\ roles \in [Emails -> SUBSET RoleNames]
    /\ \A c \in Codes : code[c].attempts \in Attempts
    /\ \A s \in Sessions : session[s].status \in {"none", "open", "over", "revoked"}
    /\ bucket \in [Emails -> BucketCounts]
    /\ pc \in [Requests -> Labels]
    /\ contested \subseteq Emails

\* planClerkUserMapping, "email_bound_to_other_clerk_user": an account that is bound
\* to an identity stays that identity's, though identities change their e-mail at any
\* moment and take over one another's, and two requests may create or link the
\* account at once.  The code keeps this but for one race: a sign-in that read the
\* account unbound binds it by the id of its row, whomever it is bound to by then.
\* So it is not said of an address at which sign-ins of two identities overlap.
BindingIsKept ==
    [][\A e \in Emails \ contested : bound[e] # None => bound'[e] = bound[e]]_vars

\* What a call that returns has made sure of, whatever others have done between
\* its statements: who signs in has an account, bound to the identity, and a role
\* (the bootstrap's administrator has theirs); a logout from everywhere leaves no
\* session that was open when it began.  Of the binding it says nothing where
\* identities contest the address.
CallsSettle ==
    \A r \in Requests :
        LET a == arg[r]
            e == a.email
        IN
        pc[r] = "done" =>
            /\ a.call = "sync" => (e \notin contested => bound[e] = a.clerk) /\ roles[e] # {}
            /\ a.call \in {"sync", "bootstrap"} /\ e = Admin => "super_admin" \in roles[e]
            /\ a.call = "verify" => "member" \in roles[e] /\ session[a.session].email = e
            /\ a.call = "logoutAll" => \A s \in a.seen : session[s].status # "open"

\* createLocalUserSkeleton, ensureUserSkeleton: an account lacks its profile only
\* while the call that creates it goes on, or when that call died.
AccountsAreWhole ==
    \A e \in Emails \ died :
        user[e] # "none" /\ profile[e] # "whole" => \E r \in Requests : Creating(r, e)
=============================================================================
