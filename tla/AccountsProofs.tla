--------------------------- MODULE AccountsProofs ---------------------------
(***************************************************************************)
(* Proofs about accounts, for any number of addresses, identities, codes,  *)
(* sessions and concurrent requests: the types, that an account stays its  *)
(* identity's, that it is made whole, and what a call that returns has     *)
(* made sure of.                                                           *)
(*                                                                         *)
(* Shape says that a call's locals are values its next statement can use.  *)
(* Knows says what a call has made sure of so far; Grows says why the      *)
(* others cannot take it away: rows, roles and the end of a session are    *)
(* for good.  Mapped says the same of the binding of an account: at an     *)
(* address that identities do not contest, whoever else may write it       *)
(* writes the same identity.                                               *)
(***************************************************************************)
EXTENDS Accounts, FiniteSetTheorems, DeskView, TLAPS

CallNames ==
    {"none", "sync", "request", "verify", "bootstrap", "assign", "page", "logout", "logoutAll"}

Args ==
    [call : CallNames, email : Emails \cup {None}, clerk : Clerks \cup {None},
     by : Emails \cup {None}, status : UserStatus, right : BOOLEAN, code : Codes \cup {None},
     session : Sessions \cup {None}, todo : SUBSET Sessions, count : Nat, try : 1..3,
     role : RoleNames \cup {"none"}, seen : SUBSET Sessions]

SyncLabels    == {"byClerk", "byEmail", "link", "countRoles", "checkStatus"}
CreateLabels  == {"insertUser", "insertProfile", "insertContact"}
MemberLabels  == {"findMember", "insertMember"}
SuperLabels   == {"findSuper", "insertSuper"}
RequestLabels == {"findBucket", "insertBucket", "countBucket", "latest", "checkOtp", "insertCode"}
VerifyLabels  == {"findCode", "wrong", "consume", "findActive", "insertSession"}
LogoutLabels  == {"list", "revokeEach"}

\* Which call is at which label.
CallOK(label, call) ==
    /\ label \in SyncLabels    => call = "sync"
    /\ label \in CreateLabels  => call \in {"sync", "request", "bootstrap"}
    /\ label \in MemberLabels  => call \in {"sync", "request", "bootstrap", "verify"}
    /\ label \in SuperLabels   => call \in {"sync", "bootstrap"}
    /\ label = "findUser"      => call \in {"request", "bootstrap"}
    /\ label \in RequestLabels => call = "request"
    /\ label \in VerifyLabels  => call = "verify"
    /\ label = "readUser"      => call \in {"page", "logout", "logoutAll"}
    /\ label = "revoke"        => call = "logout"
    /\ label \in LogoutLabels  => call = "logoutAll"
    /\ label = "insertRole"    => call = "assign"
    /\ label = "idle"          => call = "none"

LocalsOK(label, a) ==
    /\ CallOK(label, a.call)
    /\ label # "idle" => a.email \in Emails
    /\ a.call = "sync" => a.clerk \in Clerks
    /\ a.by # None => a.call = "sync"
    /\ label = "countBucket" => a.count \in 1..(Limit - 1)
    /\ label = "wrong" => a.count \in 0..(MaxAttempts - 1)
    /\ label \in {"wrong", "consume"} => a.code \in Codes
    /\ label \in {"readUser", "revoke"} => a.session \in Sessions
    /\ label = "insertRole" => a.role \in RoleNames

CodeRows    == [email : Emails \cup {None}, attempts : Attempts, open : BOOLEAN, at : Nat]
SessionRows == [email : Emails \cup {None}, status : {"none", "open", "over", "revoked"}]

AddressesOK ==
    /\ address \in [Clerks -> Emails \cup {None}]
    /\ \A k, l \in Clerks : address[k] = address[l] /\ k # l => address[k] = None

TablesOK ==
    /\ provider \in Providers
    /\ AddressesOK
    /\ user \in [Emails -> UserStatus]
    /\ bound \in [Emails -> Clerks \cup {None}]
    /\ profile \in [Emails -> ProfileParts]
    /\ roles \in [Emails -> SUBSET RoleNames]
    /\ code \in [Codes -> CodeRows]
    /\ session \in [Sessions -> SessionRows]
    /\ bucket \in [Emails -> BucketCounts]
    /\ \A e \in Emails : user[e] = "none" => bound[e] = None
    /\ \A s \in Sessions : session[s].status # "none" => session[s].email \in Emails

Shape ==
    /\ TablesOK
    /\ pc \in [Requests -> Labels]
    /\ arg \in [Requests -> Args]
    /\ \A r \in Requests : LocalsOK(pc[r], arg[r])

-----------------------------------------------------------------------------
(* What a call has made sure of *)

KnowsUser(label, a) == label = "link" => user[a.email] # "none"

KnowsRoles(label, a) ==
    /\ a.call = "sync" /\ label \in {"checkStatus", "findSuper", "insertSuper", "done"}
          => roles[a.email] # {}
    /\ a.call \in {"sync", "bootstrap"} /\ label = "done" /\ a.email = Admin
          => "super_admin" \in roles[a.email]
    /\ a.call = "verify" /\ label = "done" => "member" \in roles[a.email]

KnowsSessions(label, a) ==
    /\ label \in {"readUser", "revoke"} => session[a.session].email = a.email
    /\ label = "revokeEach" => \A s \in a.todo : session[s].email = a.email
    /\ a.call = "verify" /\ label \in {"findMember", "insertMember", "done"}
          => a.session \in Sessions /\ session[a.session].email = a.email
    /\ a.call = "logoutAll" =>
          \A s \in a.seen :
            /\ session[s].email = a.email
            /\ label = "revokeEach" /\ session[s].status = "open" => s \in a.todo
            /\ label = "done" => session[s].status # "open"

Known(label, a) == KnowsUser(label, a) /\ KnowsRoles(label, a) /\ KnowsSessions(label, a)

Knows == \A r \in Requests : Known(pc[r], arg[r])

Inv == Shape /\ Knows

\* What no step takes back.
Grows ==
    /\ \A e \in Emails :
        /\ user[e] # "none" => user'[e] # "none"
        /\ roles[e] \subseteq roles'[e]
    /\ \A s \in Sessions :
        session[s].email # None =>
            /\ session'[s].email = session[s].email
            /\ session'[s].status = "open" => session[s].status = "open"

-----------------------------------------------------------------------------
(* One request moves *)

LEMMA NoneIsNobody == None \notin Emails /\ None \notin Clerks /\ None \notin Sessions
  BY NoneIsNothing

LEMMA NoArgIsArg == NoArg \in Args /\ "idle" \in Labels /\ LocalsOK("idle", NoArg)
<1>1. NoArg \in Args
  BY DEF NoArg, Args, CallNames, UserStatus
<1>2. CallOK("idle", "none")
  BY DEF CallOK, SyncLabels, CreateLabels, MemberLabels, SuperLabels, RequestLabels,
         VerifyLabels, LogoutLabels
<1>3. "idle" \in Labels
  BY DEF Labels
<1>4. QED BY <1>1, <1>2, <1>3 DEF LocalsOK, NoArg

LEMMA LocalsTyped ==
    ASSUME Shape, NEW r \in Requests
    PROVE  arg[r] \in Args /\ pc[r] \in Labels /\ LocalsOK(pc[r], arg[r])
  BY DEF Shape

LEMMA Moved ==
    ASSUME Shape, NEW r \in Requests, NEW label \in Labels, NEW a \in Args, GoTo(r, label, a)
    PROVE  /\ pc' \in [Requests -> Labels] /\ arg' \in [Requests -> Args]
           /\ pc'[r] = label /\ arg'[r] = a
           /\ \A q \in Requests : q # r => pc'[q] = pc[q] /\ arg'[q] = arg[q]
  BY DEF GoTo, Shape

LEMMA MoveShape ==
    ASSUME Shape, NEW r \in Requests, NEW label \in Labels, NEW a \in Args, GoTo(r, label, a),
           TablesOK', LocalsOK(label, a)
    PROVE  Shape'
<1>1. ASSUME NEW q \in Requests PROVE LocalsOK(pc'[q], arg'[q])
  BY Moved DEF Shape
<1>2. QED BY <1>1, Moved DEF Shape, LocalsOK

\* What a call has made sure of, the others leave.
LEMMA StaysKnown ==
    ASSUME Shape, Grows, NEW label \in Labels, NEW a \in Args, LocalsOK(label, a),
           Known(label, a)
    PROVE  Known(label, a)'
<1>1. /\ a.email \in Emails \cup {None} /\ a.seen \subseteq Sessions
      /\ label \in {"link", "checkStatus", "findSuper", "insertSuper", "done"} => a.email \in Emails
  BY DEF Args, LocalsOK
<1>2. KnowsUser(label, a)'
  BY <1>1 DEF Known, KnowsUser, Grows
<1>3. KnowsRoles(label, a)'
  BY <1>1 DEF Known, KnowsRoles, Grows
<1>4. KnowsSessions(label, a)'
  <2>1. a.call = "verify" /\ label \in {"findMember", "insertMember", "done"} => a.email \in Emails
    BY DEF LocalsOK
  <2>2. a.call = "logoutAll" => label # "idle"
    BY DEF LocalsOK, CallOK
  <2>3. a.call = "logoutAll" => a.email \in Emails
    BY <2>2 DEF LocalsOK
  <2>4. ASSUME a.call = "verify", label \in {"findMember", "insertMember", "done"}
        PROVE  a.session \in Sessions /\ session'[a.session].email = a.email
    BY <2>1, <2>4, NoneIsNobody DEF Known, KnowsSessions, Grows
  <2>5. ASSUME a.call = "logoutAll", NEW s \in a.seen
        PROVE  /\ session'[s].email = a.email
               /\ label = "revokeEach" /\ session'[s].status = "open" => s \in a.todo
               /\ label = "done" => session'[s].status # "open"
    BY <1>1, <2>3, <2>5, NoneIsNobody DEF Known, KnowsSessions, Grows
  <2>6. ASSUME label \in {"readUser", "revoke"} PROVE session'[a.session].email = a.email
    <3>1. a.session \in Sessions /\ a.email \in Emails
      BY <2>6 DEF LocalsOK
    <3>2. QED BY <2>6, <3>1, NoneIsNobody DEF Known, KnowsSessions, Grows
  <2>7. ASSUME label = "revokeEach", NEW s \in a.todo PROVE session'[s].email = a.email
    <3>1. s \in Sessions /\ a.email \in Emails
      BY <2>7 DEF LocalsOK, Args
    <3>2. QED BY <2>7, <3>1, NoneIsNobody DEF Known, KnowsSessions, Grows
  <2>8. QED BY <2>4, <2>5, <2>6, <2>7 DEF KnowsSessions
<1>5. QED BY <1>2, <1>3, <1>4 DEF Known

\* A step of r keeps Inv, if r's locals are such as its next statement can use,
\* r knows what it should there, and nothing is taken back.
LEMMA MoveInv ==
    ASSUME Inv, NEW r \in Requests, NEW label \in Labels, NEW a \in Args, GoTo(r, label, a),
           TablesOK', LocalsOK(label, a), Known(label, a)', Grows
    PROVE  Inv'
<1>0. Shape
  BY DEF Inv
<1>1. Shape'
  BY <1>0, MoveShape
<1>2. ASSUME NEW q \in Requests PROVE Known(pc[q], arg[q])'
  <2>1. CASE q = r
    BY <1>0, <2>1, Moved
  <2>2. CASE q # r
    <3> PICK l, b : l = pc[q] /\ b = arg[q]
      OBVIOUS
    <3>1. l \in Labels /\ b \in Args /\ LocalsOK(l, b) /\ Known(l, b)
      BY <1>0, LocalsTyped DEF Inv, Knows
    <3>2. Known(l, b)'
      BY <1>0, <3>1, StaysKnown
    <3>3. pc'[q] = l /\ arg'[q] = b
      BY <1>0, <2>2, Moved
    <3>4. QED BY <3>2, <3>3
  <2>3. QED BY <2>1, <2>2
<1>3. QED BY <1>1, <1>2 DEF Inv, Knows, Known, KnowsUser, KnowsRoles, KnowsSessions

LEMMA KeptRows ==
    ASSUME Shape, UNCHANGED <<around, rows>>
    PROVE  TablesOK' /\ Grows
  BY DEF Shape, TablesOK, AddressesOK, Grows, around, rows

\* A step that only reads.
LEMMA ReadInv ==
    ASSUME Inv, NEW r \in Requests, NEW label \in Labels, NEW a \in Args, GoTo(r, label, a),
           UNCHANGED <<around, rows>>, LocalsOK(label, a), Known(label, a)
    PROVE  Inv'
<1>1. Known(label, a)'
  BY DEF Known, KnowsUser, KnowsRoles, KnowsSessions, rows
<1>2. QED BY <1>1, KeptRows, MoveInv DEF Inv

LEMMA IdleKnowsNothing == Known("idle", NoArg) /\ Known("idle", NoArg)'
  BY DEF Known, KnowsUser, KnowsRoles, KnowsSessions, NoArg

LEMMA ReturnInv ==
    ASSUME Inv, NEW r \in Requests, Return(r), TablesOK', Grows
    PROVE  Inv'
  BY NoArgIsArg, IdleKnowsNothing, MoveInv DEF Return

LEMMA ThrowInv ==
    ASSUME Inv, NEW r \in Requests, Return(r), UNCHANGED <<around, rows>>
    PROVE  Inv'
  BY KeptRows, ReturnInv DEF Inv
-----------------------------------------------------------------------------
(* The first step of a call *)

LEMMA SyncArg ==
    ASSUME NEW k \in Clerks, NEW e \in Emails
    PROVE  LET a == [NoArg EXCEPT !.call = "sync", !.clerk = k, !.email = e] IN
           /\ a \in Args /\ a.call = "sync" /\ a.email = e /\ a.clerk = k /\ a.by = None
<1>1. [NoArg EXCEPT !.call = "sync", !.clerk = k, !.email = e] \in Args
  BY NoArgIsArg DEF Args, CallNames
<1>2. QED BY <1>1 DEF NoArg

LEMMA SyncCallInv ==
    ASSUME Inv, NEW r \in Requests, NEW k \in Clerks, Sync(r, k), UNCHANGED around
    PROVE  Inv'
<1>1. address[k] \in Emails
  <2>1. address \in [Clerks -> Emails \cup {None}]
    BY DEF Inv, Shape, TablesOK, AddressesOK
  <2>2. address[k] # None
    BY DEF Sync
  <2>3. QED BY <2>1, <2>2
<1> PICK a : a = [NoArg EXCEPT !.call = "sync", !.clerk = k, !.email = address[k]]
  OBVIOUS
<1>2. a \in Args /\ a.call = "sync" /\ a.email = address[k] /\ a.clerk = k /\ a.by = None
  BY <1>1, SyncArg
<1>3. CallOK("byClerk", "sync") /\ "byClerk" \in Labels
  BY DEF CallOK, SyncLabels, CreateLabels, MemberLabels, SuperLabels, RequestLabels,
         VerifyLabels, LogoutLabels, Labels
<1>4. LocalsOK("byClerk", a)
  BY <1>1, <1>2, <1>3 DEF LocalsOK
<1>5. Known("byClerk", a)
  BY <1>2 DEF Known, KnowsUser, KnowsRoles, KnowsSessions
<1>6. GoTo(r, "byClerk", a) /\ UNCHANGED <<around, rows>>
  BY DEF Sync, Begin
<1>7. QED BY <1>2, <1>3, <1>4, <1>5, <1>6, ReadInv

\* A call of the legacy provider, of the operator or of an administrator.
LEMMA PlainCallInv ==
    ASSUME Inv, NEW r \in Requests, NEW label \in {"findBucket", "findUser"},
           NEW call \in {"request", "bootstrap"}, NEW e \in Emails,
           label = "findBucket" => call = "request",
           GoTo(r, label, [NoArg EXCEPT !.call = call, !.email = e]),
           UNCHANGED <<around, rows>>
    PROVE  Inv'
<1> PICK a : a = [NoArg EXCEPT !.call = call, !.email = e]
  OBVIOUS
<1>0. a \in Args
  BY NoArgIsArg DEF Args, CallNames
<1>1. a \in Args /\ a.call = call /\ a.email = e /\ a.by = None /\ a.clerk = None
  BY <1>0 DEF NoArg
<1>2. CallOK(label, call) /\ label \in Labels
  BY DEF CallOK, SyncLabels, CreateLabels, MemberLabels, SuperLabels, RequestLabels,
         VerifyLabels, LogoutLabels, Labels
<1>3. LocalsOK(label, a)
  BY <1>1, <1>2 DEF LocalsOK
<1>4. Known(label, a)
  BY <1>1 DEF Known, KnowsUser, KnowsRoles, KnowsSessions
<1>5. QED BY <1>1, <1>2, <1>3, <1>4, ReadInv

LEMMA VerifyArg ==
    ASSUME NEW e \in Emails, NEW right \in BOOLEAN
    PROVE  LET a == [NoArg EXCEPT !.call = "verify", !.email = e, !.right = right] IN
           /\ a \in Args /\ a.call = "verify" /\ a.email = e /\ a.clerk = None /\ a.by = None
<1>1. [NoArg EXCEPT !.call = "verify", !.email = e, !.right = right] \in Args
  BY NoArgIsArg DEF Args, CallNames
<1>2. QED BY <1>1 DEF NoArg

LEMMA OtpCallsInv ==
    ASSUME Inv, NEW r \in Requests, OtpCalls(r), UNCHANGED around
    PROVE  Inv'
<1> PICK e \in Emails :
        RequestLoginOtp(r, e) \/ \E right \in BOOLEAN : VerifyLoginOtp(r, e, right)
  BY DEF OtpCalls
<1>1. CASE RequestLoginOtp(r, e)
  BY <1>1, PlainCallInv DEF RequestLoginOtp, Begin
<1>2. ASSUME NEW right \in BOOLEAN, VerifyLoginOtp(r, e, right)
      PROVE  Inv'
  <2> PICK a : a = [NoArg EXCEPT !.call = "verify", !.email = e, !.right = right]
    OBVIOUS
  <2>1. a \in Args /\ a.call = "verify" /\ a.email = e /\ a.by = None /\ a.clerk = None
    BY VerifyArg
  <2>2. CallOK("findCode", "verify") /\ "findCode" \in Labels
    BY DEF CallOK, SyncLabels, CreateLabels, MemberLabels, SuperLabels, RequestLabels,
           VerifyLabels, LogoutLabels, Labels
  <2>3. LocalsOK("findCode", a)
    BY <2>1, <2>2 DEF LocalsOK
  <2>4. Known("findCode", a)
    BY <2>1 DEF Known, KnowsUser, KnowsRoles, KnowsSessions
  <2>5. GoTo(r, "findCode", a) /\ UNCHANGED <<around, rows>>
    BY <1>2 DEF VerifyLoginOtp, Begin
  <2>6. QED BY <2>1, <2>2, <2>3, <2>4, <2>5, ReadInv
<1>3. QED BY <1>1, <1>2

LEMMA SessionArg ==
    ASSUME NEW call \in CallNames, NEW e \in Emails, NEW s \in Sessions, NEW seen \in SUBSET Sessions
    PROVE  [NoArg EXCEPT !.call = call, !.email = e, !.session = s, !.seen = seen] \in Args
  BY NoArgIsArg DEF Args

LEMMA ResolveInv ==
    ASSUME Inv, NEW r \in Requests, NEW s \in Sessions, NEW call \in CallNames,
           Resolve(r, s, call), UNCHANGED around,
           call = "page" \/ call = "logout" \/ call = "logoutAll"
    PROVE  Inv'
<1> PICK e, seen : e = session[s].email /\ seen = OpenSessions(e)
  OBVIOUS
<1>1. e \in Emails /\ seen \subseteq Sessions /\ \A t \in seen : session[t].email = e
  BY DEF Resolve, OpenSessions, Inv, Shape, TablesOK
<1> PICK a : a = [NoArg EXCEPT !.call = call, !.email = e, !.session = s, !.seen = seen]
  OBVIOUS
<1>2. a \in Args
  BY <1>1, SessionArg
<1>3. /\ a.call = call /\ a.email = e /\ a.clerk = None /\ a.by = None
      /\ a.seen = seen /\ a.session = s
  BY <1>2 DEF NoArg
<1>4. CallOK("readUser", call) /\ "readUser" \in Labels
  BY DEF CallOK, SyncLabels, CreateLabels, MemberLabels, SuperLabels, RequestLabels,
         VerifyLabels, LogoutLabels, Labels
<1>5. LocalsOK("readUser", a)
  BY <1>1, <1>3, <1>4 DEF LocalsOK
<1>6. Known("readUser", a)
  BY <1>1, <1>3 DEF Known, KnowsUser, KnowsRoles, KnowsSessions
<1>7. GoTo(r, "readUser", a) /\ UNCHANGED <<around, rows>>
  BY DEF Resolve, Begin
<1>8. QED BY <1>2, <1>4, <1>5, <1>6, <1>7, ReadInv

LEMMA SessionCallsInv ==
    ASSUME Inv, NEW r \in Requests, SessionCalls(r), UNCHANGED around
    PROVE  Inv'
<1>1. "page" \in CallNames /\ "logout" \in CallNames /\ "logoutAll" \in CallNames
  BY DEF CallNames
<1>2. PICK s \in Sessions :
        Resolve(r, s, "page") \/ Resolve(r, s, "logout") \/ Resolve(r, s, "logoutAll")
  BY DEF SessionCalls
<1>3. QED BY <1>1, <1>2, ResolveInv

LEMMA RoleCallsInv ==
    ASSUME Inv, NEW r \in Requests, RoleCalls(r), UNCHANGED around
    PROVE  Inv'
<1>1. CASE BootstrapSuperAdmin(r)
  <2>1. Admin \in Emails
    BY <1>1, AdminIsOne DEF BootstrapSuperAdmin
  <2>2. QED BY <1>1, <2>1, PlainCallInv DEF BootstrapSuperAdmin, Begin
<1>2. ASSUME NEW e \in Emails, NEW slug \in {"member", "expert"}, AssignRole(r, e, slug)
      PROVE  Inv'
  <2> PICK a : a = [NoArg EXCEPT !.call = "assign", !.email = e, !.role = slug]
    OBVIOUS
  <2>0. a \in Args
    BY NoArgIsArg DEF Args, CallNames, RoleNames
  <2>1. /\ a \in Args /\ a.call = "assign" /\ a.email = e /\ a.clerk = None /\ a.by = None
        /\ a.role = slug
    BY <2>0 DEF NoArg
  <2>2. PICK label \in {"done", "insertRole"} : GoTo(r, label, a)
    BY <1>2 DEF AssignRole, Begin
  <2>3. CallOK(label, "assign") /\ label \in Labels
    BY DEF CallOK, SyncLabels, CreateLabels, MemberLabels, SuperLabels, RequestLabels,
           VerifyLabels, LogoutLabels, Labels
  <2>4. LocalsOK(label, a)
    BY <2>1, <2>3 DEF LocalsOK, RoleNames
  <2>5. Known(label, a)
    BY <2>1 DEF Known, KnowsUser, KnowsRoles, KnowsSessions
  <2>6. UNCHANGED <<around, rows>>
    BY <1>2 DEF AssignRole, Begin
  <2>7. QED BY <2>1, <2>2, <2>3, <2>4, <2>5, <2>6, ReadInv
<1>3. QED BY <1>1, <1>2 DEF RoleCalls

LEMMA CallInv ==
    ASSUME Inv, NEW r \in Requests, Call(r), UNCHANGED around
    PROVE  Inv'
<1>1. CASE ClerkCalls(r)
  BY <1>1, SyncCallInv DEF ClerkCalls, GetClerkAuthContext, CompleteClerkLogin
<1>2. QED BY <1>1, OtpCallsInv, SessionCallsInv, RoleCallsInv DEF Call
-----------------------------------------------------------------------------
(* The further steps of syncClerkIdentityToLocalUser *)

LEMMA StepInv ==
    ASSUME Inv, NEW r \in Requests, NEW label \in Labels, Step(r, label),
           UNCHANGED <<around, rows>>, LocalsOK(label, arg[r]), Known(label, arg[r])
    PROVE  Inv'
  BY LocalsTyped, ReadInv DEF Step, Inv

\* What the row of a user says of it is read into a call's locals.
LEMMA StatusArg ==
    ASSUME NEW a \in Args, NEW st \in UserStatus
    PROVE  /\ [a EXCEPT !.status = st] \in Args
           /\ \A label \in Labels :
                /\ LocalsOK(label, a) => LocalsOK(label, [a EXCEPT !.status = st])
                /\ Known(label, a) => Known(label, [a EXCEPT !.status = st])
<1>1. [a EXCEPT !.status = st] \in Args
  BY DEF Args
<1> PICK b : b = [a EXCEPT !.status = st]
  OBVIOUS
<1>2. /\ b.call = a.call /\ b.email = a.email /\ b.clerk = a.clerk /\ b.by = a.by
      /\ b.count = a.count /\ b.code = a.code /\ b.session = a.session /\ b.role = a.role
      /\ b.seen = a.seen /\ b.todo = a.todo
  BY DEF Args
<1>3. \A label \in Labels : LocalsOK(label, a) => LocalsOK(label, b)
  BY <1>2 DEF LocalsOK
<1>4. \A label \in Labels : Known(label, a) => Known(label, b)
  BY <1>2 DEF Known, KnowsUser, KnowsRoles, KnowsSessions
<1>5. QED BY <1>1, <1>3, <1>4

LEMMA ByClerkInv ==
    ASSUME Inv, NEW r \in Requests, ByClerk(r), UNCHANGED around
    PROVE  Inv'
<1>0. /\ arg[r] \in Args /\ LocalsOK("byClerk", arg[r]) /\ Known("byClerk", arg[r])
      /\ "byEmail" \in Labels
  BY LocalsTyped DEF ByClerk, Inv, Knows, Labels
<1>1. LocalsOK("byEmail", arg[r]) /\ Known("byEmail", arg[r])
  BY <1>0 DEF LocalsOK, CallOK, SyncLabels, CreateLabels, MemberLabels, SuperLabels,
              RequestLabels, VerifyLabels, LogoutLabels,
              Known, KnowsUser, KnowsRoles, KnowsSessions
<1>2. CASE Step(r, "byEmail")
  BY <1>0, <1>1, <1>2, StepInv DEF ByClerk
<1>3. ASSUME NEW e \in Emails, bound[e] = arg[r].clerk,
             GoTo(r, "byEmail", [arg[r] EXCEPT !.by = e, !.status = user[e]])
      PROVE  Inv'
  <2> PICK b : b = [arg[r] EXCEPT !.by = e]
    OBVIOUS
  <2> PICK a : a = [arg[r] EXCEPT !.by = e, !.status = user[e]]
    OBVIOUS
  <2>1. user[e] \in UserStatus
    BY DEF Inv, Shape, TablesOK
  <2>2. a \in Args
    BY <1>0, <2>1 DEF Args
  <2>3. /\ a.call = arg[r].call /\ a.email = arg[r].email /\ a.clerk = arg[r].clerk /\ a.by = e
        /\ a.seen = arg[r].seen /\ a.session = arg[r].session
    BY <1>0 DEF Args
  <2>4. arg[r].call = "sync"
    BY <1>0 DEF LocalsOK, CallOK, SyncLabels
  <2>5. LocalsOK("byEmail", a)
    BY <1>1, <2>3, <2>4 DEF LocalsOK
  <2>6. Known("byEmail", a)
    BY <1>1, <1>3, <2>3, <2>4 DEF Known, KnowsUser, KnowsRoles, KnowsSessions
  <2>7. QED BY <1>0, <1>3, <2>2, <2>5, <2>6, ReadInv DEF ByClerk
<1>4. QED BY <1>2, <1>3 DEF ByClerk

LEMMA ByEmailInv ==
    ASSUME Inv, NEW r \in Requests, ByEmail(r), UNCHANGED around
    PROVE  Inv'
<1> DEFINE e == arg[r].email
<1>0. /\ arg[r] \in Args /\ LocalsOK("byEmail", arg[r]) /\ Known("byEmail", arg[r])
      /\ UNCHANGED <<around, rows>>
  BY LocalsTyped DEF ByEmail, Inv, Knows
<1>1. arg[r].call = "sync" /\ e \in Emails
  BY <1>0 DEF LocalsOK, CallOK, SyncLabels
<1>2. CASE Throw(r)
  BY <1>0, <1>2, ThrowInv DEF Throw
<1>3. ASSUME Plan(r, e) # "conflict"
      PROVE  /\ Plan(r, e) \in {"countRoles", "link", "insertUser"}
             /\ LocalsOK(Plan(r, e), arg[r]) /\ Known(Plan(r, e), arg[r])
  <2>1. Plan(r, e) \in {"countRoles", "link", "insertUser"}
    BY <1>1, <1>3, NoneIsNobody DEF Plan
  <2>2. LocalsOK(Plan(r, e), arg[r])
    BY <1>0, <1>1, <2>1
    DEF LocalsOK, CallOK, SyncLabels, CreateLabels, MemberLabels, SuperLabels,
        RequestLabels, VerifyLabels, LogoutLabels
  <2>3. KnowsUser(Plan(r, e), arg[r])
    BY <1>1, <1>3, NoneIsNobody DEF KnowsUser, Plan
  <2>4. KnowsRoles(Plan(r, e), arg[r]) /\ KnowsSessions(Plan(r, e), arg[r])
    BY <1>1, <2>1 DEF KnowsRoles, KnowsSessions
  <2>5. QED BY <2>1, <2>2, <2>3, <2>4 DEF Known
<1>4. CASE Plan(r, e) # "conflict"
  <2> DEFINE st == IF arg[r].by = e THEN arg[r].status
                   ELSE IF user[e] = "none" THEN "active" ELSE user[e]
  <2>1. st \in UserStatus
    BY <1>0, <1>1 DEF Inv, Shape, TablesOK, Args, UserStatus
  <2>2. GoTo(r, Plan(r, e), [arg[r] EXCEPT !.status = st])
    BY <1>4 DEF ByEmail
  <2>3. Plan(r, e) \in Labels
    BY <1>3, <1>4 DEF Labels
  <2> HIDE DEF st
  <2>4. QED BY <1>0, <1>3, <1>4, <2>1, <2>2, <2>3, StatusArg, ReadInv
<1>5. QED BY <1>2, <1>4 DEF ByEmail

LEMMA LinkInv ==
    ASSUME Inv, NEW r \in Requests, Link(r), UNCHANGED around
    PROVE  Inv'
<1> PICK a, e, k : a = arg[r] /\ e = a.email /\ k = a.clerk
  OBVIOUS
<1>0. /\ Shape /\ a \in Args /\ LocalsOK("link", a) /\ Known("link", a)
  BY LocalsTyped DEF Link, Inv, Knows
<1>1. a.call = "sync" /\ e \in Emails /\ k \in Clerks /\ user[e] # "none"
  BY <1>0 DEF LocalsOK, CallOK, SyncLabels, Known, KnowsUser
<1>2. CASE Throw(r) /\ UNCHANGED bound
  BY <1>2, ThrowInv DEF Throw, Link, rows
<1>3. CASE bound' = [bound EXCEPT ![e] = k] /\ Step(r, "countRoles")
  <2>1. UNCHANGED <<around, user, profile, roles, code, session, bucket>>
    BY DEF Link
  <2>2. /\ bound' \in [Emails -> Clerks \cup {None}]
        /\ \A f \in Emails : f # e => bound'[f] = bound[f]
    BY <1>0, <1>1, <1>3 DEF Shape, TablesOK
  <2>3. TablesOK'
    BY <1>0, <1>1, <2>1, <2>2 DEF Shape, TablesOK, AddressesOK, around
  <2>4. Grows
    BY <2>1 DEF Grows
  <2>5. LocalsOK("countRoles", a) /\ "countRoles" \in Labels
    BY <1>0, <1>1
    DEF LocalsOK, CallOK, SyncLabels, CreateLabels, MemberLabels, SuperLabels,
        RequestLabels, VerifyLabels, LogoutLabels, Labels
  <2>6. Known("countRoles", a)'
    BY <1>0, <1>1, <2>1 DEF Known, KnowsUser, KnowsRoles, KnowsSessions
  <2>7. QED BY <1>0, <1>3, <2>3, <2>4, <2>5, <2>6, MoveInv DEF Step
<1>4. QED BY <1>2, <1>3 DEF Link

LEMMA CountRolesInv ==
    ASSUME Inv, NEW r \in Requests, CountRoles(r) \/ CheckStatus(r), UNCHANGED around
    PROVE  Inv'
<1>0. /\ arg[r] \in Args /\ LocalsOK(pc[r], arg[r]) /\ Known(pc[r], arg[r])
      /\ UNCHANGED <<around, rows>>
  BY LocalsTyped DEF CountRoles, CheckStatus, Inv, Knows
<1>1. /\ arg[r].call = "sync" /\ arg[r].email \in Emails
  BY <1>0 DEF CountRoles, CheckStatus, LocalsOK, CallOK, SyncLabels
<1>2. CASE Throw(r)
  BY <1>0, <1>2, ThrowInv DEF Throw
<1>3. ASSUME NEW label \in {"findMember", "checkStatus", "findSuper", "done"},
             Step(r, label),
             label # "findMember" => roles[arg[r].email] # {},
             label = "done" => arg[r].email # Admin
      PROVE  Inv'
  <2>1. LocalsOK(label, arg[r]) /\ label \in Labels
    BY <1>0, <1>1
    DEF LocalsOK, CallOK, SyncLabels, CreateLabels, MemberLabels, SuperLabels,
        RequestLabels, VerifyLabels, LogoutLabels, Labels
  <2>2. Known(label, arg[r])
    BY <1>1, <1>3 DEF Known, KnowsUser, KnowsRoles, KnowsSessions
  <2>3. QED BY <1>0, <1>3, <2>1, <2>2, StepInv
<1>4. CASE CountRoles(r)
  BY <1>3, <1>4 DEF CountRoles
<1>5. CASE CheckStatus(r)
  <2>1. roles[arg[r].email] # {}
    BY <1>0, <1>1, <1>5 DEF CheckStatus, Known, KnowsRoles
  <2>2. QED BY <1>2, <1>3, <1>5, <2>1 DEF CheckStatus
<1>6. QED BY <1>4, <1>5
-----------------------------------------------------------------------------
(* The steps that make an account and grant its roles *)

LEMMA InsertUserInv ==
    ASSUME Inv, NEW r \in Requests, InsertUser(r), UNCHANGED around
    PROVE  Inv'
<1> PICK a, e, k : a = arg[r] /\ e = a.email /\ k = a.clerk
  OBVIOUS
<1>0. /\ Shape /\ a \in Args /\ LocalsOK("insertUser", a) /\ Known("insertUser", a)
  BY LocalsTyped DEF InsertUser, Inv, Knows
<1>1. /\ e \in Emails /\ k \in Clerks \cup {None}
      /\ a.call \in {"sync", "request", "bootstrap"}
  BY <1>0 DEF LocalsOK, CallOK, CreateLabels, Args
<1>2. CASE Throw(r) /\ UNCHANGED <<user, bound>>
  BY <1>2, ThrowInv DEF Throw, InsertUser, rows
<1>3. CASE /\ user[e] = "none" /\ user' = [user EXCEPT ![e] = "active"]
           /\ bound' = [bound EXCEPT ![e] = k] /\ Step(r, "insertProfile")
  <2>1. UNCHANGED <<around, profile, roles, code, session, bucket>>
    BY DEF InsertUser
  <2>2. /\ bound' \in [Emails -> Clerks \cup {None}]
        /\ \A f \in Emails : f # e => bound'[f] = bound[f] /\ user'[f] = user[f]
        /\ user'[e] = "active" /\ user' \in [Emails -> UserStatus]
    BY <1>0, <1>1, <1>3 DEF Shape, TablesOK, UserStatus
  <2>3. TablesOK'
    BY <1>0, <1>1, <2>1, <2>2 DEF Shape, TablesOK, AddressesOK, around
  <2>4. Grows
    BY <1>1, <2>1, <2>2 DEF Grows
  <2>5. LocalsOK("insertProfile", a) /\ "insertProfile" \in Labels
    BY <1>0
    DEF LocalsOK, CallOK, SyncLabels, CreateLabels, MemberLabels, SuperLabels,
        RequestLabels, VerifyLabels, LogoutLabels, Labels
  <2>6. KnowsUser("insertProfile", a)'
    BY DEF KnowsUser
  <2>7. KnowsRoles("insertProfile", a)' /\ KnowsSessions("insertProfile", a)'
    BY <1>1 DEF KnowsRoles, KnowsSessions
  <2>8. QED BY <1>0, <1>3, <2>1, <2>3, <2>4, <2>5, <2>6, <2>7, MoveInv DEF Step, Known
<1>4. QED BY <1>2, <1>3 DEF InsertUser

LEMMA ProfileInv ==
    ASSUME Inv, NEW r \in Requests, InsertProfile(r) \/ InsertContact(r), UNCHANGED around
    PROVE  Inv'
<1> PICK a : a = arg[r]
  OBVIOUS
<1> PICK label \in {"insertContact", "findMember"}, part \in ProfileParts :
        Step(r, label) /\ profile' = [profile EXCEPT ![arg[r].email] = part]
  BY DEF InsertProfile, InsertContact, ProfileParts
<1>0. /\ Shape /\ a \in Args /\ LocalsOK(pc[r], a) /\ Known(pc[r], a)
      /\ pc[r] \in {"insertProfile", "insertContact"}
      /\ UNCHANGED <<around, user, bound, roles, code, session, bucket>>
  BY LocalsTyped DEF InsertProfile, InsertContact, Inv, Knows
<1>1. a.email \in Emails /\ a.call \in {"sync", "request", "bootstrap"}
  BY <1>0 DEF LocalsOK, CallOK, CreateLabels
<1>2. TablesOK' /\ Grows
  BY <1>0, <1>1 DEF Shape, TablesOK, AddressesOK, around, Grows
<1>3. LocalsOK(label, a) /\ label \in Labels
  BY <1>0, <1>1
  DEF LocalsOK, CallOK, SyncLabels, CreateLabels, MemberLabels, SuperLabels,
      RequestLabels, VerifyLabels, LogoutLabels, Labels
<1>4. Known(label, a)'
  BY <1>0, <1>1 DEF Known, KnowsUser, KnowsRoles, KnowsSessions, around
<1>5. GoTo(r, label, a)
  BY DEF Step
<1>6. QED BY <1>0, <1>2, <1>3, <1>4, <1>5, MoveInv

\* A call that has the role it needs goes on.
LEMMA RoleThere ==
    ASSUME NEW label \in Labels, NEW a \in Args, LocalsOK(label, a),
           label \in MemberLabels \cup SuperLabels,
           NEW next \in {"checkStatus", "checkOtp", "done", "findSuper"},
           KnowsUser(label, a)', KnowsRoles(label, a)', KnowsSessions(label, a)',
           label \in MemberLabels => "member" \in roles'[a.email],
           label \in SuperLabels => "super_admin" \in roles'[a.email] /\ next = "done",
           label \in MemberLabels =>
                /\ a.call = "sync" => next = "checkStatus"
                /\ a.call = "request" => next = "checkOtp"
                /\ a.call = "verify" => next = "done"
                /\ a.call = "bootstrap" => next = "findSuper"
    PROVE  next \in Labels /\ LocalsOK(next, a) /\ Known(next, a)'
<1>1. a.email \in Emails /\ a.call \in {"sync", "request", "bootstrap", "verify"}
      /\ (label \in SuperLabels => a.call \in {"sync", "bootstrap"})
  BY DEF LocalsOK, CallOK, MemberLabels, SuperLabels
<1>2. next \in Labels /\ LocalsOK(next, a)
  BY <1>1
  DEF LocalsOK, CallOK, SyncLabels, CreateLabels, MemberLabels, SuperLabels,
      RequestLabels, VerifyLabels, LogoutLabels, Labels
<1>3. KnowsUser(next, a)'
  BY DEF KnowsUser, MemberLabels, SuperLabels
<1>4. KnowsRoles(next, a)'
  BY <1>1 DEF KnowsRoles, MemberLabels, SuperLabels
<1>5. KnowsSessions(next, a)'
  BY <1>1 DEF KnowsSessions, MemberLabels, SuperLabels
<1>6. QED BY <1>2, <1>3, <1>4, <1>5 DEF Known
\* Where AfterMember and the steps at SuperLabels lead.
LEMMA AfterMemberIs ==
    ASSUME Shape, NEW r \in Requests, pc[r] \in MemberLabels
    PROVE  /\ AfterMember(r) \in {"checkStatus", "checkOtp", "done", "findSuper"}
           /\ arg[r].call = "sync" => AfterMember(r) = "checkStatus"
           /\ arg[r].call = "request" => AfterMember(r) = "checkOtp"
           /\ arg[r].call = "verify" => AfterMember(r) = "done"
           /\ arg[r].call = "bootstrap" => AfterMember(r) = "findSuper"
  BY LocalsTyped DEF LocalsOK, CallOK, AfterMember

LEMMA FindRoleInv ==
    ASSUME Inv, NEW r \in Requests, FindMember(r) \/ FindSuper(r), UNCHANGED around
    PROVE  Inv'
<1> PICK a : a = arg[r]
  OBVIOUS
<1>0. /\ Shape /\ a \in Args /\ LocalsOK(pc[r], a) /\ Known(pc[r], a) /\ pc[r] \in Labels
      /\ UNCHANGED <<around, rows>>
  BY LocalsTyped DEF FindMember, FindSuper, Inv, Knows
<1> PICK label \in Labels : label = pc[r]
  BY <1>0
<1>1. KnowsUser(label, a)' /\ KnowsRoles(label, a)' /\ KnowsSessions(label, a)' /\ roles' = roles
  BY <1>0 DEF Known, KnowsUser, KnowsRoles, KnowsSessions, around, rows
<1>2. CASE FindMember(r)
  <2>1. label \in MemberLabels /\ label \notin SuperLabels
    BY <1>2 DEF FindMember, MemberLabels, SuperLabels
  <2>2. CASE "member" \in roles[a.email]
    <3> PICK next : next = AfterMember(r)
      OBVIOUS
    <3>1. /\ next \in {"checkStatus", "checkOtp", "done", "findSuper"}
          /\ a.call = "sync" => next = "checkStatus"
          /\ a.call = "request" => next = "checkOtp"
          /\ a.call = "verify" => next = "done"
          /\ a.call = "bootstrap" => next = "findSuper"
      BY <1>0, <2>1, AfterMemberIs
    <3>2. next \in Labels /\ LocalsOK(next, a) /\ Known(next, a)'
      BY <1>0, <1>1, <2>1, <2>2, <3>1, RoleThere
    <3>3. GoTo(r, next, a)
      BY <1>2, <2>2 DEF FindMember, Step
    <3>4. QED BY <1>0, <3>2, <3>3, KeptRows, MoveInv
  <2>3. CASE Step(r, "insertMember")
    <3>1. LocalsOK("insertMember", a) /\ "insertMember" \in Labels
      BY <1>0, <1>2
      DEF FindMember, LocalsOK, CallOK, SyncLabels, CreateLabels, MemberLabels, SuperLabels,
          RequestLabels, VerifyLabels, LogoutLabels, Labels
    <3>2. Known("insertMember", a)
      BY <1>0, <1>2 DEF FindMember, Known, KnowsUser, KnowsRoles, KnowsSessions
    <3>3. QED BY <1>0, <2>3, <3>1, <3>2, StepInv
  <2>4. QED BY <1>2, <2>2, <2>3 DEF FindMember
<1>3. CASE FindSuper(r)
  <2>1. label \in SuperLabels /\ label \notin MemberLabels
    BY <1>3 DEF FindSuper, MemberLabels, SuperLabels
  <2>2. CASE "super_admin" \in roles[a.email]
    <3>1. "done" \in Labels /\ LocalsOK("done", a) /\ Known("done", a)'
      BY <1>0, <1>1, <2>1, <2>2, RoleThere
    <3>2. GoTo(r, "done", a)
      BY <1>3, <2>2 DEF FindSuper, Step
    <3>3. QED BY <1>0, <3>1, <3>2, KeptRows, MoveInv
  <2>3. CASE Step(r, "insertSuper")
    <3>1. LocalsOK("insertSuper", a) /\ "insertSuper" \in Labels
      BY <1>0, <1>3
      DEF FindSuper, LocalsOK, CallOK, SyncLabels, CreateLabels, MemberLabels, SuperLabels,
          RequestLabels, VerifyLabels, LogoutLabels, Labels
    <3>2. Known("insertSuper", a)
      BY <1>0, <1>3 DEF FindSuper, Known, KnowsUser, KnowsRoles, KnowsSessions
    <3>3. QED BY <1>0, <2>3, <3>1, <3>2, StepInv
  <2>4. QED BY <1>3, <2>2, <2>3 DEF FindSuper
<1>4. QED BY <1>2, <1>3

\* The INSERT of a role: the row is there when the statement is through.
LEMMA GrantKeeps ==
    ASSUME Inv, NEW r \in Requests, NEW slug \in RoleNames, NEW next,
           arg[r].email \in Emails, slug \notin roles[arg[r].email],
           Grant(r, slug, next), UNCHANGED around
    PROVE  /\ TablesOK' /\ Grows /\ slug \in roles'[arg[r].email]
           /\ GoTo(r, next, arg[r])
           /\ UNCHANGED <<around, user, bound, profile, code, session, bucket>>
<1>1. /\ roles' = [roles EXCEPT ![arg[r].email] = @ \cup {slug}]
      /\ UNCHANGED <<around, user, bound, profile, code, session, bucket>>
  BY DEF Grant
<1>2. TablesOK' /\ Grows /\ slug \in roles'[arg[r].email]
  BY <1>1 DEF Inv, Shape, TablesOK, AddressesOK, Grows, around
<1>3. QED BY <1>1, <1>2 DEF Grant, Step

LEMMA GrantInv ==
    ASSUME Inv, NEW r \in Requests, InsertMember(r) \/ InsertSuper(r), UNCHANGED around
    PROVE  Inv'
<1> PICK a : a = arg[r]
  OBVIOUS
<1>0. /\ Shape /\ a \in Args /\ LocalsOK(pc[r], a) /\ Known(pc[r], a) /\ pc[r] \in Labels
      /\ pc[r] \in MemberLabels \cup SuperLabels
  BY LocalsTyped DEF InsertMember, InsertSuper, Inv, Knows, MemberLabels, SuperLabels
<1> PICK label \in Labels : label = pc[r]
  BY <1>0
<1> PICK slug \in RoleNames, next \in {"checkStatus", "checkOtp", "done", "findSuper"} :
        /\ Grant(r, slug, next)
        /\ label \in MemberLabels => slug = "member" /\ next = AfterMember(r)
        /\ label \in SuperLabels => slug = "super_admin" /\ next = "done"
  <2>1. CASE InsertMember(r)
    <3>1. label \in MemberLabels /\ label \notin SuperLabels
      BY <2>1 DEF InsertMember, MemberLabels, SuperLabels
    <3>2. AfterMember(r) \in {"checkStatus", "checkOtp", "done", "findSuper"}
      BY <1>0, <3>1, AfterMemberIs
    <3>3. QED BY <2>1, <3>1, <3>2 DEF InsertMember, RoleNames
  <2>2. CASE InsertSuper(r)
    BY <2>2 DEF InsertSuper, MemberLabels, SuperLabels, RoleNames
  <2>3. QED BY <2>1, <2>2
<1>1. a.email \in Emails
  BY <1>0 DEF LocalsOK, MemberLabels, SuperLabels
<1>2. CASE slug \in roles[a.email]
  <2>1. Return(r) /\ UNCHANGED <<around, rows>>
    BY <1>2 DEF Grant, Throw, rows
  <2>2. QED BY <2>1, ThrowInv
<1>3. CASE slug \notin roles[a.email]
  <2>1. /\ TablesOK' /\ Grows /\ slug \in roles'[a.email] /\ GoTo(r, next, a)
        /\ UNCHANGED <<around, user, bound, profile, code, session, bucket>>
    BY <1>1, <1>3, GrantKeeps
  <2>2. KnowsUser(label, a)' /\ KnowsSessions(label, a)'
    BY <1>0, <2>1 DEF Known, KnowsUser, KnowsSessions, around
  <2>3. KnowsRoles(label, a)'
    BY <1>0, <1>1, <2>1 DEF Known, KnowsRoles, Grows
  <2>4. label \in MemberLabels =>
           /\ "member" \in roles'[a.email]
           /\ a.call = "sync" => next = "checkStatus"
           /\ a.call = "request" => next = "checkOtp"
           /\ a.call = "verify" => next = "done"
           /\ a.call = "bootstrap" => next = "findSuper"
    BY <1>0, <2>1, AfterMemberIs
  <2>5. next \in Labels /\ LocalsOK(next, a) /\ Known(next, a)'
    BY <1>0, <2>1, <2>2, <2>3, <2>4, RoleThere
  <2>6. QED BY <1>0, <2>1, <2>5, MoveInv
<1>4. QED BY <1>2, <1>3

LEMMA InsertRoleInv ==
    ASSUME Inv, NEW r \in Requests, InsertRole(r), UNCHANGED around
    PROVE  Inv'
<1> PICK a : a = arg[r]
  OBVIOUS
<1>0. /\ a \in Args /\ LocalsOK("insertRole", a) /\ Known("insertRole", a)
      /\ Grant(r, a.role, "done")
  BY LocalsTyped DEF InsertRole, Inv, Knows
<1>1. a.email \in Emails /\ a.role \in RoleNames /\ a.call = "assign"
  BY <1>0 DEF LocalsOK, CallOK
<1>2. CASE a.role \in roles[a.email]
  <2>1. Return(r) /\ UNCHANGED <<around, rows>>
    BY <1>0, <1>2 DEF Grant, Throw, rows
  <2>2. QED BY <2>1, ThrowInv
<1>3. CASE a.role \notin roles[a.email]
  <2>1. /\ TablesOK' /\ Grows /\ GoTo(r, "done", a)
        /\ UNCHANGED <<around, user, bound, profile, code, session, bucket>>
    BY <1>0, <1>1, <1>3, GrantKeeps
  <2>2. LocalsOK("done", a) /\ "done" \in Labels
    BY <1>0, <1>1
    DEF LocalsOK, CallOK, SyncLabels, CreateLabels, MemberLabels, SuperLabels,
        RequestLabels, VerifyLabels, LogoutLabels, Labels
  <2>3. Known("done", a)'
    BY <1>0, <1>1, <2>1 DEF Known, KnowsUser, KnowsRoles, KnowsSessions, around
  <2>4. QED BY <1>0, <2>1, <2>2, <2>3, MoveInv
<1>4. QED BY <1>2, <1>3
-----------------------------------------------------------------------------
(* requestLoginOtp *)

\* The locals that a call of the legacy provider changes on its way.
LEMMA CountArg ==
    ASSUME NEW a \in Args, NEW n \in Nat
    PROVE  /\ [a EXCEPT !.count = n] \in Args
           /\ [a EXCEPT !.count = n].count = n
           /\ [a EXCEPT !.count = n].call = a.call
           /\ [a EXCEPT !.count = n].email = a.email
           /\ [a EXCEPT !.count = n].clerk = a.clerk
           /\ [a EXCEPT !.count = n].by = a.by
<1>1. [a EXCEPT !.count = n] \in Args
  BY DEF Args
<1>2. QED BY DEF Args

LEMMA TryArg ==
    ASSUME NEW a \in Args, a.try # 1
    PROVE  /\ [a EXCEPT !.try = @ - 1] \in Args
           /\ [a EXCEPT !.try = @ - 1].call = a.call
           /\ [a EXCEPT !.try = @ - 1].email = a.email
           /\ [a EXCEPT !.try = @ - 1].clerk = a.clerk
           /\ [a EXCEPT !.try = @ - 1].by = a.by
<1>1. a.try - 1 \in 1..3
  BY DEF Args
<1>2. [a EXCEPT !.try = @ - 1] \in Args
  BY <1>1 DEF Args
<1>3. QED BY <1>2 DEF Args

\* A call to requestLoginOtp has nothing to know.
LEMMA RequestKnows ==
    ASSUME NEW label \in RequestLabels \cup {"done", "insertUser"}, NEW a \in Args,
           a.call = "request"
    PROVE  label \in Labels /\ Known(label, a)
<1>1. label \in Labels /\ label \notin {"link", "readUser", "revoke", "revokeEach"}
  BY DEF RequestLabels, Labels
<1>2. QED BY <1>1 DEF Known, KnowsUser, KnowsRoles, KnowsSessions

LEMMA RequestInv ==
    ASSUME Inv, NEW r \in Requests, UNCHANGED around,
           FindBucket(r) \/ InsertBucket(r) \/ CountBucket(r) \/ Latest(r) \/ CheckOtp(r)
             \/ \E c \in Codes : InsertCode(r, c)
    PROVE  Inv'
<1> PICK a : a = arg[r]
  OBVIOUS
<1> PICK l : l = pc[r]
  OBVIOUS
<1>0. /\ Shape /\ a \in Args /\ LocalsOK(l, a) /\ Known(l, a) /\ l \in RequestLabels
  BY LocalsTyped
  DEF FindBucket, InsertBucket, CountBucket, Latest, CheckOtp, InsertCode, Inv, Knows,
      RequestLabels
<1>1. a.call = "request" /\ a.email \in Emails /\ a.by = None
  <2>1. a.call = "request"
    BY <1>0 DEF LocalsOK, CallOK
  <2>2. QED BY <1>0, <2>1 DEF LocalsOK, RequestLabels
<1>2. bucket \in [Emails -> 0..Limit]
  BY <1>0 DEF Shape, TablesOK, BucketCounts
\* Every one of them goes on like this, or throws.
<1>3. ASSUME NEW label \in RequestLabels \cup {"done"}, NEW b \in Args, GoTo(r, label, b),
             b.call = a.call, b.email = a.email, b.clerk = a.clerk, b.by = a.by,
             label = "countBucket" => b.count \in 1..(Limit - 1),
             UNCHANGED <<around, user, bound, profile, roles, session>>,
             code' \in [Codes -> CodeRows], bucket' \in [Emails -> 0..Limit]
      PROVE  Inv'
  <2>1. label \in Labels /\ Known(label, b)
    BY <1>1, <1>3, RequestKnows
  <2>2. Known(label, b)'
    BY <1>3, <2>1 DEF Known, KnowsUser, KnowsRoles, KnowsSessions, around
  <2>3. LocalsOK(label, b)
    BY <1>1, <1>3
    DEF LocalsOK, CallOK, SyncLabels, CreateLabels, MemberLabels, SuperLabels,
        RequestLabels, VerifyLabels, LogoutLabels
  <2>4. TablesOK' /\ Grows
    BY <1>0, <1>3 DEF Shape, TablesOK, AddressesOK, BucketCounts, Grows, around
  <2>5. QED BY <1>3, <2>1, <2>2, <2>3, <2>4, MoveInv
<1>4. code \in [Codes -> CodeRows]
  BY <1>0 DEF Shape, TablesOK
<1>5. {"insertBucket", "latest", "findBucket", "insertCode"} \subseteq RequestLabels
  BY DEF RequestLabels
<1>6. CASE FindBucket(r)
  <2>1. CASE Throw(r)
    BY <1>6, <2>1, ThrowInv DEF FindBucket, Throw
  <2>2. CASE Step(r, "insertBucket")
    BY <1>0, <1>2, <1>3, <1>4, <1>5, <1>6, <2>2 DEF FindBucket, Step, rows
  <2>3. CASE /\ bucket[a.email] \in 1..(Limit - 1)
             /\ GoTo(r, "countBucket", [a EXCEPT !.count = bucket[a.email]])
    <3> PICK n \in 1..(Limit - 1) : n = bucket[a.email]
      BY <2>3
    <3> PICK b : b = [a EXCEPT !.count = n]
      OBVIOUS
    <3>1. /\ b \in Args /\ b.count = n /\ b.call = a.call /\ b.email = a.email
          /\ b.clerk = a.clerk /\ b.by = a.by
      BY <1>0, CountArg, LimitsPositive
    <3>2. "countBucket" \in RequestLabels
      BY DEF RequestLabels
    <3>3. QED BY <1>2, <1>3, <1>4, <1>6, <2>3, <3>1, <3>2 DEF FindBucket, rows
  <2>4. QED BY <1>6, <2>1, <2>2, <2>3 DEF FindBucket
<1>7. CASE InsertBucket(r)
  <2>1. bucket' \in [Emails -> 0..Limit]
    BY <1>1, <1>2, <1>7, LimitsPositive DEF InsertBucket
  <2>2. CASE Step(r, "latest")
    BY <1>0, <1>3, <1>4, <1>5, <1>7, <2>1, <2>2 DEF InsertBucket, Step
  <2>3. CASE UNCHANGED bucket /\ Throw(r)
    BY <1>7, <2>3, ThrowInv DEF InsertBucket, Throw, rows
  <2>4. CASE /\ UNCHANGED bucket /\ a.try # 1
             /\ GoTo(r, "findBucket", [a EXCEPT !.try = @ - 1])
    <3> PICK b : b = [a EXCEPT !.try = @ - 1]
      OBVIOUS
    <3>1. b \in Args /\ b.call = a.call /\ b.email = a.email /\ b.clerk = a.clerk /\ b.by = a.by
      BY <1>0, <2>4, TryArg
    <3>2. QED BY <1>3, <1>4, <1>5, <1>7, <2>1, <2>4, <3>1 DEF InsertBucket
  <2>5. QED BY <1>7, <2>2, <2>3, <2>4 DEF InsertBucket
<1>8. CASE CountBucket(r)
  <2> PICK b : b = [a EXCEPT !.count = 0]
    OBVIOUS
  <2>1. b \in Args /\ b.call = a.call /\ b.email = a.email /\ b.clerk = a.clerk /\ b.by = a.by
    BY <1>0, CountArg
  <2>2. a.count \in 1..(Limit - 1)
    BY <1>0, <1>8 DEF CountBucket, LocalsOK
  <2>3. bucket' \in [Emails -> 0..Limit]
    BY <1>1, <1>2, <1>8, <2>2, LimitsPositive DEF CountBucket
  <2>4. QED BY <1>3, <1>4, <1>5, <1>8, <2>1, <2>3 DEF CountBucket
<1>9. CASE Latest(r)
  <2>1. CASE Throw(r)
    BY <1>9, <2>1, ThrowInv DEF Latest, Throw
  <2>2. CASE Step(r, "findUser")
    <3>1. "findUser" \in Labels /\ LocalsOK("findUser", a)
      BY <1>1
      DEF LocalsOK, CallOK, SyncLabels, CreateLabels, MemberLabels, SuperLabels,
          RequestLabels, VerifyLabels, LogoutLabels, Labels
    <3>2. Known("findUser", a)
      BY <1>1 DEF Known, KnowsUser, KnowsRoles, KnowsSessions
    <3>3. QED BY <1>9, <2>2, <3>1, <3>2, StepInv DEF Latest
  <2>3. QED BY <1>9, <2>1, <2>2 DEF Latest
<1>10. CASE CheckOtp(r)
  <2>1. CASE Return(r)
    BY <1>10, <2>1, ThrowInv DEF CheckOtp
  <2>2. CASE Step(r, "insertCode")
    BY <1>0, <1>2, <1>3, <1>4, <1>5, <1>10, <2>2 DEF CheckOtp, Step, rows
  <2>3. QED BY <1>10, <2>1, <2>2 DEF CheckOtp
<1>11. ASSUME NEW c \in Codes, InsertCode(r, c)
       PROVE  Inv'
  <2>1. Cardinality({d \in Codes : code[d] # NoCode}) \in Nat
    BY CodesAreFinite, FS_Subset, FS_CardinalityType
  <2>2. code' \in [Codes -> CodeRows]
    BY <1>1, <1>4, <1>11, <2>1, LimitsPositive DEF InsertCode, CodeRows, Attempts
  <2>3. QED BY <1>0, <1>2, <1>3, <1>11, <2>2 DEF InsertCode, Step
<1>12. QED BY <1>6, <1>7, <1>8, <1>9, <1>10, <1>11
LEMMA FindUserInv ==
    ASSUME Inv, NEW r \in Requests, FindUser(r), UNCHANGED around
    PROVE  Inv'
<1> PICK a, e : a = arg[r] /\ e = a.email
  OBVIOUS
<1>0. /\ Shape /\ a \in Args /\ LocalsOK("findUser", a) /\ Known("findUser", a)
      /\ UNCHANGED <<around, rows>>
  BY LocalsTyped DEF FindUser, Inv, Knows
<1>1. a.call \in {"request", "bootstrap"} /\ e \in Emails
  BY <1>0 DEF LocalsOK, CallOK
<1>2. PICK label \in {"insertUser", "findMember", "checkOtp"}, st \in UserStatus :
        /\ GoTo(r, label, [a EXCEPT !.status = st])
        /\ label = "checkOtp" => a.call = "request"
  <2>1. user[e] \in UserStatus /\ "active" \in UserStatus
    BY <1>0, <1>1 DEF Shape, TablesOK, UserStatus
  <2>2. QED BY <1>1, <2>1 DEF FindUser
<1>3. label \in Labels /\ LocalsOK(label, a)
  BY <1>0, <1>1, <1>2
  DEF LocalsOK, CallOK, SyncLabels, CreateLabels, MemberLabels, SuperLabels,
      RequestLabels, VerifyLabels, LogoutLabels, Labels
<1>4. Known(label, a)
  BY <1>0, <1>1 DEF Known, KnowsUser, KnowsRoles, KnowsSessions
<1>5. QED BY <1>0, <1>2, <1>3, <1>4, StatusArg, ReadInv

-----------------------------------------------------------------------------
(* verifyLoginOtp *)

LEMMA OpenSessionArg ==
    ASSUME NEW a \in Args, NEW s \in Sessions
    PROVE  /\ [a EXCEPT !.session = s] \in Args
           /\ [a EXCEPT !.session = s].session = s
           /\ [a EXCEPT !.session = s].call = a.call
           /\ [a EXCEPT !.session = s].email = a.email
           /\ [a EXCEPT !.session = s].clerk = a.clerk
           /\ [a EXCEPT !.session = s].by = a.by
<1>1. [a EXCEPT !.session = s] \in Args
  BY DEF Args
<1>2. QED BY DEF Args

LEMMA VerifyInv ==
    ASSUME Inv, NEW r \in Requests, UNCHANGED around,
           FindCode(r) \/ Wrong(r) \/ Consume(r) \/ FindActive(r)
             \/ \E s \in Sessions : InsertSession(r, s)
    PROVE  Inv'
<1> PICK a : a = arg[r]
  OBVIOUS
<1> PICK l : l = pc[r]
  OBVIOUS
<1>0. /\ Shape /\ a \in Args /\ LocalsOK(l, a) /\ Known(l, a) /\ l \in VerifyLabels
  BY LocalsTyped
  DEF FindCode, Wrong, Consume, FindActive, InsertSession, Inv, Knows, VerifyLabels
<1>1. a.call = "verify" /\ a.email \in Emails /\ a.by = None
  <2>1. a.call = "verify"
    BY <1>0 DEF LocalsOK, CallOK
  <2>2. QED BY <1>0, <2>1 DEF LocalsOK, VerifyLabels
<1>2. code \in [Codes -> CodeRows] /\ session \in [Sessions -> SessionRows]
  BY <1>0 DEF Shape, TablesOK
\* Every one of them goes on like this, or throws.
<1>3. ASSUME NEW label \in {"wrong", "consume", "findActive", "insertSession", "findMember"},
             NEW b \in Args, GoTo(r, label, b),
             b.call = a.call, b.email = a.email, b.clerk = a.clerk, b.by = a.by,
             label = "wrong" => b.count \in 0..(MaxAttempts - 1),
             label \in {"wrong", "consume"} => b.code \in Codes,
             label = "findMember" => b.session \in Sessions /\ session'[b.session].email = a.email,
             UNCHANGED <<around, user, bound, profile, roles, bucket>>,
             TablesOK', Grows
      PROVE  Inv'
  <2>1. label \in Labels /\ LocalsOK(label, b)
    BY <1>1, <1>3
    DEF LocalsOK, CallOK, SyncLabels, CreateLabels, MemberLabels, SuperLabels,
        RequestLabels, VerifyLabels, LogoutLabels, Labels
  <2>2. Known(label, b)'
    BY <1>1, <1>3 DEF Known, KnowsUser, KnowsRoles, KnowsSessions, around
  <2>3. QED BY <1>3, <2>1, <2>2, MoveInv
\* ... having written to a code, or nothing.
<1>4. ASSUME code' \in [Codes -> CodeRows],
             UNCHANGED <<around, user, bound, profile, roles, session, bucket>>
      PROVE  TablesOK' /\ Grows
  BY <1>0, <1>4 DEF Shape, TablesOK, AddressesOK, Grows, around
<1>5. CASE FindCode(r)
  <2>1. CASE Throw(r)
    BY <1>5, <2>1, ThrowInv DEF FindCode, Throw
  <2>2. ASSUME NEW c \in Codes, code[c].attempts < MaxAttempts,
               NEW label \in {"wrong", "consume"},
               GoTo(r, label, [a EXCEPT !.code = c, !.count = code[c].attempts])
        PROVE  Inv'
    <3> PICK n : n = code[c].attempts
      OBVIOUS
    <3> PICK b : b = [a EXCEPT !.code = c, !.count = n]
      OBVIOUS
    <3>1. n \in Nat /\ n \in 0..(MaxAttempts - 1)
      BY <1>2, <2>2, LimitsPositive DEF CodeRows, Attempts
    <3>2. /\ b \in Args /\ b.code = c /\ b.count = n /\ b.call = a.call /\ b.email = a.email
          /\ b.clerk = a.clerk /\ b.by = a.by
      <4>1. b \in Args
        BY <1>0, <3>1 DEF Args
      <4>2. QED BY <1>0, <3>1, <4>1 DEF Args
    <3>3. UNCHANGED <<around, user, bound, profile, roles, code, session, bucket>>
      BY <1>5 DEF FindCode, rows
    <3>4. TablesOK' /\ Grows
      BY <1>2, <1>4, <3>3
    <3>5. QED BY <1>3, <2>2, <3>1, <3>2, <3>3, <3>4
  <2>3. QED BY <1>5, <2>1, <2>2 DEF FindCode, LatestCode, OpenCodes
<1>6. CASE Wrong(r)
  <2>1. a.code \in Codes /\ a.count + 1 \in Attempts
    BY <1>0, <1>6, LimitsPositive DEF Wrong, LocalsOK, Attempts
  <2>2. code' \in [Codes -> CodeRows]
    BY <1>2, <1>6, <2>1 DEF Wrong, CodeRows
  <2>3. TablesOK' /\ Grows
    BY <1>4, <1>6, <2>2 DEF Wrong
  <2>4. QED BY <1>6, <2>3, ReturnInv DEF Wrong, Throw, around
<1>7. CASE Consume(r)
  <2> PICK b : b = [a EXCEPT !.code = None, !.count = 0]
    OBVIOUS
  <2>1. a.code \in Codes
    BY <1>0, <1>7 DEF Consume, LocalsOK
  <2>2. code' \in [Codes -> CodeRows]
    BY <1>2, <1>7, <2>1 DEF Consume, CodeRows
  <2>3. b \in Args /\ b.call = a.call /\ b.email = a.email /\ b.clerk = a.clerk /\ b.by = a.by
    <3>1. b \in Args
      BY <1>0 DEF Args
    <3>2. QED BY <1>0, <3>1 DEF Args
  <2>4. TablesOK' /\ Grows
    BY <1>4, <1>7, <2>2 DEF Consume
  <2>5. QED BY <1>3, <1>7, <2>3, <2>4 DEF Consume
<1>8. CASE FindActive(r)
  <2>1. CASE Throw(r)
    BY <1>8, <2>1, ThrowInv DEF FindActive, Throw
  <2>2. CASE Step(r, "insertSession")
    <3>1. UNCHANGED <<around, user, bound, profile, roles, code, session, bucket>>
      BY <1>8 DEF FindActive, rows
    <3>2. TablesOK' /\ Grows
      BY <1>2, <1>4, <3>1
    <3>3. QED BY <1>0, <1>3, <2>2, <3>1, <3>2 DEF Step
  <2>3. QED BY <1>8, <2>1, <2>2 DEF FindActive
<1>9. ASSUME NEW s \in Sessions, InsertSession(r, s)
      PROVE  Inv'
  <2> PICK b : b = [a EXCEPT !.session = s]
    OBVIOUS
  <2>1. /\ b \in Args /\ b.session = s /\ b.call = a.call /\ b.email = a.email
        /\ b.clerk = a.clerk /\ b.by = a.by
    BY <1>0, OpenSessionArg
  <2>2. /\ session[s].email = None /\ session'[s] = [email |-> a.email, status |-> "open"]
        /\ \A t \in Sessions : t # s => session'[t] = session[t]
        /\ session' \in [Sessions -> SessionRows]
        /\ UNCHANGED <<around, user, bound, profile, roles, code, bucket>>
    BY <1>1, <1>2, <1>9 DEF InsertSession, NoSession, SessionRows
  <2>3. session'[s].email = a.email
    BY <2>2
  <2>4. TablesOK'
    BY <1>0, <1>1, <2>2, <2>3 DEF Shape, TablesOK, AddressesOK, around
  <2>5. Grows
    BY <2>2 DEF Grows
  <2>6. GoTo(r, "findMember", b)
    BY <1>9 DEF InsertSession
  <2>7. QED BY <1>3, <2>1, <2>2, <2>3, <2>4, <2>5, <2>6
<1>10. QED BY <1>5, <1>6, <1>7, <1>8, <1>9
-----------------------------------------------------------------------------
(* Sessions *)

LEMMA TodoArg ==
    ASSUME NEW a \in Args, NEW todo \in SUBSET Sessions
    PROVE  /\ [a EXCEPT !.todo = todo] \in Args
           /\ [a EXCEPT !.todo = todo].todo = todo
           /\ [a EXCEPT !.todo = todo].seen = a.seen
           /\ [a EXCEPT !.todo = todo].call = a.call
           /\ [a EXCEPT !.todo = todo].email = a.email
           /\ [a EXCEPT !.todo = todo].clerk = a.clerk
           /\ [a EXCEPT !.todo = todo].by = a.by
<1>1. [a EXCEPT !.todo = todo] \in Args
  BY DEF Args
<1>2. QED BY DEF Args

LEMMA SessionLabels ==
    ASSUME NEW label \in {"revoke", "list", "revokeEach", "done"}, NEW a \in Args, a.email \in Emails,
           a.call \in {"page", "logout", "logoutAll"}, a.by = None,
           label = "revoke" => a.call = "logout" /\ a.session \in Sessions,
           label \in LogoutLabels => a.call = "logoutAll"
    PROVE  label \in Labels /\ LocalsOK(label, a)
  BY DEF LocalsOK, CallOK, SyncLabels, CreateLabels, MemberLabels, SuperLabels,
         RequestLabels, VerifyLabels, LogoutLabels, Labels

LEMMA ReadUserInv ==
    ASSUME Inv, NEW r \in Requests, UNCHANGED around, ReadUser(r)
    PROVE  Inv'
<1> PICK a : a = arg[r]
  OBVIOUS
<1>0. /\ Shape /\ a \in Args /\ LocalsOK("readUser", a) /\ Known("readUser", a)
      /\ UNCHANGED <<around, rows>>
  BY LocalsTyped DEF ReadUser, Inv, Knows
<1>1. /\ a.email \in Emails /\ a.call \in {"page", "logout", "logoutAll"} /\ a.by = None
      /\ a.session \in Sessions
  BY <1>0 DEF LocalsOK, CallOK
<1>2. CASE Throw(r)
  BY <1>0, <1>2, ThrowInv DEF Throw
<1>3. ASSUME NEW label \in {"revoke", "list", "done"}, GoTo(r, label, a),
             a.call = "page" => label = "done",
             a.call = "logout" => label = "revoke",
             a.call = "logoutAll" => label = "list"
      PROVE  Inv'
  <2>1. label = "revoke" => a.call = "logout"
    BY <1>1, <1>3
  <2>2. label \in LogoutLabels => a.call = "logoutAll"
    BY <1>1, <1>3 DEF LogoutLabels
  <2>3. label \in Labels /\ LocalsOK(label, a)
    BY <1>0, <1>1, <1>3, <2>1, <2>2, SessionLabels
  <2>4. Known(label, a)
    BY <1>0, <1>1, <1>3 DEF Known, KnowsUser, KnowsRoles, KnowsSessions
  <2>5. QED BY <1>0, <1>3, <2>3, <2>4, ReadInv
<1>4. CASE user[a.email] = "active"
  <2>1. CASE a.call = "page"
    BY <1>3, <1>4, <2>1 DEF ReadUser, Step
  <2>2. CASE a.call = "logout"
    BY <1>3, <1>4, <2>2 DEF ReadUser, Step
  <2>3. CASE a.call = "logoutAll"
    BY <1>3, <1>4, <2>3 DEF ReadUser, Step
  <2>4. QED BY <1>1, <2>1, <2>2, <2>3
<1>5. QED BY <1>2, <1>4 DEF ReadUser

\* A session that is revoked.
LEMMA RevokedRows ==
    ASSUME Inv, NEW s \in Sessions, session' = [session EXCEPT ![s].status = "revoked"],
           UNCHANGED <<around, user, bound, profile, roles, code, bucket>>,
           session[s].email \in Emails
    PROVE  /\ TablesOK' /\ Grows
           /\ session'[s].status = "revoked" /\ session'[s].email = session[s].email
           /\ \A t \in Sessions : t # s => session'[t] = session[t]
<1>1. session \in [Sessions -> SessionRows]
  BY DEF Inv, Shape, TablesOK
<1>2. /\ session'[s].status = "revoked" /\ session'[s].email = session[s].email
      /\ \A t \in Sessions : t # s => session'[t] = session[t]
      /\ session' \in [Sessions -> SessionRows]
  BY <1>1 DEF SessionRows
<1>3. TablesOK'
  BY <1>1, <1>2 DEF Inv, Shape, TablesOK, AddressesOK, around
<1>4. Grows
  BY <1>2 DEF Grows
<1>5. QED BY <1>2, <1>3, <1>4
LEMMA LogoutInv ==
    ASSUME Inv, NEW r \in Requests, UNCHANGED around, Revoke(r) \/ List(r) \/ RevokeEach(r)
    PROVE  Inv'
<1> PICK a, l : a = arg[r] /\ l = pc[r]
  OBVIOUS
<1>0. /\ Shape /\ a \in Args /\ LocalsOK(l, a) /\ Known(l, a)
  BY LocalsTyped DEF Inv, Knows
<1>1. /\ a.email \in Emails /\ a.call \in {"logout", "logoutAll"} /\ a.by = None
      /\ (l \in LogoutLabels => a.call = "logoutAll")
      /\ (a.call = "logoutAll" => \A s \in a.seen : session[s].email = a.email)
      /\ a.todo \subseteq Sessions /\ a.seen \subseteq Sessions
  <2>1. l \in {"revoke", "list", "revokeEach"}
    BY DEF Revoke, List, RevokeEach
  <2>2. a.email \in Emails
    BY <1>0, <2>1 DEF LocalsOK
  <2>3. a.call \in {"logout", "logoutAll"} /\ (l \in LogoutLabels => a.call = "logoutAll")
    BY <1>0, <2>1 DEF LocalsOK, CallOK, LogoutLabels
  <2>4. a.by = None
    BY <1>0, <2>3 DEF LocalsOK
  <2>5. a.call = "logoutAll" => \A s \in a.seen : session[s].email = a.email
    BY <1>0 DEF Known, KnowsSessions
  <2>6. QED BY <1>0, <2>2, <2>3, <2>4, <2>5 DEF Args
\* Every one of them goes on like this.
<1>2. ASSUME NEW label \in {"revokeEach", "done"}, NEW b \in Args, GoTo(r, label, b),
             b.call = a.call, b.email = a.email, b.clerk = a.clerk, b.by = a.by,
             b.seen = a.seen,
             label = "revokeEach" => a.call = "logoutAll",
             UNCHANGED <<around, user, bound, profile, roles, code, bucket>>,
             TablesOK', Grows,
             label = "revokeEach" => \A s \in b.todo : session'[s].email = a.email,
             a.call = "logoutAll" =>
                \A s \in a.seen : session'[s].status = "open" => label = "revokeEach" /\ s \in b.todo
      PROVE  Inv'
  <2>1. label \in Labels /\ LocalsOK(label, b)
    BY <1>1, <1>2
    DEF LocalsOK, CallOK, SyncLabels, CreateLabels, MemberLabels, SuperLabels,
        RequestLabels, VerifyLabels, LogoutLabels, Labels
  <2>2. KnowsUser(label, b)' /\ KnowsRoles(label, b)'
    BY <1>1, <1>2 DEF KnowsUser, KnowsRoles, around
  <2>3. a.call = "logoutAll" => \A s \in a.seen : session'[s].email = a.email
    BY <1>1, <1>2, NoneIsNobody DEF Grows
  <2>4. KnowsSessions(label, b)'
    BY <1>1, <1>2, <2>3 DEF KnowsSessions
  <2>5. QED BY <1>2, <2>1, <2>2, <2>4, MoveInv DEF Known
<1>3. CASE Revoke(r)
  <2>1. a.session \in Sessions /\ session[a.session].email = a.email /\ a.call = "logout"
    BY <1>0, <1>3 DEF Revoke, LocalsOK, CallOK, Known, KnowsSessions
  <2>2. TablesOK' /\ Grows
    BY <1>1, <1>3, <2>1, RevokedRows DEF Revoke
  <2>3. GoTo(r, "done", a)
    BY <1>3 DEF Revoke, Step
  <2>4. QED BY <1>0, <1>2, <1>3, <2>1, <2>2, <2>3 DEF Revoke
<1>4. CASE List(r)
  <2> PICK todo : todo = OpenSessions(a.email)
    OBVIOUS
  <2> PICK b : b = [a EXCEPT !.todo = todo]
    OBVIOUS
  <2>1. /\ todo \in SUBSET Sessions
        /\ \A s \in Sessions : s \in todo <=> session[s].email = a.email /\ session[s].status = "open"
    BY DEF OpenSessions
  <2>2. /\ b \in Args /\ b.todo = todo /\ b.seen = a.seen /\ b.call = a.call /\ b.email = a.email
        /\ b.clerk = a.clerk /\ b.by = a.by
    BY <1>0, <2>1, TodoArg
  <2>3. GoTo(r, "revokeEach", b) /\ UNCHANGED <<around, rows>>
    BY <1>4 DEF List
  <2>4. a.call = "logoutAll"
    BY <1>1, <1>4 DEF List, LogoutLabels
  <2>5. TablesOK' /\ Grows /\ session' = session
    BY <1>0, <2>3, KeptRows DEF rows
  <2>6. \A s \in b.todo : session'[s].email = a.email
    BY <2>1, <2>2, <2>5
  <2>7. \A s \in a.seen : session'[s].status = "open" => s \in b.todo
    BY <1>1, <2>1, <2>2, <2>4, <2>5
  <2>8. UNCHANGED <<around, user, bound, profile, roles, code, bucket>>
    BY <2>3 DEF rows
  <2>9. QED BY <1>2, <2>2, <2>3, <2>4, <2>5, <2>6, <2>7, <2>8
<1>5. CASE RevokeEach(r)
  <2>1. /\ a.call = "logoutAll"
        /\ \A s \in a.todo : session[s].email = a.email
        /\ \A s \in a.seen : session[s].status = "open" => s \in a.todo
    BY <1>0, <1>1, <1>5 DEF RevokeEach, LogoutLabels, Known, KnowsSessions
  <2>2. CASE a.todo = {} /\ Step(r, "done") /\ UNCHANGED session
    <3>1. UNCHANGED <<around, rows>>
      BY <1>5, <2>2 DEF RevokeEach, rows
    <3>2. TablesOK' /\ Grows
      BY <1>0, <3>1, KeptRows
    <3>3. QED BY <1>0, <1>2, <2>1, <2>2, <3>1, <3>2 DEF Step, rows
  <2>3. ASSUME NEW s \in a.todo, session' = [session EXCEPT ![s].status = "revoked"],
               GoTo(r, "revokeEach", [a EXCEPT !.todo = a.todo \ {s}])
        PROVE  Inv'
    <3> PICK todo : todo = a.todo \ {s}
      OBVIOUS
    <3> PICK b : b = [a EXCEPT !.todo = todo]
      OBVIOUS
    <3>1. todo \in SUBSET Sessions /\ s \in Sessions
      BY <1>1
    <3>2. /\ b \in Args /\ b.todo = todo /\ b.seen = a.seen /\ b.call = a.call
          /\ b.email = a.email /\ b.clerk = a.clerk /\ b.by = a.by
      BY <1>0, <3>1, TodoArg
    <3>3. /\ TablesOK' /\ Grows
          /\ session'[s].status = "revoked" /\ session'[s].email = a.email
          /\ \A t \in Sessions : t # s => session'[t] = session[t]
      BY <1>1, <1>5, <2>1, <2>3, <3>1, RevokedRows DEF RevokeEach
    <3>4. UNCHANGED <<around, user, bound, profile, roles, code, bucket>>
      BY <1>5 DEF RevokeEach
    <3>5. \A t \in b.todo : session'[t].email = a.email
      BY <1>1, <2>1, <3>2, <3>3
    <3>6. \A t \in a.seen : session'[t].status = "open" => t \in b.todo
      BY <1>1, <2>1, <3>2, <3>3
    <3>7. QED BY <1>2, <2>1, <2>3, <3>2, <3>3, <3>4, <3>5, <3>6
  <2>4. QED BY <1>5, <2>2, <2>3 DEF RevokeEach
<1>6. QED BY <1>3, <1>4, <1>5

-----------------------------------------------------------------------------
(* Every step *)

LEMMA ContinueInv ==
    ASSUME Inv, NEW r \in Requests, Continue(r), UNCHANGED around
    PROVE  Inv'
<1>1. CASE Finish(r)
  BY <1>1, ThrowInv DEF Finish
<1>2. CASE ByClerk(r) \/ ByEmail(r) \/ Link(r) \/ CountRoles(r) \/ CheckStatus(r)
  BY <1>2, ByClerkInv, ByEmailInv, LinkInv, CountRolesInv
<1>3. CASE InsertUser(r) \/ InsertProfile(r) \/ InsertContact(r) \/ FindMember(r)
             \/ InsertMember(r) \/ FindSuper(r) \/ InsertSuper(r) \/ InsertRole(r)
  BY <1>3, InsertUserInv, ProfileInv, FindRoleInv, GrantInv, InsertRoleInv
<1>4. CASE \/ FindBucket(r) \/ InsertBucket(r) \/ CountBucket(r) \/ Latest(r) \/ CheckOtp(r)
           \/ \E c \in Codes : InsertCode(r, c)
           \/ FindUser(r)
  BY <1>4, RequestInv, FindUserInv
<1>5. CASE \/ FindCode(r) \/ Wrong(r) \/ Consume(r) \/ FindActive(r)
           \/ \E s \in Sessions : InsertSession(r, s)
  BY <1>5, VerifyInv
<1>6. CASE ReadUser(r) \/ Revoke(r) \/ List(r) \/ RevokeEach(r)
  BY <1>6, ReadUserInv, LogoutInv
<1>7. QED BY <1>1, <1>2, <1>3, <1>4, <1>5, <1>6 DEF Continue

\* What changes around the calls moves none of them.
LEMMA ChangeKeeps ==
    ASSUME Inv, TablesOK', Grows, UNCHANGED callVars
    PROVE  Inv'
<1>1. Shape'
  BY DEF Inv, Shape, callVars, LocalsOK
<1>2. ASSUME NEW q \in Requests PROVE Known(pc[q], arg[q])'
  <2> PICK l, b : l = pc[q] /\ b = arg[q]
    OBVIOUS
  <2>1. l \in Labels /\ b \in Args /\ LocalsOK(l, b) /\ Known(l, b)
    BY LocalsTyped DEF Inv, Knows
  <2>2. Known(l, b)'
    BY <2>1, StaysKnown DEF Inv
  <2>3. QED BY <2>2 DEF callVars
<1>3. QED BY <1>1, <1>2 DEF Inv, Knows, Known, KnowsUser, KnowsRoles, KnowsSessions

LEMMA ChangeInv ==
    ASSUME Inv, Change
    PROVE  Inv'
<1>0. Shape /\ TablesOK
  BY DEF Inv, Shape
<1>1. ASSUME NEW k \in Clerks, NEW e \in Emails \cup {None}, ChangeAddress(k, e)
      PROVE  Inv'
  <2>1. address' \in [Clerks -> Emails \cup {None}] /\ address'[k] = e
        /\ \A l \in Clerks : l # k => address'[l] = address[l]
    BY <1>0, <1>1 DEF ChangeAddress, TablesOK, AddressesOK
  <2>2. AddressesOK'
    BY <1>0, <1>1, <2>1 DEF ChangeAddress, TablesOK, AddressesOK
  <2>3. TablesOK' /\ Grows /\ UNCHANGED callVars
    BY <1>0, <1>1, <2>2 DEF ChangeAddress, TablesOK, Grows, rows
  <2>4. QED BY <2>3, ChangeKeeps
<1>2. CASE SwitchToClerk
  <2>1. TablesOK' /\ Grows /\ UNCHANGED callVars
    BY <1>0, <1>2 DEF SwitchToClerk, TablesOK, AddressesOK, Grows, rows, Providers
  <2>2. QED BY <2>1, ChangeKeeps
<1>3. ASSUME NEW e \in Emails, SuspendUser(e) PROVE Inv'
  <2>1. TablesOK' /\ Grows /\ UNCHANGED callVars
    BY <1>0, <1>3 DEF SuspendUser, TablesOK, AddressesOK, Grows, around, UserStatus
  <2>2. QED BY <2>1, ChangeKeeps
<1>4. ASSUME NEW c \in Codes, CodeExpires(c) PROVE Inv'
  <2>1. code' \in [Codes -> CodeRows]
    BY <1>0, <1>4 DEF CodeExpires, TablesOK, CodeRows
  <2>2. TablesOK' /\ Grows /\ UNCHANGED callVars
    BY <1>0, <1>4, <2>1 DEF CodeExpires, TablesOK, AddressesOK, Grows, around
  <2>3. QED BY <2>2, ChangeKeeps
<1>5. ASSUME NEW s \in Sessions, SessionExpires(s) PROVE Inv'
  <2>1. /\ session'[s].status = "over" /\ session'[s].email = session[s].email
        /\ session[s].status = "open" /\ \A t \in Sessions : t # s => session'[t] = session[t]
        /\ session' \in [Sessions -> SessionRows]
    BY <1>0, <1>5 DEF SessionExpires, TablesOK, SessionRows
  <2>2. TablesOK'
    BY <1>0, <1>5, <2>1 DEF SessionExpires, TablesOK, AddressesOK, around
  <2>3. Grows /\ UNCHANGED callVars
    BY <1>5, <2>1 DEF SessionExpires, Grows, around
  <2>4. QED BY <2>2, <2>3, ChangeKeeps
<1>6. QED BY <1>1, <1>2, <1>3, <1>4, <1>5 DEF Change

LEMMA InitInv == Init => Inv
<1> SUFFICES ASSUME Init PROVE Inv
  OBVIOUS
<1>1. AddressesOK /\ provider \in Providers
  BY DEF Init, AddressesOK
<1>2. /\ user \in [Emails -> UserStatus] /\ bound \in [Emails -> Clerks \cup {None}]
      /\ profile \in [Emails -> ProfileParts] /\ roles \in [Emails -> SUBSET RoleNames]
      /\ \A e \in Emails : bound[e] = None
  BY DEF Init, UserStatus, ProfileParts, RoleNames
<1>3. code \in [Codes -> CodeRows] /\ bucket \in [Emails -> BucketCounts]
  BY LimitsPositive DEF Init, NoCode, CodeRows, Attempts, BucketCounts
<1>4. session \in [Sessions -> SessionRows] /\ \A s \in Sessions : session[s].status = "none"
  BY DEF Init, NoSession, SessionRows
<1>5. TablesOK
  BY <1>1, <1>2, <1>3, <1>4 DEF TablesOK
<1>6. \A r \in Requests : pc[r] = "idle" /\ arg[r] = NoArg
  BY DEF Init
<1>7. pc \in [Requests -> Labels] /\ arg \in [Requests -> Args]
  BY NoArgIsArg DEF Init
<1>8. Shape
  BY <1>5, <1>6, <1>7, NoArgIsArg DEF Shape
<1>9. QED BY <1>6, <1>8, IdleKnowsNothing DEF Inv, Knows

LEMMA NextInv == Inv /\ [Next]_vars => Inv'
<1> SUFFICES ASSUME Inv, [Next]_vars PROVE Inv'
  OBVIOUS
<1>1. ASSUME NEW r \in Requests, Call(r), UNCHANGED around PROVE Inv'
  BY <1>1, CallInv
<1>2. CASE Change
  BY <1>2, ChangeInv
<1>3. ASSUME NEW r \in Requests, Continue(r), UNCHANGED around PROVE Inv'
  BY <1>3, ContinueInv
<1>4. ASSUME NEW r \in Requests, Crash(r), UNCHANGED around PROVE Inv'
  BY <1>4, ThrowInv DEF Crash
<1>5. CASE UNCHANGED vars
  <2>1. UNCHANGED <<around, rows>> /\ UNCHANGED callVars
    BY <1>5 DEF vars, around
  <2>2. QED BY <2>1, KeptRows, ChangeKeeps DEF Inv
<1>6. QED BY <1>1, <1>2, <1>3, <1>4, <1>5 DEF Next, Move

LEMMA Invariant == Spec => []Inv
  BY InitInv, NextInv, PTL DEF Spec

-----------------------------------------------------------------------------
(* Bindings *)

\* The steps that have nothing to do with bindings or the making of an account.
LEMMA OthersStay ==
    ASSUME NEW r \in Requests, Continue(r),
           ~Link(r), ~InsertUser(r), ~InsertProfile(r), ~InsertContact(r)
    PROVE  /\ pc[r] \notin {"insertProfile", "insertContact"} /\ UNCHANGED <<user, bound, profile>>
           /\ \E label, a : GoTo(r, label, a)
<1>1. CASE ByClerk(r)
  BY <1>1, ZenonT(30) DEF ByClerk, Step, rows
<1>2. CASE ByEmail(r)
  BY <1>2, ZenonT(30) DEF ByEmail, Throw, Return, rows
<1>3. CASE CountRoles(r) \/ CheckStatus(r)
  BY <1>3 DEF CountRoles, CheckStatus, Step, Throw, Return, rows
<1>4. CASE FindMember(r) \/ InsertMember(r) \/ FindSuper(r) \/ InsertSuper(r) \/ InsertRole(r)
  BY <1>4 DEF FindMember, InsertMember, FindSuper, InsertSuper, InsertRole, Grant, Step,
              Throw, Return, rows
<1>5. CASE FindBucket(r) \/ InsertBucket(r) \/ CountBucket(r) \/ Latest(r)
  BY <1>5 DEF FindBucket, InsertBucket, CountBucket, Latest, Step, Throw, Return, rows
<1>6. CASE CheckOtp(r) \/ (\E c \in Codes : InsertCode(r, c)) \/ FindUser(r)
  BY <1>6 DEF CheckOtp, InsertCode, FindUser, Step, Throw, Return, rows
<1>7. CASE FindCode(r)
  BY <1>7, ZenonT(30) DEF FindCode, Throw, Return, rows
<1>8. CASE Wrong(r) \/ Consume(r) \/ FindActive(r)
  BY <1>8 DEF Wrong, Consume, FindActive, Step, Throw, Return, rows
<1>9. CASE \E s \in Sessions : InsertSession(r, s)
  BY <1>9, ZenonT(30) DEF InsertSession
<1>10. CASE ReadUser(r) \/ Revoke(r)
  BY <1>10 DEF ReadUser, Revoke, Step, Throw, Return, rows
<1>11. CASE List(r)
  BY <1>11 DEF List, rows
<1>12. CASE RevokeEach(r)
  BY <1>12, ZenonT(30) DEF RevokeEach, Step
<1>13. CASE Finish(r)
  BY <1>13 DEF Finish, Return, rows
<1>14. QED
  BY <1>1, <1>2, <1>3, <1>4, <1>5, <1>6, <1>7, <1>8, <1>9, <1>10, <1>11, <1>12, <1>13
  DEF Continue

LEMMA CallsStay ==
    ASSUME NEW r \in Requests, Call(r)
    PROVE  /\ pc[r] = "idle" /\ UNCHANGED <<user, bound, profile>>
           /\ \E label, a : GoTo(r, label, a)
<1>1. ASSUME NEW label, NEW a, Begin(r, label, a)
      PROVE  /\ pc[r] = "idle" /\ UNCHANGED <<user, bound, profile>>
             /\ \E l, b : GoTo(r, l, b)
  BY <1>1 DEF Begin, rows
<1>2. CASE ClerkCalls(r)
  BY <1>1, <1>2, ZenonT(30) DEF ClerkCalls, GetClerkAuthContext, CompleteClerkLogin, Sync
<1>3. CASE OtpCalls(r)
  BY <1>1, <1>3, ZenonT(30) DEF OtpCalls, RequestLoginOtp, VerifyLoginOtp
<1>4. CASE SessionCalls(r)
  BY <1>1, <1>4, ZenonT(30) DEF SessionCalls, Resolve
<1>5. CASE RoleCalls(r)
  BY <1>1, <1>5, ZenonT(30) DEF RoleCalls, BootstrapSuperAdmin, AssignRole
<1>6. QED BY <1>2, <1>3, <1>4, <1>5 DEF Call

\* The labels at which a sign-in has no account of its own yet.
Unmapped == {"idle", "byClerk", "byEmail", "link", "insertUser"}

\* What a sign-in knows of the binding, where identities do not contest the address.
Identified(label, a) ==
    a.call = "sync" /\ a.email \notin contested =>
        /\ a.by = a.email => bound[a.email] = a.clerk
        /\ label = "link" => bound[a.email] \in {None, a.clerk}
        /\ label \notin Unmapped => bound[a.email] = a.clerk

Mapped ==
    /\ contested \subseteq Emails
    /\ \A e \in Emails : Contest(e) => e \in contested
    /\ \A r \in Requests : Identified(pc[r], arg[r])

\* A step of r writes its identity into the account of its address, or writes none.
Writes(r) ==
    \/ bound' = bound
    \/ /\ arg[r].email \in Emails /\ arg[r].clerk # None
       /\ bound' = [bound EXCEPT ![arg[r].email] = arg[r].clerk]

\* Whoever else writes the account of an address that is not contested writes the
\* same identity.
LEMMA StaysIdentified ==
    ASSUME Shape, Mapped, Contend, NEW r \in Requests, Writes(r), NEW q \in Requests,
           NEW l, NEW a, l = pc[q], a = arg[q], arg'[q].email = a.email, arg'[q].clerk = a.clerk
    PROVE  Identified(l, a)'
<1> SUFFICES ASSUME a.call = "sync", a.email \notin contested'
             PROVE  /\ a.by = a.email => bound'[a.email] = a.clerk
                    /\ l = "link" => bound'[a.email] \in {None, a.clerk}
                    /\ l \notin Unmapped => bound'[a.email] = a.clerk
  BY DEF Identified
<1>1. a.email \in Emails /\ a.clerk # None
  BY LocalsTyped, NoneIsNobody DEF LocalsOK, CallOK
<1> PICK e \in Emails : e = a.email
  BY <1>1
<1>2. Syncing(q, e) /\ Syncing(q, e)'
  BY <1>1 DEF Syncing
<1>3. e \notin contested /\ ~Contest(e)
  BY <1>2 DEF Contend, Mapped
<1>4. /\ a.by = e => bound[e] = a.clerk
      /\ l = "link" => bound[e] \in {None, a.clerk}
      /\ l \notin Unmapped => bound[e] = a.clerk
  BY <1>3 DEF Mapped, Identified
<1>5. bound'[e] = bound[e] \/ bound'[e] = a.clerk
  <2>1. CASE bound' = bound
    BY <2>1
  <2>2. CASE /\ arg[r].email \in Emails /\ arg[r].clerk # None
             /\ bound' = [bound EXCEPT ![arg[r].email] = arg[r].clerk]
    <3>1. arg[r].email = e => arg[r].clerk = a.clerk
      BY <1>2, <1>3, <2>2 DEF Contest, Syncing
    <3>2. bound \in [Emails -> Clerks \cup {None}]
      BY DEF Shape, TablesOK
    <3>3. QED BY <2>2, <3>1, <3>2
  <2>3. QED BY <2>1, <2>2 DEF Writes
<1>6. QED BY <1>4, <1>5

LEMMA MoveMapped ==
    ASSUME Inv, Mapped, Contend, NEW r \in Requests, NEW l, NEW b, GoTo(r, l, b),
           Writes(r), Identified(l, b)'
    PROVE  Mapped'
<1>0. Shape /\ pc \in [Requests -> Labels] /\ arg \in [Requests -> Args]
  BY DEF Inv, Shape
<1>1. (contested \subseteq Emails)'
  BY DEF Contend
<1>2. ASSUME NEW e \in Emails, Contest(e)' PROVE e \in contested'
  <2>1. \E q \in Requests : Syncing(q, e)'
    BY <1>2 DEF Contest
  <2>2. QED BY <1>2, <2>1 DEF Contend
<1>3. ASSUME NEW q \in Requests PROVE Identified(pc[q], arg[q])'
  <2>1. CASE q = r
    BY <1>0, <2>1 DEF GoTo
  <2>2. CASE q # r
    <3> PICK m, a : m = pc[q] /\ a = arg[q]
      OBVIOUS
    <3>1. pc'[q] = m /\ arg'[q] = a
      BY <1>0, <2>2 DEF GoTo
    <3>2. Identified(m, a)'
      BY <1>0, <3>1, StaysIdentified
    <3>3. QED BY <3>1, <3>2
  <2>3. QED BY <2>1, <2>2
<1>4. QED BY <1>1, <1>2, <1>3 DEF Mapped, Identified

LEMMA ReturnMapped ==
    ASSUME Inv, Mapped, Contend, NEW r \in Requests, Return(r), bound' = bound
    PROVE  Mapped'
<1>1. Identified("idle", NoArg)'
  BY DEF Identified, NoArg
<1>2. QED BY <1>1, MoveMapped DEF Return, Writes

\* The statements after those that map an identity go on with the same locals, or
\* belong to calls that are no sign-in.
LEMMA OthersKeep ==
    ASSUME Shape, NEW r \in Requests, Continue(r),
           ~ByClerk(r), ~ByEmail(r), ~Link(r), ~InsertUser(r)
    PROVE  \/ Return(r)
           \/ pc[r] \notin Unmapped /\ \E label : Step(r, label)
           \/ \E label, b : GoTo(r, label, b) /\ b.call # "sync"
<1>0. arg[r] \in Args /\ LocalsOK(pc[r], arg[r])
  BY LocalsTyped
<1> PICK a : a = arg[r]
  OBVIOUS
<1>1. CASE CountRoles(r) \/ CheckStatus(r) \/ InsertProfile(r) \/ InsertContact(r)
  BY <1>1 DEF CountRoles, CheckStatus, InsertProfile, InsertContact, Throw, Unmapped
<1>2. CASE FindMember(r) \/ InsertMember(r) \/ FindSuper(r) \/ InsertSuper(r) \/ InsertRole(r)
  BY <1>2 DEF FindMember, InsertMember, FindSuper, InsertSuper, InsertRole, Grant, Throw, Unmapped
<1>3. CASE Finish(r) \/ Wrong(r)
  BY <1>3 DEF Finish, Wrong, Throw
<1>4. CASE Latest(r) \/ CheckOtp(r) \/ FindActive(r) \/ ReadUser(r) \/ Revoke(r)
             \/ \E c \in Codes : InsertCode(r, c)
  BY <1>4 DEF Latest, CheckOtp, FindActive, ReadUser, Revoke, InsertCode, Throw, Unmapped
<1>5. ASSUME a.call # "sync"
      PROVE  /\ \A st : [a EXCEPT !.status = st].call # "sync"
             /\ \A n : [a EXCEPT !.count = n].call # "sync"
             /\ [a EXCEPT !.try = @ - 1].call # "sync"
             /\ \A c, n : [a EXCEPT !.code = c, !.count = n].call # "sync"
             /\ \A t : [a EXCEPT !.session = t].call # "sync"
             /\ \A todo : [a EXCEPT !.todo = todo].call # "sync"
  BY <1>0, <1>5 DEF Args
<1>6. CASE FindBucket(r) \/ InsertBucket(r) \/ CountBucket(r) \/ FindUser(r)
  <2>1. a.call # "sync"
    BY <1>0, <1>6 DEF FindBucket, InsertBucket, CountBucket, FindUser, LocalsOK, CallOK, RequestLabels
  <2>2. QED
    BY <1>5, <1>6, <2>1 DEF FindBucket, InsertBucket, CountBucket, FindUser, Throw, Step
<1>7. CASE FindCode(r) \/ Consume(r) \/ \E s \in Sessions : InsertSession(r, s)
  <2>1. a.call # "sync"
    BY <1>0, <1>7 DEF FindCode, Consume, InsertSession, LocalsOK, CallOK, VerifyLabels
  <2>2. ASSUME FindCode(r), ~Return(r) PROVE \E label, b : GoTo(r, label, b) /\ b.call # "sync"
    <3>1. PICK c, label, n : GoTo(r, label, [a EXCEPT !.code = c, !.count = n])
      BY <2>2 DEF FindCode, Throw
    <3>2. QED BY <1>5, <2>1, <3>1
  <2>3. ASSUME Consume(r) PROVE \E label, b : GoTo(r, label, b) /\ b.call # "sync"
    <3>1. GoTo(r, "findActive", [a EXCEPT !.code = None, !.count = 0])
      BY <2>3 DEF Consume
    <3>2. [a EXCEPT !.code = None, !.count = 0].call # "sync"
      BY <1>5, <2>1
    <3>3. QED BY <3>1, <3>2
  <2>4. ASSUME NEW s \in Sessions, InsertSession(r, s)
        PROVE  \E label, b : GoTo(r, label, b) /\ b.call # "sync"
    BY <1>5, <2>1, <2>4 DEF InsertSession
  <2>5. QED BY <1>7, <2>2, <2>3, <2>4
<1>8. CASE List(r) \/ RevokeEach(r)
  <2>1. a.call # "sync"
    BY <1>0, <1>8 DEF List, RevokeEach, LocalsOK, CallOK, LogoutLabels
  <2>2. QED BY <1>5, <1>8, <2>1 DEF List, RevokeEach, Step
<1>9. QED BY <1>1, <1>2, <1>3, <1>4, <1>6, <1>7, <1>8 DEF Continue

LEMMA CallMapped ==
    ASSUME Inv, Mapped, Contend, NEW r \in Requests, Call(r)
    PROVE  Mapped'
<1>0. bound' = bound
  BY CallsStay
<1>1. ASSUME NEW l, NEW b, GoTo(r, l, b), b.call # "sync" PROVE Mapped'
  BY <1>0, <1>1, MoveMapped DEF Identified, Writes
<1>2. ASSUME NEW k \in Clerks, Sync(r, k) PROVE Mapped'
  <2>1. address[k] \in Emails
    BY <1>2 DEF Sync, Inv, Shape, TablesOK, AddressesOK
  <2> PICK a : a = [NoArg EXCEPT !.call = "sync", !.clerk = k, !.email = address[k]]
    OBVIOUS
  <2>2. a.by = None /\ a.email \in Emails
    BY <2>1, SyncArg
  <2>3. Identified("byClerk", a)'
    BY <2>2, NoneIsNobody DEF Identified, Unmapped
  <2>4. QED BY <1>0, <1>2, <2>3, MoveMapped DEF Sync, Begin, Writes
<1>3. CASE ClerkCalls(r)
  BY <1>2, <1>3 DEF ClerkCalls, GetClerkAuthContext, CompleteClerkLogin
<1>4. CASE OtpCalls(r)
  <2>1. PICK e \in Emails, right \in BOOLEAN : RequestLoginOtp(r, e) \/ VerifyLoginOtp(r, e, right)
    BY <1>4 DEF OtpCalls
  <2>2. /\ [NoArg EXCEPT !.call = "request", !.email = e].call = "request"
        /\ [NoArg EXCEPT !.call = "verify", !.email = e, !.right = right].call = "verify"
    BY DEF NoArg
  <2>3. QED BY <1>1, <2>1, <2>2 DEF RequestLoginOtp, VerifyLoginOtp, Begin
<1>5. CASE SessionCalls(r)
  <2>1. PICK s \in Sessions, call \in {"page", "logout", "logoutAll"} : Resolve(r, s, call)
    BY <1>5 DEF SessionCalls
  <2>2. [NoArg EXCEPT !.call = call, !.email = session[s].email, !.session = s,
                      !.seen = OpenSessions(session[s].email)].call = call
    BY DEF NoArg
  <2>3. QED BY <1>1, <2>1, <2>2 DEF Resolve, Begin
<1>6. CASE RoleCalls(r)
  <2>1. [NoArg EXCEPT !.call = "bootstrap", !.email = Admin].call = "bootstrap"
    BY DEF NoArg
  <2>2. \A e, slug : [NoArg EXCEPT !.call = "assign", !.email = e, !.role = slug].call = "assign"
    BY DEF NoArg
  <2>3. QED BY <1>1, <1>6, <2>1, <2>2 DEF RoleCalls, BootstrapSuperAdmin, AssignRole, Begin
<1>7. QED BY <1>3, <1>4, <1>5, <1>6 DEF Call

\* The four steps that map an identity.
LEMMA MappingMapped ==
    ASSUME Inv, Mapped, Contend, NEW r \in Requests,
           ByClerk(r) \/ ByEmail(r) \/ Link(r) \/ InsertUser(r)
    PROVE  Mapped'
<1>0. Shape /\ TablesOK
  BY DEF Inv, Shape
<1> PICK a, l, e, k : a = arg[r] /\ l = pc[r] /\ e = a.email /\ k = a.clerk
  OBVIOUS
<1>1. a \in Args /\ LocalsOK(l, a) /\ Known(l, a)
  BY <1>0, LocalsTyped DEF Inv, Knows
<1>2. /\ e \in Emails /\ (a.call = "sync" => k # None)
      /\ l \in {"byClerk", "byEmail", "link"} => a.call = "sync"
  BY <1>1, NoneIsNobody DEF LocalsOK, CallOK, SyncLabels, ByClerk, ByEmail, Link, InsertUser
<1>3. CASE ByClerk(r)
  <2>1. bound' = bound /\ Writes(r)
    BY <1>3 DEF ByClerk, rows, Writes
  <2>2. CASE Step(r, "byEmail")
    <3>1. Identified(l, a)'
      BY <1>0, <1>1, <2>1, <2>2, StaysIdentified DEF Step, GoTo, Shape
    <3>2. Identified("byEmail", a)'
      BY <1>3, <3>1 DEF ByClerk, Identified, Unmapped
    <3>3. QED BY <2>1, <2>2, <3>2, MoveMapped DEF Step
  <2>3. ASSUME NEW f \in Emails, bound[f] = k,
               GoTo(r, "byEmail", [a EXCEPT !.by = f, !.status = user[f]])
        PROVE  Mapped'
    <3> PICK b : b = [a EXCEPT !.by = f, !.status = user[f]]
      OBVIOUS
    <3>1. b.by = f /\ b.email = e /\ b.clerk = k
      BY <1>1 DEF Args
    <3>2. Identified("byEmail", b)'
      BY <2>1, <2>3, <3>1 DEF Identified, Unmapped
    <3>3. QED BY <2>1, <2>3, <3>2, MoveMapped
  <2>4. QED BY <1>3, <2>2, <2>3 DEF ByClerk
<1>4. CASE ByEmail(r)
  <2>1. bound' = bound /\ Writes(r) /\ a.call = "sync"
    BY <1>2, <1>4 DEF ByEmail, rows, Writes
  <2>2. CASE Throw(r)
    BY <2>1, <2>2, ReturnMapped DEF Throw
  <2>3. CASE Plan(r, e) # "conflict"
    <3> PICK st : GoTo(r, Plan(r, e), [a EXCEPT !.status = st])
      BY <1>4, <2>3 DEF ByEmail
    <3> PICK b, m : b = [a EXCEPT !.status = st] /\ m = Plan(r, e)
      OBVIOUS
    <3>1. b.call = a.call /\ b.by = a.by /\ b.email = e /\ b.clerk = k
      BY <1>1 DEF Args
    <3>2. Identified(l, a)'
      <4>1. arg'[r] = b
        BY <1>0 DEF GoTo, Shape
      <4>2. QED BY <1>0, <2>1, <3>1, <4>1, StaysIdentified
    <3>3. /\ m \in {"countRoles", "link", "insertUser"}
          /\ m = "countRoles" => a.by = e
          /\ m = "link" => bound[e] \in {None, k}
      BY <1>2, <2>3, NoneIsNobody DEF Plan
    <3>4. Identified(m, b)'
      BY <2>1, <3>1, <3>2, <3>3 DEF Identified, Unmapped
    <3>5. QED BY <2>1, <3>4, MoveMapped
  <2>4. QED BY <1>4, <2>2, <2>3 DEF ByEmail
<1>5. ASSUME NEW m, Step(r, m), m # "link", bound' = [bound EXCEPT ![e] = k],
             k = None => bound[e] = None
      PROVE  Mapped'
  <2>1. bound \in [Emails -> Clerks \cup {None}]
    BY <1>0 DEF TablesOK
  <2>2. bound'[e] = k /\ Writes(r)
    BY <1>2, <1>5, <2>1 DEF Writes
  <2>3. Identified(m, a)'
    BY <1>5, <2>2 DEF Identified
  <2>4. QED BY <1>5, <2>2, <2>3, MoveMapped DEF Step
<1>6. CASE Link(r)
  <2>1. CASE Throw(r) /\ UNCHANGED bound
    BY <2>1, ReturnMapped DEF Throw
  <2>2. CASE bound' = [bound EXCEPT ![e] = k] /\ Step(r, "countRoles")
    BY <1>2, <1>5, <1>6, <2>2 DEF Link
  <2>3. QED BY <1>6, <2>1, <2>2 DEF Link
<1>7. CASE InsertUser(r)
  <2>1. CASE Throw(r) /\ UNCHANGED bound
    BY <2>1, ReturnMapped DEF Throw
  <2>2. CASE user[e] = "none" /\ bound' = [bound EXCEPT ![e] = k] /\ Step(r, "insertProfile")
    BY <1>0, <1>2, <1>5, <2>2 DEF TablesOK
  <2>3. QED BY <1>7, <2>1, <2>2 DEF InsertUser
<1>8. QED BY <1>3, <1>4, <1>6, <1>7

LEMMA ContinueMapped ==
    ASSUME Inv, Mapped, Contend, NEW r \in Requests, Continue(r)
    PROVE  Mapped'
<1>0. Shape
  BY DEF Inv
<1>1. CASE ByClerk(r) \/ ByEmail(r) \/ Link(r) \/ InsertUser(r)
  BY <1>1, MappingMapped
<1>2. CASE ~ByClerk(r) /\ ~ByEmail(r) /\ ~Link(r) /\ ~InsertUser(r)
  <2>1. bound' = bound /\ Writes(r)
    BY <1>2, OthersStay DEF InsertProfile, InsertContact, Writes
  <2>2. CASE Return(r)
    BY <2>1, <2>2, ReturnMapped
  <2>3. ASSUME NEW label, Step(r, label), pc[r] \notin Unmapped PROVE Mapped'
    <3> PICK a, l : a = arg[r] /\ l = pc[r]
      OBVIOUS
    <3>1. arg'[r] = a
      BY <1>0, <2>3 DEF Step, GoTo, Shape
    <3>2. Identified(l, a)'
      BY <1>0, <2>1, <3>1, StaysIdentified
    <3>3. Identified(label, a)'
      BY <2>3, <3>2 DEF Identified
    <3>4. QED BY <2>1, <2>3, <3>3, MoveMapped DEF Step
  <2>4. ASSUME NEW label, NEW b, GoTo(r, label, b), b.call # "sync" PROVE Mapped'
    BY <2>1, <2>4, MoveMapped DEF Identified
  <2>5. QED BY <1>0, <1>2, <2>2, <2>3, <2>4, OthersKeep
<1>3. QED BY <1>1, <1>2

LEMMA MappedStep == Inv /\ Mapped /\ [Next]_vars => Mapped'
<1> SUFFICES ASSUME Inv, Mapped, [Next]_vars PROVE Mapped'
  OBVIOUS
<1>0. Shape
  BY DEF Inv
<1>1. ASSUME NEW r \in Requests, Call(r), Contend PROVE Mapped'
  BY <1>1, CallMapped
<1>2. ASSUME NEW r \in Requests, Continue(r), Contend PROVE Mapped'
  BY <1>2, ContinueMapped
<1>3. ASSUME NEW r \in Requests, Crash(r), Contend PROVE Mapped'
  BY <1>3, ReturnMapped DEF Crash, rows
<1>4. CASE Change /\ Contend
  <2>1. UNCHANGED <<callVars, bound>>
    BY <1>4 DEF Change, ChangeAddress, SwitchToClerk, SuspendUser, CodeExpires, SessionExpires, rows
  <2>2. ASSUME NEW q \in Requests PROVE Identified(pc[q], arg[q])'
    <3> PICK l, a : l = pc[q] /\ a = arg[q]
      OBVIOUS
    <3>1. pc'[q] = l /\ arg'[q] = a /\ Writes(q)
      BY <2>1 DEF callVars, Writes
    <3>2. Identified(l, a)'
      BY <1>0, <1>4, <3>1, StaysIdentified
    <3>3. QED BY <3>1, <3>2
  <2>3. \A e \in Emails : Contest(e)' => e \in contested'
    BY <1>4 DEF Contend, Contest
  <2>4. (contested \subseteq Emails)'
    BY <1>4 DEF Contend
  <2>5. QED BY <2>2, <2>3, <2>4 DEF Mapped, Identified
<1>5. CASE UNCHANGED vars
  BY <1>5 DEF vars, rows, callVars, Mapped, Contest, Syncing, Identified
<1>6. QED BY <1>1, <1>2, <1>3, <1>4, <1>5 DEF Next, Move

LEMMA MappedAlways == Spec => []Mapped
<1>1. Init => Mapped
  BY DEF Init, Mapped, Contest, Syncing, Identified, NoArg
<1>2. QED BY <1>1, MappedStep, Invariant, PTL DEF Spec

\* The columns and the labels are of their types.
THEOREM TypeCorrect == Spec => []TypeOK
<1>1. Inv /\ Mapped => TypeOK
  BY DEF Inv, Shape, TablesOK, AddressesOK, CodeRows, SessionRows, Mapped, TypeOK
<1>2. QED BY <1>1, Invariant, MappedAlways, PTL

\* A call that returns has made sure of what it answers, whatever others did
\* between its statements; of the binding, where identities do not contest it.
THEOREM CallsSettled == Spec => []CallsSettle
<1>1. ASSUME Inv, Mapped, NEW r \in Requests, pc[r] = "done"
      PROVE  LET a == arg[r]
                 e == a.email
             IN  /\ a.call = "sync" => (e \notin contested => bound[e] = a.clerk) /\ roles[e] # {}
                 /\ a.call \in {"sync", "bootstrap"} /\ e = Admin => "super_admin" \in roles[e]
                 /\ a.call = "verify" => "member" \in roles[e] /\ session[a.session].email = e
                 /\ a.call = "logoutAll" => \A s \in a.seen : session[s].status # "open"
  <2>1. Known("done", arg[r]) /\ Identified("done", arg[r])
    BY <1>1 DEF Inv, Knows, Mapped
  <2>2. QED BY <2>1 DEF Known, KnowsRoles, KnowsSessions, Identified, Unmapped
<1>2. Inv /\ Mapped => CallsSettle
  BY <1>1 DEF CallsSettle
<1>3. QED BY <1>2, Invariant, MappedAlways, PTL

\* Only two statements write an identity into an account: one makes the account, and
\* the other, at an address that is not contested, found it bound to nobody or to the
\* same identity, and it still is.
LEMMA BindingsStay ==
    ASSUME Inv, Mapped, Next, NEW e \in Emails \ contested, bound[e] # None
    PROVE  bound'[e] = bound[e]
<1>0. Shape /\ TablesOK /\ user[e] # "none"
  BY DEF Inv, Shape, TablesOK
<1>1. ASSUME NEW r \in Requests, Link(r) PROVE bound'[e] = bound[e]
  <2> PICK a, f, k : a = arg[r] /\ f = a.email /\ k = a.clerk
    OBVIOUS
  <2>1. a.call = "sync"
    BY <1>0, <1>1, LocalsTyped DEF Link, LocalsOK, CallOK, SyncLabels
  <2>2. f = e => bound[f] \in {None, k}
    BY <1>1, <2>1 DEF Link, Mapped, Identified
  <2>3. bound' = bound \/ bound' = [bound EXCEPT ![f] = k]
    BY <1>1 DEF Link
  <2>4. QED BY <1>0, <2>2, <2>3 DEF TablesOK
<1>2. ASSUME NEW r \in Requests, InsertUser(r) PROVE bound'[e] = bound[e]
  BY <1>0, <1>2 DEF InsertUser, TablesOK
<1>3. ASSUME NEW r \in Requests, Continue(r), ~Link(r), ~InsertUser(r) PROVE bound' = bound
  BY <1>3, OthersStay DEF InsertProfile, InsertContact
<1>4. ASSUME NEW r \in Requests, Call(r) \/ Crash(r) PROVE bound' = bound
  BY <1>4, CallsStay DEF Crash, rows
<1>5. ASSUME Change PROVE bound' = bound
  BY <1>5 DEF Change, ChangeAddress, SwitchToClerk, SuspendUser, CodeExpires, SessionExpires, rows
<1>6. QED BY <1>1, <1>2, <1>3, <1>4, <1>5 DEF Next, Move

\* An account that is bound to an identity stays that identity's, at an address that
\* sign-ins of two identities do not contest.
THEOREM BindingKept == Spec => BindingIsKept
<1>1. Inv /\ Mapped /\ [Next]_vars =>
          [\A e \in Emails \ contested : bound[e] # None => bound'[e] = bound[e]]_vars
  BY BindingsStay
<1>2. QED BY <1>1, Invariant, MappedAlways, PTL DEF Spec, BindingIsKept

-----------------------------------------------------------------------------
(* Accounts are whole *)

\* An account that is whole, or another call still makes, stays so.
LEMMA WholeStays ==
    ASSUME Shape, AccountsAreWhole, NEW e \in Emails \ died',
           died \subseteq died', NEW r \in Requests, \E label, a : GoTo(r, label, a),
           user[e] = "none" => user'[e] = "none", profile'[e] = profile[e],
           Creating(r, e) => Creating(r, e)'
    PROVE  user'[e] # "none" /\ profile'[e] # "whole" => \E q \in Requests : Creating(q, e)'
<1> SUFFICES ASSUME user'[e] # "none", profile'[e] # "whole"
             PROVE  \E q \in Requests : Creating(q, e)'
  OBVIOUS
<1>1. PICK q \in Requests : Creating(q, e)
  BY DEF AccountsAreWhole
<1>2. q # r => Creating(q, e)'
  BY <1>1 DEF GoTo, Shape, Creating
<1>3. QED BY <1>1, <1>2

LEMMA WholeStep == Inv /\ AccountsAreWhole /\ [Next]_vars => AccountsAreWhole'
<1> SUFFICES ASSUME Inv, AccountsAreWhole, [Next]_vars PROVE AccountsAreWhole'
  OBVIOUS
<1>0. Shape /\ Emails \ died' \subseteq Emails
  BY DEF Inv
<1> DEFINE Whole(e) ==
        user'[e] # "none" /\ profile'[e] # "whole" => \E q \in Requests : Creating(q, e)'
<1>1. ASSUME NEW r \in Requests, UNCHANGED <<user, profile, died>>,
             pc[r] \notin {"insertProfile", "insertContact"}, \E label, a : GoTo(r, label, a)
      PROVE  AccountsAreWhole'
  <2>1. ASSUME NEW e \in Emails \ died' PROVE Whole(e)
    BY <1>0, <1>1, <2>1, WholeStays DEF Creating
  <2>2. QED BY <2>1 DEF AccountsAreWhole
<1>2. ASSUME NEW r \in Requests, InsertUser(r) \/ InsertProfile(r) \/ InsertContact(r), died' = died
      PROVE  AccountsAreWhole'
  <2> PICK a, m, l : a = arg[r] /\ m = a.email /\ l = pc[r]
    OBVIOUS
  <2>1. a \in Args /\ LocalsOK(l, a) /\ l \in {"insertUser", "insertProfile", "insertContact"}
    BY <1>0, <1>2, LocalsTyped DEF InsertUser, InsertProfile, InsertContact
  <2>2. m \in Emails
    BY <2>1 DEF LocalsOK
  <2>3. \E label, b : GoTo(r, label, b)
    BY <1>2 DEF InsertUser, InsertProfile, InsertContact, Step, Throw, Return
  <2>4. ASSUME NEW e \in Emails \ died', e # m PROVE Whole(e)
    <3>1. user'[e] = user[e] /\ profile'[e] = profile[e] /\ ~Creating(r, e)
      BY <1>0, <1>2, <2>2, <2>4
      DEF InsertUser, InsertProfile, InsertContact, Shape, TablesOK, Creating
    <3>2. QED BY <1>0, <1>2, <2>3, <2>4, <3>1, WholeStays
  <2>5. ASSUME m \notin died' PROVE Whole(m)
    <3>1. CASE Throw(r) /\ InsertUser(r) /\ UNCHANGED user
      <4>1. profile' = profile /\ ~Creating(r, m)
        BY <3>1 DEF InsertUser, Creating
      <4>2. QED BY <1>0, <1>2, <2>2, <2>3, <2>5, <3>1, <4>1, WholeStays
    <3>2. CASE \E label \in {"insertProfile", "insertContact"} : Step(r, label)
      BY <1>0, <3>2 DEF Step, GoTo, Creating, Shape
    <3>3. CASE InsertContact(r)
      BY <1>0, <2>2, <3>3 DEF InsertContact, Shape, TablesOK
    <3>4. QED BY <1>2, <3>1, <3>2, <3>3 DEF InsertUser, InsertProfile
  <2>6. QED BY <2>4, <2>5 DEF AccountsAreWhole
<1>3. ASSUME NEW r \in Requests, Crash(r), died' = died \cup {e \in Emails : Creating(r, e)}
      PROVE  AccountsAreWhole'
  <2>1. ASSUME NEW e \in Emails \ died' PROVE Whole(e)
    <3>1. UNCHANGED <<user, profile>> /\ ~Creating(r, e) /\ died \subseteq died'
      BY <1>3, <2>1 DEF Crash, rows
    <3>2. \E label, a : GoTo(r, label, a)
      BY <1>3 DEF Crash, Return
    <3>3. QED BY <1>0, <2>1, <3>1, <3>2, WholeStays
  <2>2. QED BY <2>1 DEF AccountsAreWhole
<1>4. ASSUME UNCHANGED <<callVars, profile, died>>, user' \in [Emails -> UserStatus],
             \A e \in Emails : user[e] = "none" => user'[e] = "none"
      PROVE  AccountsAreWhole'
  BY <1>4 DEF AccountsAreWhole, callVars, Creating
<1>5. ASSUME Change, died' = died PROVE AccountsAreWhole'
  <2>1. UNCHANGED <<callVars, profile>> /\ user' \in [Emails -> UserStatus]
        /\ \A e \in Emails : user[e] = "none" => user'[e] = "none"
    BY <1>0, <1>5
    DEF Change, ChangeAddress, SwitchToClerk, SuspendUser, CodeExpires, SessionExpires, rows,
        Shape, TablesOK, UserStatus
  <2>2. QED BY <1>4, <1>5, <2>1
<1>6. ASSUME UNCHANGED vars PROVE AccountsAreWhole'
  BY <1>0, <1>4, <1>6 DEF vars, rows, Shape, TablesOK
<1>7. ASSUME NEW r \in Requests, Continue(r), died' = died PROVE AccountsAreWhole'
  <2>1. Link(r) => /\ pc[r] = "link" /\ UNCHANGED <<user, profile>>
                   /\ \E label, a : GoTo(r, label, a)
    BY DEF Link, Step, Throw, Return
  <2>2. QED BY <1>1, <1>2, <1>7, <2>1, OthersStay
<1>8. ASSUME NEW r \in Requests, Call(r), died' = died PROVE AccountsAreWhole'
  BY <1>1, <1>8, CallsStay
<1>9. QED BY <1>3, <1>5, <1>6, <1>7, <1>8 DEF Next, Move

\* An account lacks its profile only while the call that makes it goes on, or when
\* that call died.
THEOREM MadeWhole == Spec => []AccountsAreWhole
<1>1. Init => AccountsAreWhole
  BY DEF Init, AccountsAreWhole
<1>2. QED BY <1>1, WholeStep, Invariant, PTL DEF Spec

-----------------------------------------------------------------------------
(*****************************************************************************)
(* Consultations and meetings, and the roles that decide who may touch them: *)
(* the theorems of Desk, for any number of users, consultations, meetings    *)
(* and concurrent calls.                                                     *)
(*                                                                           *)
(* DeskView gives its requests, their locals and its bound names of their    *)
(* own; the theorems here are about DeskSpec alone.                          *)
(*                                                                           *)
(* CreatorsStand says what a meeting rests on: whoever is making it may      *)
(* create meetings and will be its host or manages meetings anyhow, so that  *)
(* once the participants are written its creator can run it; roles are only  *)
(* added, and a role takes nothing away but what a member without one may    *)
(* do. Telling says that a call on its way to the expert's notice has its    *)
(* expert among those the history served names, that the expert of a         *)
(* consultation may answer it, and that its requester was told once no call  *)
(* is still to tell him.                                                     *)
(*****************************************************************************)

Statuses == {"submitted", "assigned", "in_progress", "completed", "closed", "cancelled"}
Ends     == {"live", "completed", "cancelled"}
Cases    == [requester : Users, expert : Users \cup {Nobody}, status : Statuses]
Rooms    == [consultation : Consultations \cup {Nobody}, creator : Users, status : {"scheduled"} \cup Ends]
Marks    == {"none", "host", "attendee", "host joined", "attendee joined"}

DeskLabels ==
    {"idle", "insertMessage", "tellRequester", "tellExpert", "setConsultation",
     "insertRoom", "insertParticipants", "join", "setMeeting"}

DeskArgs ==
    [user : Users \cup {Nobody}, on : Consultations \cup {Nobody}, meeting : Meetings \cup {Nobody},
     kind : D!MessageKinds \cup {"none"}, to : Statuses \cup Ends \cup {"none"},
     requester : Users \cup {Nobody}, expert : Users \cup {Nobody}]

DeskTablesOK ==
    /\ role \in [Users -> SUBSET Granted]
    /\ consultation \in [Consultations -> Cases \cup {D!NoConsultation}]
    /\ room \in [Meetings -> Rooms \cup {D!NoRoom}]
    /\ participant \in [Meetings -> [Users -> Marks]]
    /\ told \in [Consultations -> [requester : Users \cup {Nobody}, expert : Users \cup {Nobody}]]
    /\ served \in [Consultations -> SUBSET Users]

\* A call that goes on has found the row it writes to, but for a meeting's own
\* insert, whose row is still to come.
DeskLocalsOK(caseOf, roomOf, label, a) ==
    /\ label = "idle" => a.meeting = Nobody
    /\ label \in {"tellRequester", "tellExpert", "setConsultation"} =>
           a.on \in Consultations /\ caseOf[a.on] \in Cases
    /\ label \in {"tellRequester", "tellExpert"} => a.expert \in Users
    /\ label = "setConsultation" => a.to \in Statuses
    /\ label \in {"insertRoom", "insertParticipants", "join", "setMeeting"} =>
           a.meeting \in Meetings /\ a.user \in Users
    /\ label = "insertRoom" => a.meeting # Nobody /\ roomOf[a.meeting] = D!NoRoom
    /\ label \in {"insertParticipants", "join", "setMeeting"} => roomOf[a.meeting] \in Rooms
    /\ label = "setMeeting" => a.to \in Ends

\* The meeting that a call is about to insert is no other call's.
Exclusive ==
    \A r \in DeskRequests : deskPc[r] = "insertRoom" =>
        \A q \in DeskRequests \ {r} : deskArg[q].meeting # deskArg[r].meeting

DeskShape ==
    /\ DeskTablesOK
    /\ deskPc  \in [DeskRequests -> DeskLabels]
    /\ deskArg \in [DeskRequests -> DeskArgs]
    /\ \A r \in DeskRequests : DeskLocalsOK(consultation, room, deskPc[r], deskArg[r])
    /\ Exclusive

-----------------------------------------------------------------------------
(* One request moves *)

DeskMoved(r, label, a) ==
    /\ deskPc'  \in [DeskRequests -> DeskLabels]
    /\ deskArg' \in [DeskRequests -> DeskArgs]
    /\ deskPc'[r] = label /\ deskArg'[r] = a
    /\ \A q \in DeskRequests \ {r} : deskPc'[q] = deskPc[q] /\ deskArg'[q] = deskArg[q]

\* No row is deleted, and the meetings of others are left alone.
RowsStay(r) ==
    /\ \A c \in Consultations : consultation[c] \in Cases => consultation'[c] \in Cases
    /\ \A m \in Meetings : room[m] \in Rooms => room'[m] \in Rooms
    /\ \A q \in DeskRequests \ {r} :
          deskPc[q] = "insertRoom" => room'[deskArg[q].meeting] = room[deskArg[q].meeting]

LEMMA NoArgType == D!NoArg \in DeskArgs /\ D!NoArg.meeting = Nobody
  BY DEF D!NoArg, DeskArgs

LEMMA NoRows == D!NoRoom \notin Rooms /\ D!NoConsultation \notin Cases
                /\ D!NoRoom.status = "none" /\ D!NoConsultation.status = "none"
  BY DEF D!NoRoom, Rooms, D!NoConsultation, Cases, Statuses, Ends

LEMMA GoMoves ==
    ASSUME DeskShape, NEW r \in DeskRequests, NEW label \in DeskLabels, NEW a \in DeskArgs, D!GoTo(r, label, a)
    PROVE  DeskMoved(r, label, a)
  BY DEF DeskMoved, D!GoTo, DeskShape

LEMMA DeskMoveShape ==
    ASSUME DeskShape, NEW r \in DeskRequests, NEW label, NEW a \in DeskArgs, DeskMoved(r, label, a),
           DeskTablesOK', RowsStay(r), DeskLocalsOK(consultation', room', label, a),
           label = "insertRoom" => \A q \in DeskRequests \ {r} : deskArg[q].meeting # a.meeting,
           \A q \in DeskRequests \ {r} : deskPc[q] = "insertRoom" => a.meeting # deskArg[q].meeting
    PROVE  DeskShape'
<1>1. ASSUME NEW q \in DeskRequests PROVE DeskLocalsOK(consultation', room', deskPc'[q], deskArg'[q])
  <2>1. CASE q = r
    BY <2>1 DEF DeskMoved
  <2>2. CASE q # r
    <3>1. /\ deskPc'[q] = deskPc[q] /\ deskArg'[q] = deskArg[q]
          /\ DeskLocalsOK(consultation, room, deskPc[q], deskArg[q])
      BY <2>2 DEF DeskMoved, DeskShape
    <3>2. QED BY <2>2, <3>1 DEF DeskLocalsOK, RowsStay
  <2>3. QED BY <2>1, <2>2
<1>2. Exclusive'
  <2>1. ASSUME NEW p \in DeskRequests, NEW q \in DeskRequests \ {p}, deskPc'[p] = "insertRoom"
        PROVE  deskArg'[q].meeting # deskArg'[p].meeting
    BY <2>1 DEF DeskMoved, DeskShape, Exclusive
  <2>2. QED BY <2>1 DEF Exclusive
<1>3. QED BY <1>1, <1>2 DEF DeskShape, DeskMoved, DeskLocalsOK

LEMMA KeptTables ==
    ASSUME DeskShape, UNCHANGED <<D!rows, served>>, NEW r \in DeskRequests
    PROVE  DeskTablesOK' /\ RowsStay(r)
  BY DEF DeskShape, DeskTablesOK, D!rows, RowsStay

\* A call ends.
LEMMA ReturnShape ==
    ASSUME DeskShape, NEW r \in DeskRequests, D!Return(r), DeskTablesOK', RowsStay(r)
    PROVE  DeskShape'
<1>1. DeskMoved(r, "idle", D!NoArg)
  BY GoMoves, NoArgType DEF D!Return, DeskLabels
<1>2. DeskLocalsOK(consultation', room', "idle", D!NoArg)
  BY NoArgType DEF DeskLocalsOK
<1>3. \A q \in DeskRequests \ {r} : deskPc[q] = "insertRoom" => D!NoArg.meeting # deskArg[q].meeting
  BY NoArgType DEF DeskShape, DeskLocalsOK
<1>4. QED BY <1>1, <1>2, <1>3, NoArgType, DeskMoveShape

\* A call begins that inserts no meeting.
LEMMA BeginShape ==
    ASSUME DeskShape, NEW r \in DeskRequests, NEW label \in DeskLabels \ {"insertRoom"}, NEW a \in DeskArgs,
           D!Begin(r, label, a), DeskTablesOK', RowsStay(r), DeskLocalsOK(consultation', room', label, a),
           a.meeting # Nobody => a.meeting \in Meetings /\ room[a.meeting] \in Rooms
    PROVE  DeskShape'
<1>1. DeskMoved(r, label, a)
  BY GoMoves DEF D!Begin
<1>2. \A q \in DeskRequests \ {r} : deskPc[q] = "insertRoom" => a.meeting # deskArg[q].meeting
  BY NoRows DEF DeskShape, DeskLocalsOK
<1>3. QED BY <1>1, <1>2, DeskMoveShape

-----------------------------------------------------------------------------
(* Shape: the calls *)

LEMMA GrantShape ==
    ASSUME DeskShape, NEW u \in Users, NEW g \in Granted, D!GrantRole(u, g)
    PROVE  DeskShape'
<1>1. DeskTablesOK' /\ consultation' = consultation /\ room' = room /\ deskPc' = deskPc /\ deskArg' = deskArg
  BY DEF DeskShape, DeskTablesOK, D!GrantRole, D!callVars, D!history
<1>2. QED BY <1>1 DEF DeskShape, DeskLocalsOK, Exclusive

LEMMA CreateConsultationShape ==
    ASSUME DeskShape, NEW r \in DeskRequests, NEW u \in Users, NEW c \in Consultations,
           D!CreateConsultation(r, u, c)
    PROVE  DeskShape'
<1>1. [requester |-> u, expert |-> Nobody, status |-> "submitted"] \in Cases
  BY DEF Cases, Statuses
<1>2. DeskTablesOK' /\ room' = room /\ deskPc' = deskPc /\ deskArg' = deskArg
  BY <1>1 DEF DeskShape, DeskTablesOK, D!CreateConsultation, D!callVars, D!history
<1>3. \A d \in Consultations : consultation[d] \in Cases => consultation'[d] \in Cases
  BY <1>1, NoRows DEF DeskShape, DeskTablesOK, D!CreateConsultation
<1>4. QED BY <1>2, <1>3 DEF DeskShape, DeskLocalsOK, Exclusive

LEMMA AddMessageShape ==
    ASSUME DeskShape, NEW r \in DeskRequests, NEW u \in Users, NEW c \in Consultations,
           NEW kind \in D!MessageKinds, D!AddMessage(r, u, c, kind)
    PROVE  DeskShape'
<1> DEFINE a == [D!NoArg EXCEPT !.user = u, !.on = c, !.kind = kind]
<1>1. a \in DeskArgs /\ a.meeting = Nobody
  BY DEF D!NoArg, DeskArgs
<1>2. DeskLocalsOK(consultation', room', "insertMessage", a)
  BY <1>1 DEF DeskLocalsOK
<1>3. QED BY <1>1, <1>2, KeptTables, BeginShape DEF D!AddMessage, DeskLabels, D!history

LEMMA AssignShape ==
    ASSUME DeskShape, NEW r \in DeskRequests, NEW u \in Users, NEW c \in Consultations,
           NEW x \in Users, D!Assign(r, u, c, x)
    PROVE  /\ DeskShape'
           /\ consultation' = [consultation EXCEPT ![c] =
                  [requester |-> consultation[c].requester, expert |-> x, status |-> "assigned"]]
           /\ DeskMoved(r, "tellRequester", [D!NoArg EXCEPT !.user = u, !.on = c, !.expert = x])
<1> DEFINE a == [D!NoArg EXCEPT !.user = u, !.on = c, !.expert = x]
           row == [requester |-> consultation[c].requester, expert |-> x, status |-> "assigned"]
<1>1. a \in DeskArgs /\ a.meeting = Nobody /\ a.on = c /\ a.expert = x
  BY DEF D!NoArg, DeskArgs
<1>2. consultation[c] \in Cases
  BY DEF DeskShape, DeskTablesOK, D!Assign
<1>3. row \in Cases
  BY <1>2 DEF Cases, Statuses
<1>4. consultation' = [consultation EXCEPT ![c] = row]
  <2>1. [consultation[c] EXCEPT !.expert = x, !.status = "assigned"] = row
    <3> DEFINE half == [consultation[c] EXCEPT !.expert = x]
    <3>1. half \in Cases /\ half.requester = consultation[c].requester /\ half.expert = x
      BY <1>2 DEF Cases
    <3>2. [half EXCEPT !.status = "assigned"]
            = [requester |-> half.requester, expert |-> half.expert, status |-> "assigned"]
      <4> HIDE DEF half
      <4>1. QED BY <3>1 DEF Cases
    <3>3. QED BY <3>1, <3>2
  <2>2. consultation' =
            [consultation EXCEPT ![c] = [consultation[c] EXCEPT !.expert = x, !.status = "assigned"]]
    BY DEF D!Assign, DeskShape, DeskTablesOK
  <2>3. QED BY <2>1, <2>2
<1>5. DeskTablesOK' /\ RowsStay(r) /\ consultation'[c] = row
  BY <1>3, <1>4 DEF DeskShape, DeskTablesOK, D!Assign, RowsStay
<1>6. DeskLocalsOK(consultation', room', "tellRequester", a)
  BY <1>1, <1>3, <1>5 DEF DeskLocalsOK
<1>7. D!Begin(r, "tellRequester", a)
  BY DEF D!Assign
<1>8. QED BY <1>1, <1>4, <1>5, <1>6, <1>7, BeginShape, GoMoves DEF DeskLabels, D!Begin

LEMMA UpdateConsultationShape ==
    ASSUME DeskShape, NEW r \in DeskRequests, NEW u \in Users, NEW c \in Consultations,
           NEW to \in {"in_progress", "completed", "closed", "cancelled"}, D!UpdateConsultation(r, u, c, to)
    PROVE  DeskShape'
<1> DEFINE a == [D!NoArg EXCEPT !.user = u, !.on = c, !.to = to]
<1>1. a \in DeskArgs /\ a.meeting = Nobody /\ a.on = c /\ a.to = to /\ to \in Statuses
  BY DEF D!NoArg, DeskArgs, Statuses
<1>2. consultation[c] \in Cases /\ consultation' = consultation
  BY DEF DeskShape, DeskTablesOK, D!UpdateConsultation, D!rows
<1>3. DeskLocalsOK(consultation', room', "setConsultation", a)
  BY <1>1, <1>2 DEF DeskLocalsOK
<1>4. QED BY <1>1, <1>3, KeptTables, BeginShape DEF D!UpdateConsultation, DeskLabels, D!history

\* The locals of a meeting that is to be inserted.
MeetingBegun(u, c, m) ==
    [D!NoArg EXCEPT !.user = u, !.on = c, !.meeting = m,
                  !.requester = IF c = Nobody THEN Nobody ELSE consultation[c].requester,
                  !.expert    = IF c = Nobody THEN Nobody ELSE consultation[c].expert]

LEMMA CreateMeetingShape ==
    ASSUME DeskShape, NEW r \in DeskRequests, NEW u \in Users, NEW c \in Consultations \cup {Nobody},
           NEW m \in Meetings, D!CreateMeeting(r, u, c, m)
    PROVE  DeskShape' /\ DeskMoved(r, "insertRoom", MeetingBegun(u, c, m))
<1> DEFINE from == IF c = Nobody THEN Nobody ELSE consultation[c].requester
           by   == IF c = Nobody THEN Nobody ELSE consultation[c].expert
           a    == [D!NoArg EXCEPT !.user = u, !.on = c, !.meeting = m, !.requester = from, !.expert = by]
<1>1. from \in Users \cup {Nobody} /\ by \in Users \cup {Nobody}
  BY DEF DeskShape, DeskTablesOK, D!CreateMeeting, Cases
<1> HIDE DEF from, by
<1>2. a \in DeskArgs /\ a.meeting = m /\ a.user = u
  BY <1>1 DEF D!NoArg, DeskArgs
<1>3. room[m] = D!NoRoom /\ room' = room /\ \A q \in DeskRequests : deskArg[q].meeting # m
  BY DEF D!CreateMeeting, D!rows
<1>4. m # Nobody
  BY <1>3 DEF D!CreateMeeting, D!Begin, DeskShape, DeskLocalsOK
<1>5. DeskLocalsOK(consultation', room', "insertRoom", a)
  BY <1>2, <1>3, <1>4 DEF DeskLocalsOK
<1>6. D!GoTo(r, "insertRoom", a)
  BY DEF D!CreateMeeting, D!Begin, from, by
<1>7. DeskTablesOK' /\ RowsStay(r)
  BY KeptTables DEF D!CreateMeeting, D!history
<1>8. DeskMoved(r, "insertRoom", a)
  BY <1>2, <1>6, GoMoves DEF DeskLabels
<1>9. DeskShape'
  BY <1>2, <1>3, <1>5, <1>7, <1>8, DeskMoveShape
<1>10. QED BY <1>8, <1>9 DEF MeetingBegun, from, by

LEMMA MeetingCallShape ==
    ASSUME DeskShape, NEW r \in DeskRequests, NEW u \in Users, NEW m \in Meetings,
           D!MarkJoined(r, u, m) \/ \E to \in Ends : D!UpdateMeeting(r, u, m, to)
    PROVE  DeskShape'
<1>1. room[m] \in Rooms /\ UNCHANGED <<D!rows, served>>
  BY NoRows DEF DeskShape, DeskTablesOK, D!MarkJoined, D!UpdateMeeting, D!MayMove, D!From, D!history
<1>2. CASE D!MarkJoined(r, u, m)
  <2> DEFINE a == [D!NoArg EXCEPT !.user = u, !.meeting = m]
  <2>1. a \in DeskArgs /\ a.meeting = m /\ a.user = u
    BY DEF D!NoArg, DeskArgs
  <2>2. DeskLocalsOK(consultation', room', "join", a)
    BY <1>1, <2>1 DEF DeskLocalsOK, D!rows
  <2>3. QED BY <1>1, <1>2, <2>1, <2>2, KeptTables, BeginShape DEF D!MarkJoined, DeskLabels
<1>3. ASSUME NEW to \in Ends, D!UpdateMeeting(r, u, m, to) PROVE DeskShape'
  <2> DEFINE a == [D!NoArg EXCEPT !.user = u, !.meeting = m, !.to = to]
  <2>1. a \in DeskArgs /\ a.meeting = m /\ a.user = u /\ a.to = to
    BY DEF D!NoArg, DeskArgs
  <2>2. DeskLocalsOK(consultation', room', "setMeeting", a)
    BY <1>1, <2>1 DEF DeskLocalsOK, D!rows
  <2>3. QED BY <1>1, <1>3, <2>1, <2>2, KeptTables, BeginShape DEF D!UpdateMeeting, DeskLabels
<1>4. QED BY <1>2, <1>3

-----------------------------------------------------------------------------
(* Shape: the statements *)

LEMMA MessageShape ==
    ASSUME DeskShape, NEW r \in DeskRequests, D!InsertMessage(r)
    PROVE  DeskShape'
<1>1. DeskTablesOK' /\ RowsStay(r)
  BY DEF DeskShape, DeskTablesOK, D!InsertMessage, D!history, RowsStay
<1>2. QED BY <1>1, ReturnShape DEF D!InsertMessage

LEMMA TellShape ==
    ASSUME DeskShape, NEW r \in DeskRequests, D!TellRequester(r) \/ D!TellExpert(r)
    PROVE  DeskShape'
<1> DEFINE c == deskArg[r].on
<1>1. /\ c \in Consultations /\ consultation[c] \in Cases /\ deskArg[r].expert \in Users
      /\ deskArg[r] \in DeskArgs
  BY DEF DeskShape, DeskLocalsOK, D!TellRequester, D!TellExpert
<1>2. consultation[c].requester \in Users
  BY <1>1 DEF Cases
<1>3. /\ UNCHANGED <<role, consultation, room, participant, served>>
      /\ told' \in [Consultations -> [requester : Users \cup {Nobody}, expert : Users \cup {Nobody}]]
  <2>1. told[c] \in [requester : Users \cup {Nobody}, expert : Users \cup {Nobody}]
    BY <1>1 DEF DeskShape, DeskTablesOK
  <2>2. PICK row \in [requester : Users \cup {Nobody}, expert : Users \cup {Nobody}] :
           told' = [told EXCEPT ![c] = row]
    <3>1. CASE D!TellRequester(r)
      <4> DEFINE row == [told[c] EXCEPT !.requester = IF @ = Nobody THEN consultation[c].requester ELSE @]
      <4>1. row \in [requester : Users \cup {Nobody}, expert : Users \cup {Nobody}]
        BY <1>2, <2>1
      <4>2. told' = [told EXCEPT ![c] = row]
        BY <1>1, <3>1 DEF D!TellRequester, D!Tell, DeskShape, DeskTablesOK
      <4>3. QED BY <4>1, <4>2
    <3>2. CASE D!TellExpert(r)
      <4> DEFINE row == [told[c] EXCEPT !.expert = IF @ = Nobody THEN deskArg[r].expert ELSE @]
      <4>1. row \in [requester : Users \cup {Nobody}, expert : Users \cup {Nobody}]
        BY <1>1, <2>1
      <4>2. told' = [told EXCEPT ![c] = row]
        BY <1>1, <3>2 DEF D!TellExpert, D!Tell, DeskShape, DeskTablesOK
      <4>3. QED BY <4>1, <4>2
    <3>3. QED BY <3>1, <3>2
  <2>3. QED BY <2>2 DEF D!TellRequester, D!TellExpert, D!history, DeskShape, DeskTablesOK
<1>4. DeskTablesOK' /\ RowsStay(r)
  BY <1>3 DEF DeskShape, DeskTablesOK, RowsStay
<1>5. CASE D!Return(r)
  BY <1>4, <1>5, ReturnShape
<1>6. CASE D!Step(r, "tellExpert")
  <2>1. DeskMoved(r, "tellExpert", deskArg[r])
    BY <1>1, <1>6, GoMoves DEF D!Step, DeskLabels
  <2>2. DeskLocalsOK(consultation', room', "tellExpert", deskArg[r])
    BY <1>1, <1>3 DEF DeskLocalsOK
  <2>3. \A q \in DeskRequests \ {r} : deskPc[q] = "insertRoom" => deskArg[r].meeting # deskArg[q].meeting
    BY DEF DeskShape, Exclusive
  <2>4. QED BY <1>1, <1>4, <2>1, <2>2, <2>3, DeskMoveShape
<1>7. QED BY <1>5, <1>6 DEF D!TellRequester, D!TellExpert

LEMMA SetConsultationShape ==
    ASSUME DeskShape, NEW r \in DeskRequests, D!SetConsultation(r)
    PROVE  /\ DeskShape'
           /\ \E c \in Consultations, s \in Statuses :
                 /\ consultation[c] \in Cases
                 /\ consultation' = [consultation EXCEPT ![c] =
                       [requester |-> consultation[c].requester,
                        expert |-> consultation[c].expert, status |-> s]]
<1> DEFINE c == deskArg[r].on
           row == [requester |-> consultation[c].requester, expert |-> consultation[c].expert,
                   status |-> deskArg[r].to]
<1>1. c \in Consultations /\ consultation[c] \in Cases /\ deskArg[r].to \in Statuses
  BY DEF DeskShape, DeskLocalsOK, D!SetConsultation
<1>2. row \in Cases
  BY <1>1 DEF Cases
<1>3. consultation' = [consultation EXCEPT ![c] = row]
  <2>1. [consultation[c] EXCEPT !.status = deskArg[r].to] = row
    BY <1>1 DEF Cases
  <2>2. consultation' = [consultation EXCEPT ![c] = [consultation[c] EXCEPT !.status = deskArg[r].to]]
    BY DEF D!SetConsultation
  <2>3. QED BY <2>1, <2>2
<1>4. DeskTablesOK' /\ RowsStay(r)
  BY <1>1, <1>2, <1>3 DEF DeskShape, DeskTablesOK, D!SetConsultation, D!history, RowsStay
<1>5. QED BY <1>1, <1>3, <1>4, ReturnShape DEF D!SetConsultation

LEMMA InsertRoomShape ==
    ASSUME DeskShape, NEW r \in DeskRequests, D!InsertRoom(r)
    PROVE  DeskShape' /\ DeskMoved(r, "insertParticipants", deskArg[r])
<1> DEFINE m == deskArg[r].meeting
           row == [consultation |-> deskArg[r].on, creator |-> deskArg[r].user, status |-> "scheduled"]
<1>1. m \in Meetings /\ deskArg[r].user \in Users /\ deskArg[r] \in DeskArgs /\ deskPc[r] = "insertRoom"
  BY DEF DeskShape, DeskLocalsOK, D!InsertRoom
<1>2. row \in Rooms
  BY <1>1 DEF Rooms, DeskArgs
<1>3. room' = [room EXCEPT ![m] = row]
  BY DEF D!InsertRoom
<1>4. \A q \in DeskRequests \ {r} : deskArg[q].meeting # m
  BY <1>1 DEF DeskShape, Exclusive
<1>5. DeskTablesOK' /\ RowsStay(r)
  <2>1. \A q \in DeskRequests \ {r} : deskPc[q] = "insertRoom" => deskArg[q].meeting \in Meetings
    BY DEF DeskShape, DeskLocalsOK
  <2>2. QED BY <1>2, <1>3, <1>4, <2>1 DEF DeskShape, DeskTablesOK, D!InsertRoom, D!history, RowsStay
<1>6. DeskMoved(r, "insertParticipants", deskArg[r])
  BY <1>1, GoMoves DEF D!InsertRoom, D!Step, DeskLabels
<1>7. DeskLocalsOK(consultation', room', "insertParticipants", deskArg[r])
  BY <1>1, <1>2, <1>3 DEF DeskLocalsOK, DeskShape, DeskTablesOK
<1>8. QED BY <1>1, <1>4, <1>5, <1>6, <1>7, DeskMoveShape

LEMMA ParticipantShape ==
    ASSUME DeskShape, NEW r \in DeskRequests, D!InsertParticipants(r) \/ D!Join(r)
    PROVE  DeskShape'
<1>1. deskArg[r].meeting \in Meetings /\ deskArg[r].user \in Users
  BY DEF DeskShape, DeskLocalsOK, D!InsertParticipants, D!Join
<1>2. participant' \in [Meetings -> [Users -> Marks]]
  <2>1. PICK row \in [Users -> Marks] : participant' = [participant EXCEPT ![deskArg[r].meeting] = row]
    <3>1. CASE D!InsertParticipants(r)
      <4>1. [u \in Users |-> D!Invitee(deskArg[r], u)] \in [Users -> Marks]
        BY DEF D!Invitee, Marks
      <4>2. QED BY <3>1, <4>1 DEF D!InsertParticipants
    <3>2. CASE D!Join(r)
      <4> DEFINE old == participant[deskArg[r].meeting]
                 mark == CASE old[deskArg[r].user] = "host"     -> "host joined"
                           [] old[deskArg[r].user] = "attendee" -> "attendee joined"
                           [] OTHER                         -> old[deskArg[r].user]
      <4>1. old \in [Users -> Marks] /\ old[deskArg[r].user] \in Marks
        BY <1>1 DEF DeskShape, DeskTablesOK
      <4>2. mark \in Marks
        BY <4>1 DEF Marks
      <4>3. participant' = [participant EXCEPT ![deskArg[r].meeting] = [old EXCEPT ![deskArg[r].user] = mark]]
        BY <1>1, <3>2 DEF D!Join, DeskShape, DeskTablesOK
      <4> HIDE DEF mark
      <4>4. [old EXCEPT ![deskArg[r].user] = mark] \in [Users -> Marks]
        BY <4>1, <4>2
      <4>5. QED BY <4>3, <4>4
    <3>3. QED BY <3>1, <3>2
  <2>2. QED BY <2>1 DEF DeskShape, DeskTablesOK
<1>3. DeskTablesOK' /\ RowsStay(r)
  BY <1>2 DEF DeskShape, DeskTablesOK, D!InsertParticipants, D!Join, D!history, RowsStay
<1>4. QED BY <1>3, ReturnShape DEF D!InsertParticipants, D!Join

LEMMA SetMeetingShape ==
    ASSUME DeskShape, NEW r \in DeskRequests, D!SetMeeting(r)
    PROVE  DeskShape'
<1> DEFINE m == deskArg[r].meeting
           row == [room[m] EXCEPT !.status = deskArg[r].to]
<1>1. m \in Meetings /\ room[m] \in Rooms /\ deskArg[r].to \in Ends /\ deskPc[r] = "setMeeting"
  BY DEF DeskShape, DeskLocalsOK, D!SetMeeting
<1>2. row \in Rooms
  BY <1>1 DEF Rooms
<1>3. room' = [room EXCEPT ![m] = row]
  BY DEF D!SetMeeting
<1>4. \A q \in DeskRequests \ {r} : deskPc[q] = "insertRoom" => deskArg[q].meeting # m
  BY DEF DeskShape, Exclusive
<1>5. DeskTablesOK' /\ RowsStay(r)
  <2>1. \A q \in DeskRequests \ {r} : deskPc[q] = "insertRoom" => deskArg[q].meeting \in Meetings
    BY DEF DeskShape, DeskLocalsOK
  <2>2. QED BY <1>2, <1>3, <1>4, <2>1 DEF DeskShape, DeskTablesOK, D!SetMeeting, D!history, RowsStay
<1>6. QED BY <1>5, ReturnShape DEF D!SetMeeting

LEMMA CrashShape ==
    ASSUME DeskShape, NEW r \in DeskRequests, D!Crash(r)
    PROVE  DeskShape'
  BY KeptTables, ReturnShape DEF D!Crash

LEMMA NextShape == DeskShape /\ [D!Next]_D!vars => DeskShape'
<1>1. ASSUME DeskShape, NEW r \in DeskRequests, D!ConsultationCalls(r) PROVE DeskShape'
  BY <1>1, CreateConsultationShape, AddMessageShape, AssignShape, UpdateConsultationShape
     DEF D!ConsultationCalls
<1>2. ASSUME DeskShape, NEW r \in DeskRequests, D!MeetingCalls(r) PROVE DeskShape'
  BY <1>2, CreateMeetingShape, MeetingCallShape DEF D!MeetingCalls, Ends
<1>3. ASSUME DeskShape, NEW r \in DeskRequests, D!Continue(r) PROVE DeskShape'
  BY <1>3, MessageShape, TellShape, SetConsultationShape, InsertRoomShape, ParticipantShape,
     SetMeetingShape DEF D!Continue
<1>4. DeskShape /\ D!Next => DeskShape'
  BY <1>1, <1>2, <1>3, GrantShape, CrashShape DEF D!Next
<1>5. DeskShape /\ UNCHANGED D!vars => DeskShape'
  BY DEF DeskShape, DeskTablesOK, DeskLocalsOK, Exclusive, D!vars, D!rows, D!callVars, D!history
<1>6. QED BY <1>4, <1>5

LEMMA InitShape == D!Init => DeskShape
<1> SUFFICES ASSUME D!Init PROVE DeskShape
  OBVIOUS
<1>1. DeskTablesOK
  BY DEF D!Init, DeskTablesOK, D!NoParticipants, Marks
<1>2. QED BY <1>1, NoArgType DEF D!Init, DeskShape, DeskLabels, DeskLocalsOK, Exclusive

-----------------------------------------------------------------------------
(* Permissions *)

Able(roleOf, u, permission) ==
    permission \in IF roleOf[u] = {} THEN D!RolePermissions("member")
                   ELSE UNION {D!RolePermissions(g) : g \in roleOf[u]}

LEMMA CanAble == ASSUME NEW u, NEW permission PROVE D!Can(u, permission) <=> Able(role, u, permission)
  BY DEF D!Can, D!Permissions, Able

RolesGrow == \A u \in Users : role[u] \subseteq role'[u]

\* A role adds to what its holder may do, but for what a member without one may.
LEMMA AbleGrows ==
    ASSUME RolesGrow, NEW u \in Users, NEW permission, permission # "consultation.create",
           Able(role, u, permission)
    PROVE  Able(role', u, permission)
<1>1. permission \notin D!RolePermissions("member")
  BY DEF D!RolePermissions
<1>2. PICK g \in role[u] : permission \in D!RolePermissions(g)
  BY <1>1 DEF Able
<1>3. g \in role'[u]
  BY <1>2 DEF RolesGrow
<1>4. QED BY <1>2, <1>3 DEF Able

\* Whoever may schedule a meeting may start one.
LEMMA CreatorsStart ==
    ASSUME NEW u \in Users, Able(role, u, "meeting.create")
    PROVE  Able(role, u, "meeting.start")
<1>1. ASSUME NEW g, "meeting.create" \in D!RolePermissions(g)
      PROVE  "meeting.start" \in D!RolePermissions(g)
  BY <1>1 DEF D!RolePermissions, D!ConsultationAdmin, D!TrackLeader
<1>2. QED BY <1>1 DEF Able

-----------------------------------------------------------------------------
(* Creators run their meetings *)

Seated(roleOf, a) == D!Invitee(a, a.user) = "host" \/ Able(roleOf, a.user, "meeting.manage")

Hosts(roleOf, mark, u) == mark \in {"host", "host joined"} \/ Able(roleOf, u, "meeting.manage")

Inserts == {"insertRoom", "insertParticipants"}

\* No call is still to write who takes part in m.
Written(m) == \A r \in DeskRequests : deskPc[r] = "insertParticipants" => deskArg[r].meeting # m

CreatorsStand ==
    /\ \A r \in DeskRequests : deskPc[r] \in Inserts =>
          /\ Able(role, deskArg[r].user, "meeting.create")
          /\ Seated(role, deskArg[r])
    /\ \A r \in DeskRequests :
           deskPc[r] = "insertParticipants" => room[deskArg[r].meeting].creator = deskArg[r].user
    /\ \A m \in Meetings : room[m] \in Rooms => Able(role, room[m].creator, "meeting.start")
    /\ \A m \in Meetings : room[m].status = "scheduled" /\ m \notin deskDied /\ Written(m) =>
          Hosts(role, participant[m][room[m].creator], room[m].creator)

LEMMA RoomTypes ==
    ASSUME DeskShape, NEW m \in Meetings
    PROVE  /\ room[m] \in Rooms => room[m].creator \in Users
           /\ room[m].status = "scheduled" => room[m] \in Rooms
  BY NoRows DEF DeskShape, DeskTablesOK, Rooms

LEMMA InsertTypes ==
    ASSUME DeskShape, NEW r \in DeskRequests, deskPc[r] \in Inserts
    PROVE  deskArg[r].meeting \in Meetings /\ deskArg[r].user \in Users
  BY DEF DeskShape, DeskLocalsOK, Inserts

\* A step that writes no meeting, and of the inserts under way ends those that die.
LEMMA OtherSteps ==
    ASSUME DeskShape, DeskShape', CreatorsStand, RolesGrow, room' = room, participant' = participant,
           deskDied \subseteq deskDied',
           \A q \in DeskRequests : deskPc'[q] \in Inserts =>
              \/ deskPc'[q] = deskPc[q] /\ deskArg'[q] = deskArg[q]
              \/ /\ deskPc'[q] = "insertRoom"
                 /\ Able(role', deskArg'[q].user, "meeting.create")
                 /\ Seated(role', deskArg'[q]),
           \A q \in DeskRequests : deskPc[q] = "insertParticipants" =>
              (deskPc'[q] = deskPc[q] /\ deskArg'[q] = deskArg[q]) \/ deskArg[q].meeting \in deskDied'
    PROVE  CreatorsStand'
<1>1. ASSUME NEW q \in DeskRequests, deskPc'[q] \in Inserts
      PROVE  Able(role', deskArg'[q].user, "meeting.create") /\ Seated(role', deskArg'[q])
  <2>1. CASE deskPc'[q] = deskPc[q] /\ deskArg'[q] = deskArg[q]
    BY <1>1, <2>1, InsertTypes, AbleGrows DEF CreatorsStand, Seated
  <2>2. QED BY <1>1, <2>1
<1>2. ASSUME NEW q \in DeskRequests, deskPc'[q] = "insertParticipants"
      PROVE  room'[deskArg'[q].meeting].creator = deskArg'[q].user
  BY <1>2 DEF CreatorsStand, Inserts
<1>3. ASSUME NEW m \in Meetings, room'[m] \in Rooms
      PROVE  Able(role', room'[m].creator, "meeting.start")
  BY <1>3, RoomTypes, AbleGrows DEF CreatorsStand
<1>4. ASSUME NEW m \in Meetings, room'[m].status = "scheduled", m \notin deskDied',
             \A r \in DeskRequests : deskPc'[r] = "insertParticipants" => deskArg'[r].meeting # m
      PROVE  Hosts(role', participant'[m][room'[m].creator], room'[m].creator)
  <2>1. Written(m)
    BY <1>4 DEF Written
  <2>2. Hosts(role, participant[m][room[m].creator], room[m].creator)
    BY <1>4, <2>1 DEF CreatorsStand
  <2>3. QED BY <1>4, <2>2, RoomTypes, AbleGrows DEF Hosts
<1>5. QED BY <1>1, <1>2, <1>3, <1>4 DEF CreatorsStand, Seated, Hosts, Able, Written, D!Invitee

LEMMA CreateMeetingStands ==
    ASSUME DeskShape, DeskShape', CreatorsStand, NEW r \in DeskRequests, NEW u \in Users,
           NEW c \in Consultations \cup {Nobody}, NEW m \in Meetings, D!CreateMeeting(r, u, c, m)
    PROVE  CreatorsStand'
<1> DEFINE a == MeetingBegun(u, c, m)
<1>1. /\ a.user = u
      /\ a.requester = IF c = Nobody THEN Nobody ELSE consultation[c].requester
      /\ a.expert = IF c = Nobody THEN Nobody ELSE consultation[c].expert
  BY DEF MeetingBegun, D!NoArg
<1>2. DeskMoved(r, "insertRoom", a) /\ deskPc[r] = "idle"
  BY CreateMeetingShape DEF D!CreateMeeting, D!Begin
<1>3. role' = role /\ room' = room /\ participant' = participant /\ deskDied' = deskDied
  BY DEF D!CreateMeeting, D!rows, D!history
<1> HIDE DEF a
<1>4. Able(role', u, "meeting.create")
  BY <1>3, CanAble DEF D!CreateMeeting
<1>5. Seated(role', a)
  <2>1. a.expert = u \/ u # a.requester \/ Able(role, u, "meeting.manage")
    BY <1>1, CanAble DEF D!CreateMeeting
  <2>2. QED BY <1>1, <1>3, <2>1 DEF Seated, D!Invitee
<1>6. RolesGrow
  BY <1>3 DEF RolesGrow
<1>7. QED BY <1>1, <1>2, <1>3, <1>4, <1>5, <1>6, OtherSteps DEF DeskMoved

LEMMA InsertRoomStands ==
    ASSUME DeskShape, DeskShape', CreatorsStand, NEW r \in DeskRequests, D!InsertRoom(r)
    PROVE  CreatorsStand'
<1> DEFINE m == deskArg[r].meeting
           row == [consultation |-> deskArg[r].on, creator |-> deskArg[r].user, status |-> "scheduled"]
<1>1. /\ deskPc[r] = "insertRoom" /\ m \in Meetings /\ deskArg[r].user \in Users
      /\ DeskMoved(r, "insertParticipants", deskArg[r])
  BY InsertTypes, InsertRoomShape DEF D!InsertRoom, Inserts
<1>2. /\ room' = [room EXCEPT ![m] = row] /\ room'[m] = row
      /\ role' = role /\ participant' = participant /\ deskDied' = deskDied
  BY <1>1 DEF D!InsertRoom, DeskShape, DeskTablesOK, D!history
<1>3. \A q \in DeskRequests \ {r} : deskArg[q].meeting # m
  BY <1>1 DEF DeskShape, Exclusive
<1>4. Able(role, deskArg[r].user, "meeting.create") /\ Able(role, deskArg[r].user, "meeting.start")
  BY <1>1, CreatorsStart DEF CreatorsStand, Inserts
<1>5. ASSUME NEW q \in DeskRequests, deskPc'[q] \in Inserts
      PROVE  Able(role', deskArg'[q].user, "meeting.create") /\ Seated(role', deskArg'[q])
  BY <1>1, <1>2, <1>5 DEF CreatorsStand, DeskMoved, Inserts
<1>6. ASSUME NEW q \in DeskRequests, deskPc'[q] = "insertParticipants"
      PROVE  room'[deskArg'[q].meeting].creator = deskArg'[q].user
  <2>1. CASE q = r
    BY <1>1, <1>2, <2>1 DEF DeskMoved
  <2>2. CASE q # r
    BY <1>1, <1>2, <1>3, <1>6, <2>2, InsertTypes
       DEF CreatorsStand, DeskMoved, Inserts, DeskShape, DeskTablesOK
  <2>3. QED BY <2>1, <2>2
<1>7. ASSUME NEW n \in Meetings, room'[n] \in Rooms
      PROVE  Able(role', room'[n].creator, "meeting.start")
  <2>1. CASE n = m
    BY <1>2, <1>4, <2>1
  <2>2. CASE n # m
    BY <1>2, <1>7, <2>2 DEF CreatorsStand, DeskShape, DeskTablesOK
  <2>3. QED BY <2>1, <2>2
<1>8. ASSUME NEW n \in Meetings, room'[n].status = "scheduled", n \notin deskDied',
             \A q \in DeskRequests : deskPc'[q] = "insertParticipants" => deskArg'[q].meeting # n
      PROVE  Hosts(role', participant'[n][room'[n].creator], room'[n].creator)
  <2>1. n # m /\ room'[n] = room[n]
    BY <1>1, <1>2, <1>8 DEF DeskMoved, DeskShape, DeskTablesOK
  <2>2. Written(n)
    BY <1>1, <1>8 DEF Written, DeskMoved
  <2>3. QED BY <1>2, <1>8, <2>1, <2>2 DEF CreatorsStand
<1>9. QED BY <1>5, <1>6, <1>7, <1>8 DEF CreatorsStand, Seated, Hosts, Able, Written, D!Invitee

LEMMA InsertParticipantsStands ==
    ASSUME DeskShape, DeskShape', CreatorsStand, NEW r \in DeskRequests, D!InsertParticipants(r)
    PROVE  CreatorsStand'
<1> DEFINE m == deskArg[r].meeting
           marks == [u \in Users |-> D!Invitee(deskArg[r], u)]
<1>1. /\ deskPc[r] = "insertParticipants" /\ m \in Meetings /\ deskArg[r].user \in Users
      /\ DeskMoved(r, "idle", D!NoArg)
  BY InsertTypes, GoMoves, NoArgType DEF D!InsertParticipants, Inserts, D!Return, DeskLabels
<1>2. /\ participant'[m] = marks /\ \A n \in Meetings \ {m} : participant'[n] = participant[n]
      /\ room' = room /\ role' = role /\ deskDied' = deskDied
  BY <1>1 DEF D!InsertParticipants, DeskShape, DeskTablesOK, D!history
<1>3. room[m].creator = deskArg[r].user /\ Seated(role, deskArg[r])
  BY <1>1 DEF CreatorsStand, Inserts
<1>4. ASSUME NEW n \in Meetings, room'[n].status = "scheduled", n \notin deskDied',
             \A q \in DeskRequests : deskPc'[q] = "insertParticipants" => deskArg'[q].meeting # n
      PROVE  Hosts(role', participant'[n][room'[n].creator], room'[n].creator)
  <2>1. CASE n = m
    BY <1>1, <1>2, <1>3, <2>1 DEF Seated, Hosts
  <2>2. CASE n # m
    <3>1. Written(n)
      BY <1>1, <1>4, <2>2 DEF Written, DeskMoved
    <3>2. QED BY <1>2, <1>4, <2>2, <3>1 DEF CreatorsStand
  <2>3. QED BY <2>1, <2>2
<1>5. /\ \A q \in DeskRequests : deskPc'[q] \in Inserts => deskPc'[q] = deskPc[q] /\ deskArg'[q] = deskArg[q]
  BY <1>1 DEF DeskMoved, Inserts
<1>6. QED BY <1>2, <1>4, <1>5 DEF CreatorsStand, Seated, Hosts, Able, Written, D!Invitee, Inserts

LEMMA JoinStands ==
    ASSUME DeskShape, DeskShape', CreatorsStand, NEW r \in DeskRequests, D!Join(r)
    PROVE  CreatorsStand'
<1>1. /\ deskArg[r].meeting \in Meetings /\ deskArg[r].user \in Users /\ DeskMoved(r, "idle", D!NoArg)
      /\ deskPc[r] = "join"
  BY GoMoves, NoArgType DEF D!Join, D!Return, DeskLabels, DeskShape, DeskLocalsOK
<1>2. room' = room /\ role' = role /\ deskDied' = deskDied
  BY DEF D!Join, D!history
<1>3. ASSUME NEW m \in Meetings, NEW u \in Users, participant[m][u] \in {"host", "host joined"}
      PROVE  participant'[m][u] \in {"host", "host joined"}
  <2>1. CASE m = deskArg[r].meeting /\ u = deskArg[r].user
    <3>1. participant'[m][u] = CASE participant[m][u] = "host"     -> "host joined"
                                 [] participant[m][u] = "attendee" -> "attendee joined"
                                 [] OTHER                          -> participant[m][u]
      BY <1>1, <2>1 DEF D!Join, DeskShape, DeskTablesOK
    <3>2. QED BY <1>3, <3>1
  <2>2. CASE ~(m = deskArg[r].meeting /\ u = deskArg[r].user)
    BY <1>1, <1>3, <2>2 DEF D!Join, DeskShape, DeskTablesOK
  <2>3. QED BY <2>1, <2>2
<1>4. /\ \A q \in DeskRequests : deskPc'[q] \in Inserts => deskPc'[q] = deskPc[q] /\ deskArg'[q] = deskArg[q]
      /\ \A q \in DeskRequests :
             deskPc[q] = "insertParticipants" => deskPc'[q] = deskPc[q] /\ deskArg'[q] = deskArg[q]
  BY <1>1 DEF DeskMoved, Inserts
<1>5. ASSUME NEW m \in Meetings, room'[m].status = "scheduled", m \notin deskDied',
             \A q \in DeskRequests : deskPc'[q] = "insertParticipants" => deskArg'[q].meeting # m
      PROVE  Hosts(role', participant'[m][room'[m].creator], room'[m].creator)
  <2>1. Written(m)
    BY <1>4, <1>5 DEF Written
  <2>2. Hosts(role, participant[m][room[m].creator], room[m].creator) /\ room[m].creator \in Users
    BY <1>2, <1>5, <2>1, RoomTypes DEF CreatorsStand
  <2>3. QED BY <1>2, <1>3, <2>2 DEF Hosts
<1>6. QED BY <1>2, <1>4, <1>5 DEF CreatorsStand, Seated, Hosts, Able, Written, D!Invitee, Inserts

LEMMA SetMeetingStands ==
    ASSUME DeskShape, DeskShape', CreatorsStand, NEW r \in DeskRequests, D!SetMeeting(r)
    PROVE  CreatorsStand'
<1> DEFINE m == deskArg[r].meeting
<1>1. /\ m \in Meetings /\ room[m] \in Rooms /\ deskArg[r].to \in Ends /\ deskPc[r] = "setMeeting"
      /\ DeskMoved(r, "idle", D!NoArg)
  BY GoMoves, NoArgType DEF D!SetMeeting, D!Return, DeskLabels, DeskShape, DeskLocalsOK
<1>2. /\ role' = role /\ participant' = participant /\ deskDied' = deskDied
      /\ \A n \in Meetings \ {m} : room'[n] = room[n]
      /\ room'[m].creator = room[m].creator /\ room'[m].status = deskArg[r].to
  BY <1>1 DEF D!SetMeeting, D!history, DeskShape, DeskTablesOK, Rooms
<1>3. /\ \A q \in DeskRequests : deskPc'[q] \in Inserts => deskPc'[q] = deskPc[q] /\ deskArg'[q] = deskArg[q]
      /\ \A q \in DeskRequests :
             deskPc[q] = "insertParticipants" => deskPc'[q] = deskPc[q] /\ deskArg'[q] = deskArg[q]
  BY <1>1 DEF DeskMoved, Inserts
<1>4. ASSUME NEW q \in DeskRequests, deskPc'[q] = "insertParticipants"
      PROVE  room'[deskArg'[q].meeting].creator = deskArg'[q].user
  BY <1>2, <1>3, <1>4, InsertTypes DEF CreatorsStand, Inserts
<1>5. ASSUME NEW n \in Meetings, room'[n] \in Rooms
      PROVE  Able(role', room'[n].creator, "meeting.start")
  BY <1>1, <1>2, <1>5 DEF CreatorsStand
<1>6. ASSUME NEW n \in Meetings, room'[n].status = "scheduled", n \notin deskDied',
             \A q \in DeskRequests : deskPc'[q] = "insertParticipants" => deskArg'[q].meeting # n
      PROVE  Hosts(role', participant'[n][room'[n].creator], room'[n].creator)
  <2>1. n # m
    BY <1>1, <1>2, <1>6 DEF Ends
  <2>2. Written(n)
    BY <1>3, <1>6 DEF Written
  <2>3. QED BY <1>2, <1>6, <2>1, <2>2 DEF CreatorsStand
<1>7. QED BY <1>2, <1>3, <1>4, <1>5, <1>6, ZenonT(40)
     DEF CreatorsStand, Seated, Hosts, Able, Written, D!Invitee, Inserts

\* The steps that leave meetings alone.
LEMMA AwayStands ==
    ASSUME DeskShape, DeskShape', CreatorsStand, NEW r \in DeskRequests, NEW label, NEW a,
           DeskMoved(r, label, a),
           label \notin Inserts, role' = role, room' = room, participant' = participant, deskDied' = deskDied,
           deskPc[r] # "insertParticipants"
    PROVE  CreatorsStand'
<1>1. RolesGrow
  BY DEF RolesGrow
<1>2. QED BY <1>1, OtherSteps DEF DeskMoved

LEMMA CrashStands ==
    ASSUME DeskShape, DeskShape', CreatorsStand, NEW r \in DeskRequests, D!Crash(r)
    PROVE  CreatorsStand'
<1>1. DeskMoved(r, "idle", D!NoArg) /\ RolesGrow
  BY GoMoves, NoArgType DEF D!Crash, D!Return, DeskLabels, D!rows, RolesGrow
<1>2. deskDied \subseteq deskDied' /\ (deskPc[r] = "insertParticipants" => deskArg[r].meeting \in deskDied')
  <2> DEFINE lost == CASE deskPc[r] \in {"tellRequester", "tellExpert"} -> {deskArg[r].on}
                       [] deskPc[r] = "insertParticipants"             -> {deskArg[r].meeting}
                       [] OTHER                                    -> {}
  <2>1. deskDied' = deskDied \cup lost
    BY DEF D!Crash
  <2>2. deskPc[r] = "insertParticipants" => lost = {deskArg[r].meeting}
    OBVIOUS
  <2> HIDE DEF lost
  <2>3. QED BY <2>1, <2>2
<1>3. room' = room /\ participant' = participant
  BY DEF D!Crash, D!rows
<1>4. QED BY <1>1, <1>2, <1>3, OtherSteps DEF DeskMoved, Inserts

LEMMA GrantGrows ==
    ASSUME DeskShape, NEW u \in Users, NEW g \in Granted, D!GrantRole(u, g)
    PROVE  RolesGrow
  BY DEF D!GrantRole, RolesGrow, DeskShape, DeskTablesOK

\* The calls of consultations, where a request goes on to, and where it was.
LEMMA ConsultationMoves ==
    ASSUME DeskShape, NEW r \in DeskRequests, D!ConsultationCalls(r)
    PROVE  \/ \E u \in Users, c \in Consultations : D!CreateConsultation(r, u, c)
           \/ \E u \in Users, c \in Consultations, x \in Users : D!Assign(r, u, c, x)
           \/ /\ \E label \in {"insertMessage", "setConsultation"}, a \in DeskArgs : DeskMoved(r, label, a)
              /\ deskPc[r] = "idle" /\ UNCHANGED <<D!rows, D!history>>
<1>1. ASSUME NEW u \in Users, NEW c \in Consultations, NEW kind \in D!MessageKinds, D!AddMessage(r, u, c, kind)
      PROVE  /\ \E a \in DeskArgs : DeskMoved(r, "insertMessage", a)
             /\ deskPc[r] = "idle" /\ UNCHANGED <<D!rows, D!history>>
  <2> DEFINE a == [D!NoArg EXCEPT !.user = u, !.on = c, !.kind = kind]
  <2>1. a \in DeskArgs
    BY DEF D!NoArg, DeskArgs
  <2>2. D!GoTo(r, "insertMessage", a) /\ deskPc[r] = "idle" /\ UNCHANGED <<D!rows, D!history>>
    BY <1>1 DEF D!AddMessage, D!Begin
  <2>3. QED BY <2>1, <2>2, GoMoves DEF DeskLabels
<1>2. ASSUME NEW u \in Users, NEW c \in Consultations,
             NEW to \in {"in_progress", "completed", "closed", "cancelled"}, D!UpdateConsultation(r, u, c, to)
      PROVE  /\ \E a \in DeskArgs : DeskMoved(r, "setConsultation", a)
             /\ deskPc[r] = "idle" /\ UNCHANGED <<D!rows, D!history>>
  <2> DEFINE a == [D!NoArg EXCEPT !.user = u, !.on = c, !.to = to]
  <2>1. a \in DeskArgs
    BY DEF D!NoArg, DeskArgs, Statuses
  <2>2. D!GoTo(r, "setConsultation", a) /\ deskPc[r] = "idle" /\ UNCHANGED <<D!rows, D!history>>
    BY <1>2 DEF D!UpdateConsultation, D!Begin
  <2>3. QED BY <2>1, <2>2, GoMoves DEF DeskLabels
<1>3. QED BY <1>1, <1>2 DEF D!ConsultationCalls

LEMMA MeetingMoves ==
    ASSUME DeskShape, NEW r \in DeskRequests, D!MeetingCalls(r)
    PROVE  \/ \E u \in Users, c \in Consultations \cup {Nobody}, m \in Meetings : D!CreateMeeting(r, u, c, m)
           \/ /\ \E label \in {"join", "setMeeting"}, a \in DeskArgs : DeskMoved(r, label, a)
              /\ deskPc[r] = "idle" /\ UNCHANGED <<D!rows, D!history>>
<1>1. ASSUME NEW u \in Users, NEW m \in Meetings, D!MarkJoined(r, u, m)
      PROVE  /\ \E a \in DeskArgs : DeskMoved(r, "join", a)
             /\ deskPc[r] = "idle" /\ UNCHANGED <<D!rows, D!history>>
  <2> DEFINE a == [D!NoArg EXCEPT !.user = u, !.meeting = m]
  <2>1. a \in DeskArgs
    BY DEF D!NoArg, DeskArgs
  <2>2. D!GoTo(r, "join", a) /\ deskPc[r] = "idle" /\ UNCHANGED <<D!rows, D!history>>
    BY <1>1 DEF D!MarkJoined, D!Begin
  <2>3. QED BY <2>1, <2>2, GoMoves DEF DeskLabels
<1>2. ASSUME NEW u \in Users, NEW m \in Meetings, NEW to \in Ends, D!UpdateMeeting(r, u, m, to)
      PROVE  /\ \E a \in DeskArgs : DeskMoved(r, "setMeeting", a)
             /\ deskPc[r] = "idle" /\ UNCHANGED <<D!rows, D!history>>
  <2> DEFINE a == [D!NoArg EXCEPT !.user = u, !.meeting = m, !.to = to]
  <2>1. a \in DeskArgs
    BY DEF D!NoArg, DeskArgs
  <2>2. D!GoTo(r, "setMeeting", a) /\ deskPc[r] = "idle" /\ UNCHANGED <<D!rows, D!history>>
    BY <1>2 DEF D!UpdateMeeting, D!Begin
  <2>3. QED BY <2>1, <2>2, GoMoves DEF DeskLabels
<1>3. QED BY <1>1, <1>2 DEF D!MeetingCalls, Ends

LEMMA TellMoves ==
    ASSUME DeskShape, NEW r \in DeskRequests, D!TellRequester(r) \/ D!TellExpert(r)
    PROVE  \/ DeskMoved(r, "idle", D!NoArg)
           \/ DeskMoved(r, "tellExpert", deskArg[r]) /\ deskPc[r] = "tellRequester"
<1>1. deskArg[r] \in DeskArgs
  BY DEF DeskShape
<1>2. QED BY <1>1, GoMoves, NoArgType DEF D!TellRequester, D!TellExpert, D!Step, D!Return, DeskLabels

LEMMA CreatorsStay == DeskShape /\ CreatorsStand /\ [D!Next]_D!vars => DeskShape' /\ CreatorsStand'
<1> SUFFICES ASSUME DeskShape, CreatorsStand, [D!Next]_D!vars PROVE DeskShape' /\ CreatorsStand'
  OBVIOUS
<1>0. DeskShape'
  BY NextShape
<1>1. ASSUME NEW r \in DeskRequests, D!ConsultationCalls(r) PROVE CreatorsStand'
  <2>1. ASSUME NEW u \in Users, NEW c \in Consultations, D!CreateConsultation(r, u, c) PROVE CreatorsStand'
    <3>1. UNCHANGED <<role, room, participant, deskPc, deskArg, deskDied>>
      BY <2>1 DEF D!CreateConsultation, D!callVars, D!history
    <3>2. QED BY <1>0, <3>1, OtherSteps DEF RolesGrow
  <2>2. ASSUME NEW u \in Users, NEW c \in Consultations, NEW x \in Users, D!Assign(r, u, c, x)
        PROVE  CreatorsStand'
    <3>1. DeskMoved(r, "tellRequester", [D!NoArg EXCEPT !.user = u, !.on = c, !.expert = x])
      BY <2>2, AssignShape
    <3>2. UNCHANGED <<role, room, participant, deskDied>> /\ deskPc[r] = "idle"
      BY <2>2 DEF D!Assign, D!Begin
    <3>3. QED BY <1>0, <3>1, <3>2, AwayStands DEF Inserts
  <2>3. QED BY <1>0, <1>1, <2>1, <2>2, ConsultationMoves, AwayStands DEF D!rows, D!history, Inserts
<1>2. ASSUME NEW r \in DeskRequests, D!MeetingCalls(r) PROVE CreatorsStand'
  BY <1>0, <1>2, MeetingMoves, CreateMeetingStands, AwayStands DEF D!rows, D!history, Inserts
<1>3. ASSUME NEW r \in DeskRequests, D!Continue(r) PROVE CreatorsStand'
  <2>1. CASE D!InsertMessage(r) \/ D!SetConsultation(r)
    <3>1. DeskMoved(r, "idle", D!NoArg) /\ deskPc[r] # "insertParticipants"
      BY <2>1, GoMoves, NoArgType DEF D!InsertMessage, D!SetConsultation, D!Return, DeskLabels
    <3>2. UNCHANGED <<role, room, participant, deskDied>>
      BY <2>1 DEF D!InsertMessage, D!SetConsultation, D!history
    <3>3. QED BY <1>0, <3>1, <3>2, AwayStands DEF Inserts
  <2>2. CASE D!TellRequester(r) \/ D!TellExpert(r)
    <3>1. UNCHANGED <<role, room, participant, deskDied>> /\ deskPc[r] # "insertParticipants"
      BY <2>2 DEF D!TellRequester, D!TellExpert, D!history
    <3>2. QED BY <1>0, <2>2, <3>1, TellMoves, AwayStands DEF Inserts
  <2>3. QED BY <1>0, <1>3, <2>1, <2>2, InsertRoomStands, InsertParticipantsStands, JoinStands,
               SetMeetingStands DEF D!Continue
<1>4. ASSUME NEW u \in Users, NEW g \in Granted, D!GrantRole(u, g) PROVE CreatorsStand'
  <2>1. UNCHANGED <<room, participant, deskPc, deskArg, deskDied>>
    BY <1>4 DEF D!GrantRole, D!callVars, D!history
  <2>2. QED BY <1>0, <1>4, <2>1, GrantGrows, OtherSteps
<1>5. CASE UNCHANGED D!vars
  <2>1. UNCHANGED <<role, room, participant, deskPc, deskArg, deskDied>>
    BY <1>5 DEF D!vars, D!rows, D!callVars, D!history
  <2>2. QED BY <1>0, <2>1, OtherSteps DEF RolesGrow
<1>6. QED BY <1>0, <1>1, <1>2, <1>3, <1>4, <1>5, CrashStands DEF D!Next

LEMMA InitStands == D!Init => CreatorsStand
  BY NoRows DEF D!Init, CreatorsStand, Inserts, D!NoRoom

LEMMA StandingRun == DeskShape /\ CreatorsStand => D!CreatorMayRunIt
<1> SUFFICES ASSUME DeskShape, CreatorsStand, NEW m \in Meetings
             PROVE  LET u == room[m].creator
                        written == \A r \in DeskRequests : deskPc[r] = "insertParticipants" =>
                            deskArg[r].meeting # m
                    IN
                    /\ room[m].status = "scheduled" /\ m \notin deskDied /\ written =>
                           m \in D!ListMeetings(u) /\ D!Offers(u, m, "live") /\ D!Offers(u, m, "cancelled")
                    /\ \A v \in Users, to \in {"live", "completed", "cancelled"} :
                           D!Offers(v, m, to) => D!MayMove(v, m, to) /\ (Ready => D!Moderates(v, m))
  BY DEF D!CreatorMayRunIt
<1>1. ASSUME room[m].status = "scheduled", m \notin deskDied, Written(m)
      PROVE  /\ m \in D!ListMeetings(room[m].creator)
             /\ D!Offers(room[m].creator, m, "live") /\ D!Offers(room[m].creator, m, "cancelled")
  <2>1. /\ Hosts(role, participant[m][room[m].creator], room[m].creator)
        /\ Able(role, room[m].creator, "meeting.start") /\ room[m] # D!NoRoom
    BY <1>1, RoomTypes, NoRows DEF CreatorsStand
  <2>2. D!IsHost(room[m].creator, m) /\ D!Can(room[m].creator, "meeting.start")
    BY <2>1, CanAble DEF Hosts, D!IsHost
  <2>3. m \in D!ListMeetings(room[m].creator)
    BY <2>1, CanAble DEF Hosts, D!ListMeetings
  <2>4. QED BY <1>1, <2>2, <2>3 DEF D!Offers
<1>2. ASSUME NEW v \in Users, NEW to \in {"live", "completed", "cancelled"}, D!Offers(v, m, to)
      PROVE  D!MayMove(v, m, to) /\ (Ready => D!Moderates(v, m))
  BY <1>2 DEF D!Offers, D!MayMove, D!From, D!Moderates, D!HasAccess, D!IsHost
<1>3. QED BY <1>1, <1>2 DEF Written

\* createMeeting, updateMeetingStatus and the meeting's page: who scheduled a
\* meeting finds it and may start and cancel it, whatever roles are granted and
\* whoever the consultation's requester and expert become; and what a page
\* offers the call accepts.
THEOREM CreatorsRunTheirMeetings == DeskSpec => []CreatorMayRunIt
<1>1. D!Init => DeskShape /\ CreatorsStand
  BY InitShape, InitStands
<1>2. DeskShape /\ CreatorsStand => CreatorMayRunIt
  BY StandingRun DEF CreatorMayRunIt
<1>3. QED BY <1>1, <1>2, CreatorsStay, PTL DEF DeskSpec, D!Spec

-----------------------------------------------------------------------------
(* Assignments are told *)

Tellers == {"tellRequester", "tellExpert"}

Telling ==
    /\ \A c \in Consultations :
          /\ told[c].requester \in {Nobody, consultation[c].requester}
          /\ served[c] # {} => consultation[c] \in Cases
          /\ told[c].expert \in served[c] \cup {Nobody}
          /\ consultation[c].expert # Nobody => Able(role, consultation[c].expert, "consultation.respond")
          /\ /\ served[c] # {} /\ c \notin deskDied
             /\ \A r \in DeskRequests : deskPc[r] = "tellRequester" => deskArg[r].on # c
             => told[c].requester = consultation[c].requester
    /\ \A r \in DeskRequests : deskPc[r] \in Tellers => deskArg[r].expert \in served[deskArg[r].on]

LEMMA CaseTypes ==
    ASSUME DeskShape, NEW c \in Consultations
    PROVE  /\ consultation[c].expert # Nobody => consultation[c] \in Cases /\ consultation[c].expert \in Users
           /\ consultation[c] \in Cases => consultation[c].requester \in Users
           /\ consultation[c] \notin Cases =>
                 consultation[c].requester = Nobody /\ consultation[c].expert = Nobody
  BY DEF DeskShape, DeskTablesOK, Cases, D!NoConsultation

LEMMA TellerTypes ==
    ASSUME DeskShape, NEW r \in DeskRequests, deskPc[r] \in Tellers
    PROVE  /\ deskArg[r].on \in Consultations /\ consultation[deskArg[r].on] \in Cases
           /\ deskArg[r].expert \in Users
  BY DEF DeskShape, DeskLocalsOK, Tellers

\* A step that assigns and tells nothing, and of the telling ends what dies.
LEMMA SilentSteps ==
    ASSUME DeskShape, DeskShape', Telling, RolesGrow, told' = told, served' = served,
           deskDied \subseteq deskDied',
           \A c \in Consultations :
              /\ consultation'[c].expert = consultation[c].expert
              /\ consultation[c] \in Cases =>
                    consultation'[c] \in Cases /\ consultation'[c].requester = consultation[c].requester,
           \A q \in DeskRequests : deskPc'[q] \in Tellers => deskPc'[q] = deskPc[q] /\ deskArg'[q] = deskArg[q],
           \A q \in DeskRequests : deskPc[q] = "tellRequester" =>
              (deskPc'[q] = deskPc[q] /\ deskArg'[q] = deskArg[q]) \/ deskArg[q].on \in deskDied'
    PROVE  Telling'
<1>1. ASSUME NEW c \in Consultations
      PROVE  /\ told'[c].requester \in {Nobody, consultation'[c].requester}
             /\ served'[c] # {} => consultation'[c] \in Cases
             /\ told'[c].expert \in served'[c] \cup {Nobody}
             /\ consultation'[c].expert # Nobody => Able(role', consultation'[c].expert, "consultation.respond")
  <2>1. told'[c].requester \in {Nobody, consultation'[c].requester}
    BY CaseTypes DEF Telling
  <2>2. consultation'[c].expert # Nobody => Able(role', consultation'[c].expert, "consultation.respond")
    BY CaseTypes, AbleGrows DEF Telling
  <2>3. QED BY <2>1, <2>2 DEF Telling
<1>2. ASSUME NEW c \in Consultations, served'[c] # {}, c \notin deskDied',
             \A q \in DeskRequests : deskPc'[q] = "tellRequester" => deskArg'[q].on # c
      PROVE  told'[c].requester = consultation'[c].requester
  <2>1. \A q \in DeskRequests : deskPc[q] = "tellRequester" => deskArg[q].on # c
    BY <1>2
  <2>2. QED BY <1>2, <2>1 DEF Telling
<1>3. \A q \in DeskRequests : deskPc'[q] \in Tellers => deskArg'[q].expert \in served'[deskArg'[q].on]
  BY DEF Telling
<1>4. QED BY <1>1, <1>2, <1>3 DEF Telling, Able

\* The same for a call that leaves consultations alone.
LEMMA SilentMoves ==
    ASSUME DeskShape, DeskShape', Telling, NEW r \in DeskRequests, NEW label, NEW a, DeskMoved(r, label, a),
           label \notin Tellers, UNCHANGED <<role, told, served, deskDied>>, deskPc[r] # "tellRequester",
           \A c \in Consultations :
              /\ consultation'[c].expert = consultation[c].expert
              /\ consultation[c] \in Cases =>
                    consultation'[c] \in Cases /\ consultation'[c].requester = consultation[c].requester
    PROVE  Telling'
<1>1. RolesGrow
  BY DEF RolesGrow
<1>2. QED BY <1>1, SilentSteps DEF DeskMoved

LEMMA AssignTells ==
    ASSUME DeskShape, DeskShape', Telling, NEW r \in DeskRequests, NEW u \in Users, NEW c \in Consultations,
           NEW x \in Users, D!Assign(r, u, c, x)
    PROVE  Telling'
<1> DEFINE a == [D!NoArg EXCEPT !.user = u, !.on = c, !.expert = x]
<1>1. DeskMoved(r, "tellRequester", a) /\ a.on = c /\ a.expert = x
  BY AssignShape DEF D!NoArg
<1>2. /\ consultation[c] \in Cases /\ \A d \in Consultations \ {c} : consultation'[d] = consultation[d]
      /\ consultation'[c] \in Cases
      /\ consultation'[c].requester = consultation[c].requester /\ consultation'[c].expert = x
  <2>1. consultation[c] \in Cases
    BY DEF D!Assign, DeskShape, DeskTablesOK
  <2>2. [requester |-> consultation[c].requester, expert |-> x, status |-> "assigned"] \in Cases
    BY <2>1 DEF Cases, Statuses
  <2>3. consultation' = [consultation EXCEPT ![c] =
             [requester |-> consultation[c].requester, expert |-> x, status |-> "assigned"]]
    BY AssignShape
  <2>4. QED BY <2>1, <2>2, <2>3 DEF DeskShape, DeskTablesOK
<1>3. UNCHANGED <<role, told, deskDied>> /\ deskPc[r] = "idle"
  BY DEF D!Assign, D!Begin
<1>4. served'[c] = served[c] \cup {x} /\ \A d \in Consultations \ {c} : served'[d] = served[d]
  BY DEF D!Assign, DeskShape, DeskTablesOK
<1> HIDE DEF a
<1>5. Able(role, x, "consultation.respond")
  BY CanAble DEF D!Assign
<1>6. ASSUME NEW d \in Consultations
      PROVE  /\ told'[d].requester \in {Nobody, consultation'[d].requester}
             /\ served'[d] # {} => consultation'[d] \in Cases
             /\ told'[d].expert \in served'[d] \cup {Nobody}
             /\ consultation'[d].expert # Nobody => Able(role', consultation'[d].expert, "consultation.respond")
             /\ /\ served'[d] # {} /\ d \notin deskDied'
                /\ \A q \in DeskRequests : deskPc'[q] = "tellRequester" => deskArg'[q].on # d
                => told'[d].requester = consultation'[d].requester
  <2>1. CASE d = c
    BY <1>1, <1>2, <1>3, <1>4, <1>5, <2>1 DEF Telling, DeskMoved
  <2>2. CASE d # c
    <3>1. /\ consultation'[d] = consultation[d] /\ served'[d] = served[d] /\ told'[d] = told[d]
          /\ role' = role /\ deskDied' = deskDied
      BY <1>2, <1>3, <1>4, <2>2
    <3>2. (\A q \in DeskRequests : deskPc'[q] = "tellRequester" => deskArg'[q].on # d)
             => (\A q \in DeskRequests : deskPc[q] = "tellRequester" => deskArg[q].on # d)
      BY <1>1, <1>3 DEF DeskMoved
    <3>3. QED BY <3>1, <3>2 DEF Telling
  <2>3. QED BY <2>1, <2>2
<1>7. ASSUME NEW q \in DeskRequests, deskPc'[q] \in Tellers
      PROVE  deskArg'[q].expert \in served'[deskArg'[q].on]
  <2>1. CASE q = r
    BY <1>1, <1>4, <2>1 DEF DeskMoved
  <2>2. CASE q # r
    <3>1. /\ deskPc'[q] = deskPc[q] /\ deskArg'[q] = deskArg[q]
          /\ deskArg[q].expert \in served[deskArg[q].on] /\ deskArg[q].on \in Consultations
      BY <1>1, <1>7, <2>2, TellerTypes DEF DeskMoved, Telling
    <3>2. QED BY <1>4, <3>1
  <2>3. QED BY <2>1, <2>2
<1>8. QED BY <1>6, <1>7 DEF Telling, Able

LEMMA TellTells ==
    ASSUME DeskShape, DeskShape', Telling, NEW r \in DeskRequests, D!TellRequester(r) \/ D!TellExpert(r)
    PROVE  Telling'
<1> DEFINE c == deskArg[r].on
<1>1. /\ c \in Consultations /\ consultation[c] \in Cases /\ deskArg[r].expert \in Users
      /\ deskArg[r].expert \in served[c] /\ deskPc[r] \in Tellers
  BY TellerTypes DEF D!TellRequester, D!TellExpert, Telling, Tellers
<1>2. UNCHANGED <<role, consultation, served, deskDied>>
  BY DEF D!TellRequester, D!TellExpert, D!history
<1>3. DeskMoved(r, "idle", D!NoArg) \/ (DeskMoved(r, "tellExpert", deskArg[r]) /\ deskPc[r] = "tellRequester")
  BY TellMoves
<1>4. /\ \A d \in Consultations \ {c} : told'[d] = told[d]
      /\ told'[c].requester \in {told[c].requester, consultation[c].requester}
      /\ told'[c].expert \in {told[c].expert, deskArg[r].expert}
      /\ deskPc[r] = "tellRequester" => told'[c].requester = consultation[c].requester
      /\ deskPc[r] = "tellExpert" => told'[c].requester = told[c].requester
  <2>0. told[c] \in [requester : Users \cup {Nobody}, expert : Users \cup {Nobody}]
    BY <1>1 DEF DeskShape, DeskTablesOK
  <2>1. CASE D!TellRequester(r)
    <3> DEFINE row == [told[c] EXCEPT !.requester = IF @ = Nobody THEN consultation[c].requester ELSE @]
    <3>1. told' = [told EXCEPT ![c] = row]
      BY <1>1, <2>1 DEF D!TellRequester, D!Tell, DeskShape, DeskTablesOK
    <3>2. row.expert = told[c].expert /\ row.requester = consultation[c].requester
      BY <1>1, <2>0 DEF Telling
    <3> HIDE DEF row
    <3>3. QED BY <1>1, <2>1, <3>1, <3>2 DEF D!TellRequester, DeskShape, DeskTablesOK
  <2>2. CASE D!TellExpert(r)
    <3> DEFINE row == [told[c] EXCEPT !.expert = IF @ = Nobody THEN deskArg[r].expert ELSE @]
    <3>1. told' = [told EXCEPT ![c] = row]
      BY <1>1, <2>2 DEF D!TellExpert, D!Tell, DeskShape, DeskTablesOK
    <3>2. row.expert \in {told[c].expert, deskArg[r].expert} /\ row.requester = told[c].requester
      BY <1>1, <2>0
    <3> HIDE DEF row
    <3>3. QED BY <1>1, <2>2, <3>1, <3>2 DEF D!TellExpert, DeskShape, DeskTablesOK
  <2>3. QED BY <2>1, <2>2
<1>5. ASSUME NEW d \in Consultations
      PROVE  /\ told'[d].requester \in {Nobody, consultation'[d].requester}
             /\ served'[d] # {} => consultation'[d] \in Cases
             /\ told'[d].expert \in served'[d] \cup {Nobody}
             /\ consultation'[d].expert # Nobody => Able(role', consultation'[d].expert, "consultation.respond")
             /\ /\ served'[d] # {} /\ d \notin deskDied'
                /\ \A q \in DeskRequests : deskPc'[q] = "tellRequester" => deskArg'[q].on # d
                => told'[d].requester = consultation'[d].requester
  <2>1. CASE d = c /\ deskPc[r] = "tellRequester"
    BY <1>1, <1>2, <1>4, <2>1 DEF Telling
  <2>2. CASE d # c \/ deskPc[r] # "tellRequester"
    <3>1. told'[d].requester = told[d].requester /\ told'[d].expert \in {told[d].expert} \cup served[d]
      BY <1>1, <1>4, <2>2 DEF Tellers
    <3>2. (\A q \in DeskRequests : deskPc'[q] = "tellRequester" => deskArg'[q].on # d)
             => (\A q \in DeskRequests : deskPc[q] = "tellRequester" => deskArg[q].on # d)
      BY <1>3, <2>2 DEF DeskMoved
    <3>3. QED BY <1>2, <3>1, <3>2 DEF Telling
  <2>3. QED BY <2>1, <2>2
<1>6. ASSUME NEW q \in DeskRequests, deskPc'[q] \in Tellers
      PROVE  deskArg'[q].expert \in served'[deskArg'[q].on]
  BY <1>1, <1>2, <1>3, <1>6 DEF Telling, DeskMoved, Tellers
<1>7. QED BY <1>5, <1>6 DEF Telling, Able

LEMMA CrashTells ==
    ASSUME DeskShape, DeskShape', Telling, NEW r \in DeskRequests, D!Crash(r)
    PROVE  Telling'
<1>1. DeskMoved(r, "idle", D!NoArg) /\ RolesGrow
  BY GoMoves, NoArgType DEF D!Crash, D!Return, DeskLabels, D!rows, RolesGrow
<1>2. deskDied \subseteq deskDied' /\ (deskPc[r] = "tellRequester" => deskArg[r].on \in deskDied')
  <2> DEFINE lost == CASE deskPc[r] \in {"tellRequester", "tellExpert"} -> {deskArg[r].on}
                       [] deskPc[r] = "insertParticipants"             -> {deskArg[r].meeting}
                       [] OTHER                                    -> {}
  <2>1. deskDied' = deskDied \cup lost
    BY DEF D!Crash
  <2>2. deskPc[r] = "tellRequester" => lost = {deskArg[r].on}
    OBVIOUS
  <2> HIDE DEF lost
  <2>3. QED BY <2>1, <2>2
<1>3. UNCHANGED <<consultation, told, served>>
  BY DEF D!Crash, D!rows
<1>4. QED BY <1>1, <1>2, <1>3, SilentSteps DEF DeskMoved, Tellers

LEMMA TellingStays == DeskShape /\ Telling /\ [D!Next]_D!vars => DeskShape' /\ Telling'
<1> SUFFICES ASSUME DeskShape, Telling, [D!Next]_D!vars PROVE DeskShape' /\ Telling'
  OBVIOUS
<1>0. DeskShape'
  BY NextShape
<1>1. ASSUME NEW r \in DeskRequests, D!ConsultationCalls(r) PROVE Telling'
  <2>1. ASSUME NEW u \in Users, NEW c \in Consultations, D!CreateConsultation(r, u, c) PROVE Telling'
    <3>1. UNCHANGED <<role, told, served, deskDied, deskPc, deskArg>>
      BY <2>1 DEF D!CreateConsultation, D!callVars, D!history
    <3>2. \A d \in Consultations :
              /\ consultation'[d].expert = consultation[d].expert
              /\ consultation[d] \in Cases =>
                    consultation'[d] \in Cases /\ consultation'[d].requester = consultation[d].requester
      BY <2>1, NoRows DEF D!CreateConsultation, DeskShape, DeskTablesOK, D!NoConsultation
    <3>3. RolesGrow
      BY <3>1 DEF RolesGrow
    <3>4. QED BY <1>0, <3>1, <3>2, <3>3, SilentSteps
  <2>2. QED BY <1>0, <1>1, <2>1, AssignTells, ConsultationMoves, SilentMoves
       DEF D!rows, D!history, Tellers
<1>2. ASSUME NEW r \in DeskRequests, D!MeetingCalls(r) PROVE Telling'
  <2>1. ASSUME NEW u \in Users, NEW c \in Consultations \cup {Nobody}, NEW m \in Meetings,
               D!CreateMeeting(r, u, c, m)
        PROVE  Telling'
    <3>1. DeskMoved(r, "insertRoom", MeetingBegun(u, c, m))
      BY <2>1, CreateMeetingShape
    <3>2. UNCHANGED <<D!rows, D!history>> /\ deskPc[r] = "idle"
      BY <2>1 DEF D!CreateMeeting, D!Begin
    <3>3. QED BY <1>0, <3>1, <3>2, SilentMoves DEF Tellers, D!rows, D!history
  <2>2. QED BY <1>0, <1>2, <2>1, MeetingMoves, SilentMoves DEF D!rows, D!history, Tellers
<1>3. ASSUME NEW r \in DeskRequests, D!Continue(r) PROVE Telling'
  <2>1. CASE D!InsertMessage(r) \/ D!InsertParticipants(r) \/ D!Join(r) \/ D!SetMeeting(r)
    <3>1. DeskMoved(r, "idle", D!NoArg) /\ deskPc[r] # "tellRequester"
      BY <2>1, GoMoves, NoArgType
         DEF D!InsertMessage, D!InsertParticipants, D!Join, D!SetMeeting, D!Return, DeskLabels
    <3>2. UNCHANGED <<role, consultation, told, served, deskDied>>
      BY <2>1 DEF D!InsertMessage, D!InsertParticipants, D!Join, D!SetMeeting, D!history
    <3>3. QED BY <1>0, <3>1, <3>2, SilentMoves DEF Tellers
  <2>2. CASE D!InsertRoom(r)
    <3>1. DeskMoved(r, "insertParticipants", deskArg[r]) /\ deskPc[r] = "insertRoom"
      BY <2>2, InsertRoomShape DEF D!InsertRoom
    <3>2. UNCHANGED <<role, consultation, told, served, deskDied>>
      BY <2>2 DEF D!InsertRoom, D!history
    <3>3. QED BY <1>0, <3>1, <3>2, SilentMoves DEF Tellers
  <2>3. CASE D!SetConsultation(r)
    <3>1. DeskMoved(r, "idle", D!NoArg) /\ deskPc[r] # "tellRequester"
      BY <2>3, GoMoves, NoArgType DEF D!SetConsultation, D!Return, DeskLabels
    <3>2. UNCHANGED <<role, told, served, deskDied>>
      BY <2>3 DEF D!SetConsultation, D!history
    <3>3. PICK c \in Consultations, s \in Statuses :
             /\ consultation[c] \in Cases
             /\ consultation' = [consultation EXCEPT ![c] =
                   [requester |-> consultation[c].requester, expert |-> consultation[c].expert, status |-> s]]
      BY <2>3, SetConsultationShape
    <3>4. [requester |-> consultation[c].requester, expert |-> consultation[c].expert, status |-> s] \in Cases
      BY <3>3 DEF Cases
    <3>5. \A d \in Consultations :
              /\ consultation'[d].expert = consultation[d].expert
              /\ consultation[d] \in Cases =>
                    consultation'[d] \in Cases /\ consultation'[d].requester = consultation[d].requester
      BY <3>3, <3>4 DEF DeskShape, DeskTablesOK
    <3>6. QED BY <1>0, <3>1, <3>2, <3>5, SilentMoves DEF Tellers
  <2>4. QED BY <1>0, <1>3, <2>1, <2>2, <2>3, TellTells DEF D!Continue
<1>4. ASSUME NEW u \in Users, NEW g \in Granted, D!GrantRole(u, g) PROVE Telling'
  <2>1. UNCHANGED <<consultation, told, served, deskDied, deskPc, deskArg>>
    BY <1>4 DEF D!GrantRole, D!callVars, D!history
  <2>2. QED BY <1>0, <1>4, <2>1, GrantGrows, SilentSteps
<1>5. CASE UNCHANGED D!vars
  <2>1. UNCHANGED <<role, consultation, told, served, deskDied, deskPc, deskArg>>
    BY <1>5 DEF D!vars, D!rows, D!callVars, D!history
  <2>2. QED BY <1>0, <2>1, SilentSteps DEF RolesGrow
<1>6. QED BY <1>0, <1>1, <1>2, <1>3, <1>4, <1>5, CrashTells DEF D!Next

LEMMA InitTells == D!Init => Telling
  BY DEF D!Init, Telling, Tellers, D!NoConsultation

LEMMA TellingTells == DeskShape /\ Telling => D!AssignmentsAreTold
<1> SUFFICES ASSUME DeskShape, Telling, NEW c \in Consultations
             PROVE  /\ told[c].requester \in {Nobody, consultation[c].requester}
                    /\ /\ c \notin deskDied /\ served[c] # {}
                       /\ \A r \in DeskRequests :
                              deskPc[r] \in {"tellRequester", "tellExpert"} => deskArg[r].on # c
                       => /\ told[c].requester = consultation[c].requester
                          /\ D!GetConsultation(told[c].requester, c)
                          /\ told[c].expert \in served[c] \cup {Nobody}
                    /\ consultation[c].expert # Nobody =>
                          /\ consultation[c].expert \in D!EligibleExperts
                          /\ c \in D!ListConsultations(consultation[c].expert)
  BY DEF D!AssignmentsAreTold
<1>1. ASSUME c \notin deskDied, served[c] # {},
             \A r \in DeskRequests : deskPc[r] \in {"tellRequester", "tellExpert"} => deskArg[r].on # c
      PROVE  /\ told[c].requester = consultation[c].requester
             /\ D!GetConsultation(told[c].requester, c)
  <2>1. told[c].requester = consultation[c].requester /\ consultation[c] # D!NoConsultation
    BY <1>1, NoRows DEF Telling
  <2>2. QED BY <2>1 DEF D!GetConsultation, D!CanAccess
<1>2. ASSUME consultation[c].expert # Nobody
      PROVE  /\ consultation[c].expert \in D!EligibleExperts
             /\ c \in D!ListConsultations(consultation[c].expert)
  <2>1. /\ consultation[c] # D!NoConsultation /\ consultation[c].expert \in Users
        /\ D!Can(consultation[c].expert, "consultation.respond")
    BY <1>2, CaseTypes, CanAble, NoRows DEF Telling
  <2>2. QED BY <2>1 DEF D!EligibleExperts, D!ListConsultations
<1>3. QED BY <1>1, <1>2 DEF Telling

\* assignConsultation: the requester of what was assigned is told, and no one in
\* his place, unless the call dies or goes on; the link he is sent opens; and who
\* is the expert may answer and finds it, whatever roles are granted meanwhile.
THEOREM RequestersAreTold == DeskSpec => []AssignmentsAreTold
<1>1. D!Init => DeskShape /\ Telling
  BY InitShape, InitTells
<1>2. DeskShape /\ Telling => AssignmentsAreTold
  BY TellingTells DEF AssignmentsAreTold
<1>3. QED BY <1>1, <1>2, TellingStays, PTL DEF DeskSpec, D!Spec
=============================================================================
