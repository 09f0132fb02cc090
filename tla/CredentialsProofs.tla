------------------------- MODULE CredentialsProofs -------------------------
(***************************************************************************)
(* Proofs of the safety properties of Credentials, for any number of       *)
(* memberships, holders, types and concurrent calls.                       *)
(*                                                                         *)
(* Shape says that a call's locals are values its next statement can use.  *)
(* Seen ties the history saw to the labels: a call that is about to        *)
(* activate a credential, or to answer that one is active, has its         *)
(* membership among those it saw active, since it read so at a moment      *)
(* between its start and now.                                              *)
(***************************************************************************)
EXTENDS Credentials, PrivacyView, TLAPS

\* The labels without a membership of their own.
Detached == {"idle", "backfill", "backfilled"}

LocalsOK(label, a) ==
    /\ label \notin Detached => a.mem \in Memberships
    /\ label \in {"write", "verifyTime"} => a.to \in CredentialStatus
    /\ label = "ownCredential" => a.to \in CredentialStatus
    /\ label \in {"syncCredential", "verifyMembership", "verifyTime"}
          => a.read \in CredentialStatus

TablesOK ==
    /\ memStatus  \in [Memberships -> {"none", "active", "suspended", "revoked"}]
    /\ memOwner   \in [Memberships -> Users \cup {None}]
    /\ memType    \in [Memberships -> Types \cup {None}]
    /\ ended \cup dropped \subseteq Memberships
    /\ credStatus \in [Memberships -> CredentialStatus \cup {"none"}]

Shape ==
    /\ TypeOK
    /\ \A r \in Requests : LocalsOK(pc[r], arg[r])

\* What a call has come to that only an active membership lets it come to.
Earned(label, a) ==
    \/ label \in {"issueExisting", "issueInsert"}
    \/ label = "syncCredential" /\ a.read = "active"
    \/ label \in {"write", "verifyTime", "ownCredential", "answered"} /\ a.to = "active"

Seen ==
    \A r \in Requests :
        /\ Earned(pc[r], arg[r]) => r \in saw
        /\ arg[r].mem # None /\ memStatus[arg[r].mem] = "active" => r \in saw

Inv == Shape /\ Seen

-----------------------------------------------------------------------------
(* Steps of one call *)

LEMMA InitInv == Init => Inv
  BY DEF Init, R!Init, Inv, Shape, Seen, TypeOK, Args, NoArg, LocalsOK, Labels, Earned, Detached

LEMMA NoneIsNoMembership == None \notin Memberships
  BY NoneIsNothing

LEMMA NoArgIsArg == NoArg \in Args /\ LocalsOK("idle", NoArg) /\ "idle" \in Labels
  BY DEF NoArg, Args, LocalsOK, Labels, Detached

\* A call's locals, where its statement needs them.
LEMMA LocalsTyped ==
    ASSUME Shape, NEW r \in Requests
    PROVE  /\ arg[r] \in Args /\ LocalsOK(pc[r], arg[r])
           /\ arg[r].to \in CredentialStatus \cup {None}
           /\ arg[r].read \in CredentialStatus \cup {None}
           /\ arg[r].todo \subseteq Memberships
           /\ pc[r] \notin Detached => arg[r].mem \in Memberships
  BY DEF Shape, TypeOK, LocalsOK, Args

\* A call that reads its membership as active has seen it so.
LEMMA SeesNow ==
    ASSUME NEW r \in Requests, Observe, NEW m \in Memberships,
           arg'[r].mem = m, memStatus'[m] = "active"
    PROVE  r \in saw'
  BY NoneIsNoMembership DEF Observe, SeesMember

\* What a call has seen of its membership stays seen.
LEMMA StaysSeen ==
    ASSUME NEW r \in saw, r \in Requests, Observe, arg'[r].mem = arg[r].mem
    PROVE  r \in saw'
  BY DEF Observe

\* A step keeps Inv if it moves one call, with locals its next statement can
\* take, to where it may be by what it has seen.
LEMMA MoveInv ==
    ASSUME Inv, NEW r \in Requests, NEW label \in Labels, NEW a \in Args,
           GoTo(r, label, a), Observe, TablesOK', LocalsOK(label, a),
           Earned(label, a) => r \in saw'
    PROVE  Inv'
<1>1. /\ pc' \in [Requests -> Labels] /\ arg' \in [Requests -> Args]
      /\ pc'[r] = label /\ arg'[r] = a
      /\ \A q \in Requests : q # r => pc'[q] = pc[q] /\ arg'[q] = arg[q]
  BY DEF GoTo, Inv, Shape, TypeOK
<1>2. Shape'
  <2>1. TypeOK'
    BY <1>1 DEF TypeOK, TablesOK, Observe
  <2>2. ASSUME NEW q \in Requests PROVE LocalsOK(pc'[q], arg'[q])
    BY <1>1 DEF Inv, Shape
  <2>3. QED BY <2>1, <2>2 DEF Shape, LocalsOK
<1>3. Seen'
  <2> SUFFICES ASSUME NEW q \in Requests
               PROVE  /\ Earned(pc'[q], arg'[q]) => q \in saw'
                      /\ arg'[q].mem # None /\ memStatus'[arg'[q].mem] = "active" => q \in saw'
    BY DEF Seen, Earned
  <2>1. Earned(pc'[q], arg'[q]) => q \in saw'
    <3>1. CASE q = r
      BY <1>1, <3>1
    <3>2. CASE q # r
      BY <1>1, <3>2, StaysSeen DEF Inv, Seen
    <3>3. QED BY <3>1, <3>2
  <2>2. arg'[q].mem # None /\ memStatus'[arg'[q].mem] = "active" => q \in saw'
    BY DEF Observe, SeesMember
  <2>3. QED BY <2>1, <2>2
<1>4. QED BY <1>2, <1>3 DEF Inv

LEMMA ReturnInv ==
    ASSUME Inv, NEW r \in Requests, Return(r), Observe, TablesOK'
    PROVE  Inv'
  BY NoArgIsArg, MoveInv DEF Return, Earned

LEMMA DoneInv ==
    ASSUME Inv, NEW r \in Requests, Done(r), Observe, TablesOK'
    PROVE  Inv'
<1> DEFINE a == [arg[r] EXCEPT !.mem = None, !.to = None, !.read = None]
<1>1. CASE Return(r)
  BY <1>1, ReturnInv
<1>2. CASE GoTo(r, "backfill", a)
  <2>1. arg[r] \in Args
    BY LocalsTyped DEF Inv
  <2>2. a \in Args
    BY <2>1 DEF Args
  <2>3. "backfill" \in Labels /\ LocalsOK("backfill", a) /\ ~Earned("backfill", a)
    BY DEF Labels, LocalsOK, Detached, Earned
  <2>4. QED BY <1>2, <2>2, <2>3, MoveInv
<1>3. QED BY <1>1, <1>2 DEF Done

\* A step to a label that is earned by nothing.
LEMMA PlainMoveInv ==
    ASSUME Inv, NEW r \in Requests, NEW label \in Labels, NEW a \in Args,
           GoTo(r, label, a), Observe, TablesOK', LocalsOK(label, a), ~Earned(label, a)
    PROVE  Inv'
  BY MoveInv

\* A step of a call that has earned its next label already.
LEMMA EarnedMoveInv ==
    ASSUME Inv, NEW r \in Requests, NEW label \in Labels, NEW a \in Args,
           GoTo(r, label, a), Observe, TablesOK', LocalsOK(label, a),
           a.mem = arg[r].mem, Earned(label, a) => Earned(pc[r], arg[r])
    PROVE  Inv'
<1>1. arg'[r] = a
  BY DEF GoTo, Inv, Shape, TypeOK
<1>2. Earned(label, a) => r \in saw'
  BY <1>1, StaysSeen DEF Inv, Seen
<1>3. QED BY <1>2, MoveInv

LEMMA KeptTables ==
    ASSUME Shape, UNCHANGED <<memVars, ended, credStatus>>, UNCHANGED dropped
    PROVE  TablesOK'
  BY DEF Shape, TypeOK, TablesOK, memVars

-----------------------------------------------------------------------------
(* The first step of a call *)

LEMMA MembershipCallsInv ==
    ASSUME Inv, NEW r \in Requests, MembershipCalls(r), UNCHANGED dropped, Observe
    PROVE  Inv'
<1>0. Shape /\ TypeOK
  BY DEF Inv, Shape
<1>1. ASSUME NEW m \in Memberships, NEW label \in {"issueRead", "syncRead"},
             GoTo(r, label, [NoArg EXCEPT !.mem = m]), TablesOK'
      PROVE  Inv'
  <2> DEFINE a == [NoArg EXCEPT !.mem = m]
  <2>1. a \in Args /\ label \in Labels
    BY NoArgIsArg DEF Args, Labels
  <2>2. LocalsOK(label, a) /\ ~Earned(label, a)
    BY DEF NoArg, LocalsOK, Earned
  <2>3. QED BY <1>1, <2>1, <2>2, PlainMoveInv
<1>2. ASSUME NEW m \in Memberships, NEW u \in Users, NEW t \in Types, IssueMembership(r, m, u, t)
      PROVE  Inv'
  <2>1. TablesOK'
    BY <1>0, <1>2 DEF IssueMembership, R!Issue, TypeOK, TablesOK
  <2>2. QED BY <1>1, <1>2, <2>1 DEF IssueMembership
<1>3. ASSUME NEW m \in Memberships, NEW to \in {"suspended", "revoked"},
             DeactivateMembership(r, m, to)
      PROVE  Inv'
  <2>1. TablesOK'
    BY <1>0, <1>3 DEF DeactivateMembership, R!Deactivate, TypeOK, TablesOK
  <2>2. QED BY <1>1, <1>3, <2>1 DEF DeactivateMembership
<1>4. ASSUME NEW m \in Memberships, ReactivateMembership(r, m)
      PROVE  Inv'
  <2>1. TablesOK'
    BY <1>0, <1>4 DEF ReactivateMembership, R!Reactivate, TypeOK, TablesOK
  <2>2. QED BY <1>1, <1>4, <2>1 DEF ReactivateMembership
<1>5. CASE BackfillCredentials(r)
  <2> DEFINE active == {m \in Memberships : memStatus[m] = "active"}
             a == [NoArg EXCEPT !.todo = active, !.scanned = active]
  <2>1. a \in Args /\ "backfill" \in Labels
    BY NoArgIsArg DEF Args, Labels
  <2>2. LocalsOK("backfill", a) /\ ~Earned("backfill", a)
    BY DEF LocalsOK, Earned, Detached
  <2>3. QED BY <1>0, <1>5, <2>1, <2>2, KeptTables, PlainMoveInv DEF BackfillCredentials
<1>6. QED BY <1>2, <1>3, <1>4, <1>5 DEF MembershipCalls

LEMMA ReadCredentialInv ==
    ASSUME Inv, NEW r \in Requests, NEW m \in Memberships, ReadCredential(r, m),
           UNCHANGED dropped, Observe
    PROVE  Inv'
<1> DEFINE a == [NoArg EXCEPT !.mem = m, !.read = credStatus[m]]
<1>0. Shape /\ TypeOK
  BY DEF Inv, Shape
<1>1. credStatus[m] \in CredentialStatus
  BY <1>0 DEF ReadCredential, HasCredential, TypeOK
<1>2. a \in Args /\ "verifyMembership" \in Labels
  BY <1>1, NoArgIsArg DEF Args, Labels
<1>3. LocalsOK("verifyMembership", a) /\ ~Earned("verifyMembership", a)
  BY <1>1 DEF NoArg, LocalsOK, Earned
<1>4. QED BY <1>0, <1>2, <1>3, KeptTables, PlainMoveInv DEF ReadCredential

LEMMA AdministratorCallsInv ==
    ASSUME Inv, NEW r \in Requests, AdministratorCalls(r), UNCHANGED dropped, Observe
    PROVE  Inv'
<1>0. Shape /\ TypeOK
  BY DEF Inv, Shape
<1> PICK m \in Memberships :
        \/ AdminIssueCredential(r, m)
        \/ AdminSuspendCredential(r, m)
        \/ AdminRevokeCredential(r, m)
        \/ GetCredentialForAdmin(r, m)
  BY DEF AdministratorCalls
<1>1. CASE AdminIssueCredential(r, m)
  <2> DEFINE a == [NoArg EXCEPT !.mem = m]
  <2>1. a \in Args /\ "issueRead" \in Labels
    BY NoArgIsArg DEF Args, Labels
  <2>2. LocalsOK("issueRead", a) /\ ~Earned("issueRead", a)
    BY DEF NoArg, LocalsOK, Earned
  <2>3. QED BY <1>0, <1>1, <2>1, <2>2, KeptTables, PlainMoveInv DEF AdminIssueCredential
<1>2. ASSUME NEW to \in {"suspended", "revoked"}, ChangeCredentialStatus(r, m, to)
      PROVE  Inv'
  <2> DEFINE a == [NoArg EXCEPT !.mem = m, !.to = to]
  <2>1. a \in Args /\ "write" \in Labels
    BY NoArgIsArg DEF Args, Labels, CredentialStatus
  <2>2. LocalsOK("write", a) /\ ~Earned("write", a)
    BY DEF NoArg, LocalsOK, Earned, CredentialStatus
  <2>3. QED BY <1>0, <1>2, <2>1, <2>2, KeptTables, PlainMoveInv DEF ChangeCredentialStatus
<1>3. CASE GetCredentialForAdmin(r, m)
  BY <1>3, ReadCredentialInv DEF GetCredentialForAdmin
<1>4. QED
  BY <1>1, <1>2, <1>3 DEF AdminSuspendCredential, AdminRevokeCredential

LEMMA PagesInv ==
    ASSUME Inv, NEW r \in Requests, Pages(r), UNCHANGED dropped, Observe
    PROVE  Inv'
<1>0. Shape /\ TypeOK
  BY DEF Inv, Shape
<1> PICK m \in Memberships : VerifyPublicCode(r, m) \/ ListOwnCredentials(r, m)
  BY DEF Pages
<1>1. CASE VerifyPublicCode(r, m)
  BY <1>1, ReadCredentialInv DEF VerifyPublicCode
<1>2. CASE ListOwnCredentials(r, m)
  <2> DEFINE to == MapMembershipStatus(memStatus[m])
             a == [NoArg EXCEPT !.mem = m, !.to = to]
  <2>1. to \in CredentialStatus /\ (to = "active" => memStatus[m] = "active")
    BY DEF MapMembershipStatus, CredentialStatus
  <2>2. a \in Args /\ "ownCredential" \in Labels
    BY <2>1, NoArgIsArg DEF Args, Labels
  <2>3. a.mem = m /\ a.to = to /\ LocalsOK("ownCredential", a)
    BY <2>1 DEF NoArg, LocalsOK
  <2>4. arg'[r] = a /\ memStatus' = memStatus
    BY <1>0, <1>2 DEF ListOwnCredentials, GoTo, TypeOK, memVars
  <2>5. Earned("ownCredential", a) => r \in saw'
    BY <2>1, <2>3, <2>4, SeesNow DEF Earned
  <2>6. QED BY <1>0, <1>2, <2>2, <2>3, <2>5, KeptTables, MoveInv DEF ListOwnCredentials
<1>3. QED BY <1>1, <1>2

-----------------------------------------------------------------------------
(* The further steps of a call *)

LEMMA IssueInv ==
    ASSUME Inv, NEW r \in Requests, IssueRead(r) \/ IssueExisting(r) \/ IssueInsert(r),
           UNCHANGED dropped, Observe
    PROVE  Inv'
<1>0. Shape /\ TypeOK /\ arg[r] \in Args /\ LocalsOK(pc[r], arg[r])
  BY LocalsTyped DEF Inv, Shape
<1>1. CASE IssueRead(r)
  <2>1. arg[r].mem \in Memberships /\ TablesOK'
    BY <1>0, <1>1, KeptTables DEF IssueRead, LocalsOK, Detached
  <2>2. CASE Return(r)
    BY <2>1, <2>2, ReturnInv
  <2>3. CASE memStatus[arg[r].mem] = "active" /\ GoTo(r, "issueExisting", arg[r])
    <3>1. arg'[r] = arg[r] /\ memStatus' = memStatus
      BY <1>0, <1>1, <2>3 DEF IssueRead, GoTo, TypeOK, memVars
    <3>2. r \in saw'
      BY <2>1, <2>3, <3>1, SeesNow
    <3>3. LocalsOK("issueExisting", arg[r]) /\ "issueExisting" \in Labels
      BY <2>1 DEF LocalsOK, Labels
    <3>4. QED BY <1>0, <2>1, <2>3, <3>2, <3>3, MoveInv
  <2>4. QED BY <1>1, <2>2, <2>3 DEF IssueRead, Throw
<1>2. CASE IssueExisting(r)
  <2>1. arg[r].mem \in Memberships /\ TablesOK'
    BY <1>0, <1>2, KeptTables DEF IssueExisting, LocalsOK, Detached
  <2>2. CASE Done(r)
    BY <2>1, <2>2, DoneInv
  <2>3. CASE GoTo(r, "issueInsert", arg[r])
    <3>1. LocalsOK("issueInsert", arg[r]) /\ "issueInsert" \in Labels /\ Earned(pc[r], arg[r])
      BY <1>2, <2>1 DEF IssueExisting, LocalsOK, Labels, Earned
    <3>2. QED BY <1>0, <2>1, <2>3, <3>1, EarnedMoveInv
  <2>4. QED BY <1>2, <2>2, <2>3 DEF IssueExisting
<1>3. CASE IssueInsert(r)
  <2>1. TablesOK' /\ Done(r)
    BY <1>0, <1>3 DEF IssueInsert, TypeOK, TablesOK, memVars, CredentialStatus
  <2>2. QED BY <2>1, DoneInv
<1>4. QED BY <1>1, <1>2, <1>3

LEMMA SyncInv ==
    ASSUME Inv, NEW r \in Requests, SyncRead(r) \/ SyncCredential(r) \/ Write(r),
           UNCHANGED dropped, Observe
    PROVE  Inv'
<1>0. Shape /\ TypeOK /\ arg[r] \in Args /\ LocalsOK(pc[r], arg[r])
  BY LocalsTyped DEF Inv, Shape
<1>1. CASE SyncRead(r)
  <2> DEFINE m == arg[r].mem
             read == MapMembershipStatus(memStatus[m])
             a == [arg[r] EXCEPT !.read = read]
  <2>1. m \in Memberships /\ TablesOK'
    BY <1>0, <1>1, KeptTables DEF SyncRead, LocalsOK, Detached
  <2>2. read \in CredentialStatus /\ (read = "active" => memStatus[m] = "active")
    BY DEF MapMembershipStatus, CredentialStatus
  <2>3. a \in Args /\ a.mem = m /\ a.read = read
    BY <1>0, <2>2 DEF Args
  <2>4. arg'[r] = a /\ memStatus' = memStatus
    BY <1>0, <1>1 DEF SyncRead, GoTo, TypeOK, memVars
  <2>5. Earned("syncCredential", a) => r \in saw'
    BY <2>1, <2>2, <2>3, <2>4, SeesNow DEF Earned
  <2>6. LocalsOK("syncCredential", a) /\ "syncCredential" \in Labels
    BY <2>1, <2>2, <2>3 DEF LocalsOK, Labels
  <2>7. QED BY <1>1, <2>1, <2>3, <2>5, <2>6, MoveInv DEF SyncRead
<1>2. CASE SyncCredential(r)
  <2>1. arg[r].mem \in Memberships /\ arg[r].read \in CredentialStatus /\ TablesOK'
    BY <1>0, <1>2, KeptTables DEF SyncCredential, LocalsOK, Detached
  <2>2. CASE Return(r)
    BY <2>1, <2>2, ReturnInv
  <2>3. CASE GoTo(r, "issueRead", arg[r])
    <3>1. LocalsOK("issueRead", arg[r]) /\ "issueRead" \in Labels /\ ~Earned("issueRead", arg[r])
      BY <2>1 DEF LocalsOK, Labels, Earned
    <3>2. QED BY <1>0, <2>1, <2>3, <3>1, PlainMoveInv
  <2>4. CASE GoTo(r, "write", [arg[r] EXCEPT !.to = arg[r].read])
    <3> DEFINE a == [arg[r] EXCEPT !.to = arg[r].read]
    <3>1. a \in Args /\ a.mem = arg[r].mem /\ a.to = arg[r].read
      BY <1>0, <2>1 DEF Args
    <3>2. LocalsOK("write", a) /\ "write" \in Labels
      BY <2>1, <3>1 DEF LocalsOK, Labels
    <3>3. Earned("write", a) => Earned(pc[r], arg[r])
      BY <1>2, <3>1 DEF Earned, SyncCredential
    <3>4. QED BY <2>1, <2>4, <3>1, <3>2, <3>3, EarnedMoveInv
  <2>5. QED BY <1>2, <2>2, <2>3, <2>4 DEF SyncCredential
<1>3. CASE Write(r)
  <2>1. arg[r].to \in CredentialStatus /\ Done(r)
    BY <1>0, <1>3 DEF Write, LocalsOK
  <2>2. TablesOK'
    BY <1>0, <1>3, <2>1 DEF Write, TypeOK, TablesOK, memVars
  <2>3. QED BY <2>1, <2>2, DoneInv
<1>4. QED BY <1>1, <1>2, <1>3

LEMMA BackfillInv ==
    ASSUME Inv, NEW r \in Requests, BackfillNext(r) \/ BackfillExisting(r),
           UNCHANGED dropped, Observe
    PROVE  Inv'
<1>0. Shape /\ TypeOK /\ arg[r] \in Args /\ LocalsOK(pc[r], arg[r])
  BY LocalsTyped DEF Inv, Shape
<1>1. CASE BackfillNext(r)
  <2>1. TablesOK'
    BY <1>0, <1>1, KeptTables DEF BackfillNext
  <2>2. ASSUME NEW m \in arg[r].todo,
               GoTo(r, "backfillExisting", [arg[r] EXCEPT !.mem = m, !.todo = @ \ {m}])
        PROVE  Inv'
    <3> DEFINE a == [arg[r] EXCEPT !.mem = m, !.todo = @ \ {m}]
    <3>1. m \in Memberships
      BY <1>0, LocalsTyped
    <3>2. a \in Args /\ a.mem = m
      BY <1>0, <3>1 DEF Args
    <3>3. LocalsOK("backfillExisting", a) /\ "backfillExisting" \in Labels
          /\ ~Earned("backfillExisting", a)
      BY <3>1, <3>2 DEF LocalsOK, Labels, Earned
    <3>4. QED BY <2>1, <2>2, <3>2, <3>3, PlainMoveInv
  <2>3. CASE GoTo(r, "backfilled", arg[r])
    <3>1. LocalsOK("backfilled", arg[r]) /\ "backfilled" \in Labels
          /\ ~Earned("backfilled", arg[r])
      BY DEF LocalsOK, Labels, Earned, Detached
    <3>2. QED BY <1>0, <2>1, <2>3, <3>1, PlainMoveInv
  <2>4. QED BY <1>1, <2>2, <2>3 DEF BackfillNext
<1>2. CASE BackfillExisting(r)
  <2>1. arg[r].mem \in Memberships /\ TablesOK'
    BY <1>0, <1>2, KeptTables DEF BackfillExisting, LocalsOK, Detached
  <2>2. CASE Done(r)
    BY <2>1, <2>2, DoneInv
  <2>3. CASE GoTo(r, "issueRead", arg[r])
    <3>1. LocalsOK("issueRead", arg[r]) /\ "issueRead" \in Labels /\ ~Earned("issueRead", arg[r])
      BY <2>1 DEF LocalsOK, Labels, Earned
    <3>2. QED BY <1>0, <2>1, <2>3, <3>1, PlainMoveInv
  <2>4. QED BY <1>2, <2>2, <2>3 DEF BackfillExisting
<1>3. QED BY <1>1, <1>2

LEMMA VerifyInv ==
    ASSUME Inv, NEW r \in Requests,
           VerifyMembership(r) \/ OwnCredential(r) \/ VerifyTime(r) \/ Finish(r),
           UNCHANGED dropped, Observe
    PROVE  Inv'
<1>0. Shape /\ TypeOK /\ arg[r] \in Args /\ LocalsOK(pc[r], arg[r])
  BY LocalsTyped DEF Inv, Shape
<1>1. CASE VerifyMembership(r)
  <2> DEFINE m == arg[r].mem
             to == MapMembershipStatus(memStatus[m])
             a == [arg[r] EXCEPT !.to = to]
  <2>1. m \in Memberships /\ arg[r].read \in CredentialStatus /\ TablesOK'
    BY <1>0, <1>1, KeptTables DEF VerifyMembership, LocalsOK, Detached
  <2>2. to \in CredentialStatus /\ (to = "active" => memStatus[m] = "active")
    BY DEF MapMembershipStatus, CredentialStatus
  <2>3. a \in Args /\ a.mem = m /\ a.to = to /\ a.read = arg[r].read
    BY <1>0, <2>2 DEF Args
  <2>4. arg'[r] = a /\ memStatus' = memStatus
    BY <1>0, <1>1 DEF VerifyMembership, GoTo, TypeOK, memVars
  <2>5. Earned("verifyTime", a) => r \in saw'
    BY <2>1, <2>2, <2>3, <2>4, SeesNow DEF Earned
  <2>6. LocalsOK("verifyTime", a) /\ "verifyTime" \in Labels
    BY <2>1, <2>2, <2>3 DEF LocalsOK, Labels
  <2>7. QED BY <1>1, <2>1, <2>3, <2>5, <2>6, MoveInv DEF VerifyMembership
<1>2. CASE OwnCredential(r)
  <2>1. arg[r].mem \in Memberships /\ arg[r].to \in CredentialStatus /\ TablesOK'
    BY <1>0, <1>2, KeptTables DEF OwnCredential, LocalsOK, Detached
  <2>2. CASE Return(r)
    BY <2>1, <2>2, ReturnInv
  <2>3. CASE /\ HasCredential(arg[r].mem)
             /\ GoTo(r, "verifyTime", [arg[r] EXCEPT !.read = credStatus[arg[r].mem]])
    <3> DEFINE a == [arg[r] EXCEPT !.read = credStatus[arg[r].mem]]
    <3>1. credStatus[arg[r].mem] \in CredentialStatus
      BY <1>0, <2>1, <2>3 DEF HasCredential, TypeOK
    <3>2. a \in Args /\ a.mem = arg[r].mem /\ a.to = arg[r].to /\ a.read = credStatus[arg[r].mem]
      BY <1>0, <3>1 DEF Args
    <3>3. LocalsOK("verifyTime", a) /\ "verifyTime" \in Labels
      BY <2>1, <3>1, <3>2 DEF LocalsOK, Labels
    <3>4. Earned("verifyTime", a) => Earned(pc[r], arg[r])
      BY <1>2, <3>2 DEF Earned, OwnCredential
    <3>5. QED BY <2>1, <2>3, <3>2, <3>3, <3>4, EarnedMoveInv
  <2>4. QED BY <1>2, <2>2, <2>3 DEF OwnCredential
<1>3. CASE VerifyTime(r)
  <2> DEFINE to == EffectiveStatus(arg[r].read, arg[r].to, arg[r].mem \in ended)
             a == [arg[r] EXCEPT !.to = to]
  <2>1. /\ arg[r].mem \in Memberships /\ TablesOK'
        /\ arg[r].to \in CredentialStatus /\ arg[r].read \in CredentialStatus
    BY <1>0, <1>3, KeptTables DEF VerifyTime, LocalsOK, Detached
  <2>2. to \in CredentialStatus /\ (to = "active" => arg[r].to = "active")
    BY <2>1 DEF EffectiveStatus, MapMembershipStatus, CredentialStatus
  <2>3. a \in Args /\ a.mem = arg[r].mem /\ a.to = to
    BY <1>0, <2>2 DEF Args
  <2>4. Earned("answered", a) => Earned(pc[r], arg[r])
    BY <1>3, <2>2, <2>3 DEF Earned, VerifyTime
  <2>5. LocalsOK("answered", a) /\ "answered" \in Labels
    BY <2>1, <2>3 DEF LocalsOK, Labels
  <2>6. QED BY <1>3, <2>1, <2>3, <2>4, <2>5, EarnedMoveInv DEF VerifyTime
<1>4. CASE Finish(r)
  BY <1>0, <1>4, KeptTables, ReturnInv DEF Finish
<1>5. QED BY <1>1, <1>2, <1>3, <1>4

-----------------------------------------------------------------------------
(* Every step *)

LEMMA CrashInv ==
    ASSUME Inv, NEW r \in Requests, Crash(r),
           dropped' = IF pc[r] \in Owing THEN dropped \cup {arg[r].mem} ELSE dropped,
           Observe
    PROVE  Inv'
<1>1. pc[r] \in Owing => arg[r].mem \in Memberships
  BY LocalsTyped DEF Inv, Owing, Detached
<1>2. TablesOK'
  BY <1>1 DEF Inv, Shape, TypeOK, TablesOK, Crash, memVars
<1>3. QED BY <1>2, ReturnInv DEF Crash

\* The clock moves no call.
LEMMA ExpireInv ==
    ASSUME Inv, NEW m \in Memberships, Expire(m), UNCHANGED dropped, Observe
    PROVE  Inv'
<1>1. UNCHANGED <<memStatus, memOwner, memType, credStatus, pc, arg, dropped>>
  BY DEF Expire, memVars, callVars
<1>2. ended' = ended \cup {m} /\ saw' \subseteq Requests
  BY DEF Expire, Observe
<1>3. Shape'
  BY <1>1, <1>2 DEF Inv, Shape, TypeOK, LocalsOK
<1>4. Seen'
  <2> SUFFICES ASSUME NEW r \in Requests
               PROVE  /\ Earned(pc[r], arg[r]) => r \in saw'
                      /\ arg[r].mem # None /\ memStatus[arg[r].mem] = "active" => r \in saw'
    BY <1>1 DEF Seen, Earned
  <2>1. QED BY <1>1 DEF Inv, Seen, Observe, SeesMember
<1>5. QED BY <1>3, <1>4 DEF Inv

LEMMA NextInv == Inv /\ [Next]_vars => Inv'
<1> SUFFICES ASSUME Inv, [Next]_vars PROVE Inv'
  OBVIOUS
<1>1. ASSUME NEW r \in Requests, Begin(r), UNCHANGED dropped, Observe PROVE Inv'
  BY <1>1, MembershipCallsInv, AdministratorCallsInv, PagesInv DEF Begin
<1>2. ASSUME NEW r \in Requests, Continue(r), UNCHANGED dropped, Observe PROVE Inv'
  BY <1>2, IssueInv, SyncInv, BackfillInv, VerifyInv DEF Continue
<1>3. CASE UNCHANGED vars
  <2>1. UNCHANGED <<memStatus, memOwner, memType, ended, credStatus, pc, arg, saw, dropped>>
    BY <1>3 DEF vars, memVars, callVars
  <2>2. Shape' /\ Seen'
    BY <2>1 DEF Inv, Shape, TypeOK, LocalsOK, Seen, Earned
  <2>3. QED BY <2>2 DEF Inv
<1>4. QED BY <1>1, <1>2, <1>3, CrashInv, ExpireInv DEF Next

LEMMA Invariant == Spec => []Inv
  BY InitInv, NextInv, PTL DEF Spec

\* Every variable keeps its type.
THEOREM TypeCorrect == Spec => []TypeOK
<1>1. Inv => TypeOK
  BY DEF Inv, Shape
<1>2. QED BY <1>1, Invariant, PTL

\* Verification, the holder's list and the administrator's page answer active
\* only of a membership that was active at some moment of the call.
THEOREM VerifiedActive == Spec => []VerifiedActiveWasMember
<1>1. Inv => VerifiedActiveWasMember
  BY DEF Inv, Seen, Earned, VerifiedActiveWasMember
<1>2. QED BY <1>1, Invariant, PTL

-----------------------------------------------------------------------------
(* What makes a credential active *)

\* Only an insert of issuance and an update write credentials, and the call
\* that writes one active has seen its membership active.
LEMMA WriterSaw ==
    ASSUME Inv, Next, NEW m \in Memberships,
           credStatus[m] # "active", credStatus'[m] = "active"
    PROVE  \E r \in saw : arg[r].mem = m
<1>0. Shape /\ TypeOK /\ Seen
  BY DEF Inv, Shape
<1>1. PICK r \in Requests : IssueInsert(r) \/ Write(r)
  BY DEF Next, Begin, MembershipCalls, AdministratorCalls, Pages, Continue, Crash, Expire,
         IssueMembership, DeactivateMembership, ReactivateMembership, BackfillCredentials,
         AdminIssueCredential, AdminSuspendCredential, AdminRevokeCredential,
         ChangeCredentialStatus, GetCredentialForAdmin, VerifyPublicCode, ReadCredential,
         ListOwnCredentials, IssueRead, IssueExisting, SyncRead, SyncCredential,
         BackfillNext, BackfillExisting, VerifyMembership, OwnCredential, VerifyTime, Finish
<1>2. arg[r].mem = m /\ Earned(pc[r], arg[r])
  <2>1. CASE IssueInsert(r)
    BY <1>0, <2>1 DEF IssueInsert, Earned, TypeOK
  <2>2. CASE Write(r)
    BY <1>0, <2>2 DEF Write, Earned, TypeOK
  <2>3. QED BY <1>1, <2>1, <2>2
<1>3. QED BY <1>0, <1>2 DEF Seen

\* No credential becomes active unless the call that writes it has seen its
\* membership active.
THEOREM ActivationEarned == Spec => ActivationWasEarned
<1>1. Inv /\ [Next]_vars =>
        [\A m \in Memberships :
            credStatus[m] # "active" /\ credStatus'[m] = "active" =>
                \E r \in saw : arg[r].mem = m]_vars
  BY WriterSaw
<1>2. QED BY <1>1, Invariant, PTL DEF Spec, ActivationWasEarned

-----------------------------------------------------------------------------
(*****************************************************************************)
(* What members show in public: the theorems of Privacy, for any number of   *)
(* members, sections, handles and concurrent calls. With the credential      *)
(* pages above they are what strangers can read of the Clinic.               *)
(*                                                                           *)
(* PrivacyView gives its users, requests and locals names of their own; the  *)
(* theorems here are about PrivacySpec alone.                                *)
(*                                                                           *)
(* Holding is what a page or a list needs: all it has put together was       *)
(* allowed, and was there, at some moment since its call began (the          *)
(* histories allowed and had), and so is what it is still to read. Sticking  *)
(* is what an update that overlaps no other of its row needs: the row still  *)
(* is as it was read, with what it has done so far, though a page may make   *)
(* the row meanwhile.                                                        *)
(*****************************************************************************)

Things   == Sections \cup P!Fields \cup Shown
Patches  == SUBSET ((Sections \cup P!Fields \cup P!Channels) \X BOOLEAN)
RowTypes == [exists : BOOLEAN, shown : SUBSET Things, handle : Handles \cup {Nobody}]
Items    == Things \cup Members \cup P!Channels
PageArgs ==
    [call : {"none", "settings", "profile", "preference", "page", "code", "list", "notify"},
     user : Members \cup {Nobody}, patch : Patches, handle : Handles \cup {Nobody, "keep"},
     read : RowTypes, page : SUBSET Items, todo : SUBSET Items, want : RowTypes,
     alone : BOOLEAN]

\* Which call is at which label.
Places ==
    {<<"idle", "none">>, <<"listed", "list">>, <<"update", "settings">>, <<"section", "page">>,
     <<"channel", "notify">>, <<"write", "profile">>, <<"contact", "profile">>,
     <<"insertPreference", "preference">>, <<"writePreference", "preference">>}
    \cup ({"find", "insert", "again", "taken"} \X {"settings", "page"})
    \cup ({"shown"} \X {"page", "notify", "code"})
    \cup ({"done"} \X {"settings", "profile", "preference"})

PageLocalsOK(label, a) ==
    /\ <<label, a.call>> \in Places
    /\ a.call \notin {"none", "list"} => a.user \in Members
    /\ a.call = "profile" => a.patch \subseteq P!Fields \X BOOLEAN /\ <<"legalName", FALSE>> \notin a.patch
    /\ label = "contact" => <<"legalName", TRUE>> \in a.patch
    /\ a.call = "preference" => \E c \in P!Channels, on \in BOOLEAN : a.patch = {<<c, on>>}

PageTablesOK ==
    /\ settings \in [Members -> RowTypes]
    /\ memberProfile \in [Members -> SUBSET Things]
    /\ preference \in [Members -> [P!Channels -> {"none", "on", "off"}]]
    /\ content \in [Members -> SUBSET Sections]

PageShape ==
    /\ PageTablesOK
    /\ pagePc  \in [PageRequests -> P!Labels]
    /\ pageArg \in [PageRequests -> PageArgs]
    /\ \A r \in PageRequests :
          /\ PageLocalsOK(pagePc[r], pageArg[r])
          /\ pagePc[r] = "again" => settings[pageArg[r].user].exists

\* What a page shows, and what it is still to read, was allowed.
Holds(label, a, allow, have) ==
    /\ a.call = "none" => a.page = {}
    /\ a.page \subseteq allow \cap have
    /\ label = "section" => a.todo \subseteq allow
    /\ label = "taken" /\ a.call = "page" => a.read.shown \subseteq allow

Holding == \A r \in PageRequests : Holds(pagePc[r], pageArg[r], allowed[r], had[r])

\* The row as it is, or as an update or a page would make it.
Base(rowOf, u) == IF rowOf[u].exists THEN rowOf[u] ELSE P!NewSettings

SettingsStick(rowOf, label, a) ==
    /\ label # "done" => a.want = P!PatchedSettings(Base(rowOf, a.user), a.patch, a.handle)
    /\ label \in {"taken", "update"} => a.read = rowOf[a.user] /\ rowOf[a.user].exists
    /\ label = "done" => rowOf[a.user] = a.want /\ rowOf[a.user].exists

ProfileSticks(flags, label, a) ==
    /\ label = "write" => a.read.shown = flags[a.user] /\ a.want.shown = P!Patched(flags[a.user], a.patch)
    /\ label = "contact" => flags[a.user] \cup {"legalName"} = a.want.shown
    /\ label = "done" => flags[a.user] = a.want.shown

PreferenceSticks(switches, label, a) ==
    label = "done" => \A x \in a.patch : switches[a.user][x[1]] = P!Switched(a.patch, x[1])

Sticks(rowOf, flags, switches, label, a) ==
    /\ a.call = "settings"   => SettingsStick(rowOf, label, a)
    /\ a.call = "profile"    => ProfileSticks(flags, label, a)
    /\ a.call = "preference" => PreferenceSticks(switches, label, a)

Apart(b, a) == b.call # a.call \/ b.user # a.user

Updates == {"settings", "profile", "preference"}

\* An update that is alone has no rival, and is on its way to what was asked for.
Sticking ==
    \A r \in PageRequests :
        pageArg[r].alone /\ pageArg[r].call \in Updates =>
            /\ \A q \in PageRequests \ {r} : Apart(pageArg[q], pageArg[r])
            /\ Sticks(settings, memberProfile, preference, pagePc[r], pageArg[r])

-----------------------------------------------------------------------------
(* One request moves *)

\* Another update may have begun: then this one is not alone.
Same(b, a) ==
    /\ b.call = a.call /\ b.user = a.user /\ b.patch = a.patch /\ b.handle = a.handle
    /\ b.read = a.read /\ b.page = a.page /\ b.todo = a.todo /\ b.want = a.want
    /\ b.alone => a.alone

Moved(r, label, a) ==
    /\ pagePc'  \in [PageRequests -> P!Labels]
    /\ pageArg' \in [PageRequests -> PageArgs]
    /\ pagePc'[r] = label /\ pageArg'[r] = a
    /\ \A q \in PageRequests \ {r} : pagePc'[q] = pagePc[q] /\ Same(pageArg'[q], pageArg[q])

RowsStay == \A u \in Members : settings[u].exists => settings'[u].exists

LEMMA NewSettingsType == P!NewSettings \in RowTypes /\ P!NoSettings \in RowTypes
  BY DEF P!NewSettings, P!NoSettings, RowTypes, Things

LEMMA NoArgType == P!NoArg \in PageArgs /\ P!NoArg.call = "none" /\ P!NoArg.page = {}
  BY NewSettingsType DEF P!NoArg, PageArgs, Patches

LEMMA IdleOK == PageLocalsOK("idle", P!NoArg)
  BY DEF PageLocalsOK, P!NoArg, Places

LEMMA PageLocalsTyped ==
    ASSUME PageShape, NEW r \in PageRequests
    PROVE  /\ pageArg[r] \in PageArgs /\ pagePc[r] \in P!Labels /\ PageLocalsOK(pagePc[r], pageArg[r])
           /\ pageArg[r].read \in RowTypes /\ pageArg[r].want \in RowTypes
           /\ pageArg[r].call \notin {"none", "list"} => pageArg[r].user \in Members
           /\ PageTablesOK
  BY DEF PageShape, PageLocalsOK, PageArgs

LEMMA GoMoves ==
    ASSUME PageShape, NEW r \in PageRequests, NEW label \in P!Labels, NEW a \in PageArgs, P!GoTo(r, label, a)
    PROVE  Moved(r, label, a)
<1>1. ASSUME NEW b \in PageArgs PROVE Same(b, b)
  BY DEF Same
<1>2. QED BY <1>1 DEF Moved, P!GoTo, PageShape

LEMMA ReturnMoves ==
    ASSUME PageShape, NEW r \in PageRequests, P!Return(r)
    PROVE  Moved(r, "idle", P!NoArg)
  BY GoMoves, NoArgType DEF P!Return, P!Labels

LEMMA StepMoves ==
    ASSUME PageShape, NEW r \in PageRequests, NEW label \in P!Labels, P!Step(r, label)
    PROVE  Moved(r, label, pageArg[r])
  BY GoMoves, PageLocalsTyped DEF P!Step

LEMMA BeginMoves ==
    ASSUME PageShape, NEW r \in PageRequests, NEW label \in P!Labels, NEW a \in PageArgs,
           P!BeginUpdate(r, label, a)
    PROVE  \E alone \in BOOLEAN :
              /\ Moved(r, label, [a EXCEPT !.alone = alone])
              /\ alone => \A q \in PageRequests : pageArg[q].call # a.call \/ pageArg[q].user # a.user
              /\ \A q \in PageRequests \ {r} :
                    pageArg'[q].alone => pageArg[q].call # a.call \/ pageArg[q].user # a.user
<1> DEFINE others == {q \in PageRequests : pageArg[q].call = a.call /\ pageArg[q].user = a.user}
           b == [a EXCEPT !.alone = others = {}]
<1>1. /\ pagePc' = [pagePc EXCEPT ![r] = label]
      /\ pageArg' = [q \in PageRequests |->
                    IF q = r THEN b
                    ELSE IF q \in others THEN [pageArg[q] EXCEPT !.alone = FALSE] ELSE pageArg[q]]
  BY DEF P!BeginUpdate
<1>2. PICK alone \in BOOLEAN : alone = (others = {})
  OBVIOUS
<1>3. b = [a EXCEPT !.alone = alone] /\ b \in PageArgs
  BY <1>2 DEF PageArgs
<1>4. ASSUME NEW q \in PageRequests
      PROVE  /\ [pageArg[q] EXCEPT !.alone = FALSE] \in PageArgs
             /\ Same([pageArg[q] EXCEPT !.alone = FALSE], pageArg[q]) /\ Same(pageArg[q], pageArg[q])
             /\ [pageArg[q] EXCEPT !.alone = FALSE].alone = FALSE
  <2>1. pageArg[q] \in PageArgs
    BY PageLocalsTyped
  <2>2. QED BY <2>1 DEF PageArgs, Same
<1>5. pageArg' \in [PageRequests -> PageArgs] /\ pagePc' \in [PageRequests -> P!Labels]
  BY <1>1, <1>3, <1>4 DEF PageShape
<1>6. pageArg'[r] = b /\ pagePc'[r] = label
  BY <1>1 DEF PageShape
<1>7. ASSUME NEW q \in PageRequests \ {r}
      PROVE  /\ pagePc'[q] = pagePc[q] /\ Same(pageArg'[q], pageArg[q])
             /\ q \in others => pageArg'[q].alone = FALSE
  BY <1>1, <1>4, <1>7 DEF PageShape
<1>8. Moved(r, label, [a EXCEPT !.alone = alone])
  BY <1>3, <1>5, <1>6, <1>7 DEF Moved
<1>9. QED BY <1>2, <1>7, <1>8

\* Shape is kept by a step that moves one request to a place its locals are for.
LEMMA MoveShape ==
    ASSUME PageShape, NEW r \in PageRequests, NEW label, NEW a \in PageArgs, Moved(r, label, a),
           PageTablesOK', RowsStay, PageLocalsOK(label, a),
           label = "again" => settings'[a.user].exists
    PROVE  PageShape'
<1>1. ASSUME NEW q \in PageRequests
      PROVE  /\ PageLocalsOK(pagePc'[q], pageArg'[q])
             /\ (pagePc'[q] = "again" => settings'[pageArg'[q].user].exists)
  <2>1. CASE q = r
    BY <2>1 DEF Moved
  <2>2. CASE q # r
    <3>1. pagePc'[q] = pagePc[q] /\ Same(pageArg'[q], pageArg[q])
      BY <2>2 DEF Moved
    <3>2. PageLocalsOK(pagePc'[q], pageArg'[q])
      BY <3>1, PageLocalsTyped DEF Same, PageLocalsOK
    <3>3. pagePc[q] = "again" => pageArg[q].user \in Members /\ settings[pageArg[q].user].exists
      BY PageLocalsTyped DEF PageShape, PageLocalsOK, Places
    <3>4. QED BY <3>1, <3>2, <3>3 DEF Same, RowsStay
  <2>3. QED BY <2>1, <2>2
<1>2. QED BY <1>1 DEF PageShape, Moved, PageLocalsOK

LEMMA PageKeptTables ==
    ASSUME PageShape, UNCHANGED P!rows
    PROVE  PageTablesOK' /\ RowsStay
  BY DEF PageShape, PageTablesOK, P!rows, RowsStay

LEMMA ReturnShape ==
    ASSUME PageShape, NEW r \in PageRequests, P!Return(r), PageTablesOK', RowsStay
    PROVE  PageShape'
  BY ReturnMoves, MoveShape, NoArgType, IdleOK

-----------------------------------------------------------------------------
(* Shape: the steps *)

LEMMA PatchedType ==
    ASSUME NEW set \in SUBSET Things, NEW patch
    PROVE  P!Patched(set, patch) \in SUBSET Things
  BY DEF P!Patched, Things

LEMMA PatchedSettingsType ==
    ASSUME NEW s \in RowTypes, NEW patch, NEW h \in Handles \cup {Nobody, "keep"}
    PROVE  P!PatchedSettings(s, patch, h) \in RowTypes /\ P!PatchedSettings(s, patch, h).exists
<1>1. s.shown \in SUBSET Things /\ s.handle \in Handles \cup {Nobody}
  BY DEF RowTypes
<1>2. P!Patched(s.shown, patch) \in SUBSET Things
  BY <1>1, PatchedType
<1>3. QED BY <1>1, <1>2 DEF P!PatchedSettings, RowTypes

LEMMA FindShape ==
    ASSUME PageShape, NEW r \in PageRequests, P!Find(r) \/ P!FindAgain(r)
    PROVE  PageShape'
<1> DEFINE s == settings[pageArg[r].user]
           a == [pageArg[r] EXCEPT !.read = s]
<1>1. PageTablesOK' /\ RowsStay
  BY PageKeptTables DEF P!Find, P!FindAgain
<1>2. <<pagePc[r], pageArg[r].call>> \in Places /\ pagePc[r] \in {"find", "again"}
  BY PageLocalsTyped DEF PageLocalsOK, P!Find, P!FindAgain
<1>3. pageArg[r].call \in {"settings", "page"} /\ pageArg[r].user \in Members
  BY <1>2, PageLocalsTyped DEF Places
<1>4. s \in RowTypes /\ pageArg[r] \in PageArgs
  BY <1>3, PageLocalsTyped DEF PageTablesOK
<1>5. a \in PageArgs
  BY <1>4 DEF PageArgs
<1>6. a.call = pageArg[r].call /\ a.user = pageArg[r].user /\ a.patch = pageArg[r].patch
  BY <1>4 DEF PageArgs
<1>7. PageLocalsOK("taken", a) /\ PageLocalsOK("insert", pageArg[r])
  BY <1>3, <1>6 DEF PageLocalsOK, Places
<1>8. CASE P!GoTo(r, "taken", a)
  <2>1. Moved(r, "taken", a)
    BY <1>5, <1>8, GoMoves DEF P!Labels
  <2>2. QED BY <1>1, <1>5, <1>7, <2>1, MoveShape
<1>9. CASE P!Step(r, "insert")
  <2>1. Moved(r, "insert", pageArg[r])
    BY <1>9, StepMoves DEF P!Labels
  <2>2. QED BY <1>1, <1>4, <1>7, <2>1, MoveShape
<1>10. QED BY <1>8, <1>9 DEF P!Find, P!FindAgain

LEMMA InsertShape ==
    ASSUME PageShape, NEW r \in PageRequests, P!Insert(r)
    PROVE  PageShape'
<1> DEFINE u == pageArg[r].user
<1>1. u \in Members /\ pageArg[r] \in PageArgs /\ pageArg[r].call \in {"settings", "page"}
  BY PageLocalsTyped DEF P!Insert, PageLocalsOK, Places
<1>2. CASE settings[u].exists /\ P!Throw(r) /\ UNCHANGED settings
  <2>1. PageTablesOK' /\ RowsStay
    BY <1>2, PageKeptTables DEF P!Insert, P!rows
  <2>2. QED BY <1>2, <2>1, ReturnShape DEF P!Throw
<1>3. CASE settings' = [settings EXCEPT ![u] = P!NewSettings] /\ P!Step(r, "again")
  <2>1. PageTablesOK' /\ RowsStay /\ settings'[u].exists
    BY <1>1, <1>3, NewSettingsType DEF P!Insert, PageShape, PageTablesOK, RowsStay, P!NewSettings
  <2>2. Moved(r, "again", pageArg[r]) /\ PageLocalsOK("again", pageArg[r])
    BY <1>1, <1>3, StepMoves, PageLocalsTyped DEF P!Labels, PageLocalsOK, Places
  <2>3. QED BY <1>1, <2>1, <2>2, MoveShape
<1>4. QED BY <1>2, <1>3 DEF P!Insert

LEMMA TakenShape ==
    ASSUME PageShape, NEW r \in PageRequests, P!Taken(r)
    PROVE  PageShape'
<1> DEFINE a == [pageArg[r] EXCEPT !.todo = pageArg[r].read.shown]
<1>1. pageArg[r].user \in Members /\ pageArg[r] \in PageArgs /\ pageArg[r].read \in RowTypes
  BY PageLocalsTyped DEF P!Taken, PageLocalsOK, Places
<1>2. PageTablesOK' /\ RowsStay
  BY PageKeptTables DEF P!Taken
<1>3. CASE pageArg[r].call = "page" /\ P!GoTo(r, "section", a)
  <2>1. pageArg[r].read.shown \in SUBSET Items
    BY <1>1 DEF RowTypes, Items
  <2>2. a \in PageArgs
    BY <1>1, <2>1 DEF PageArgs
  <2>3. a.call = pageArg[r].call /\ a.user = pageArg[r].user
    BY <1>1 DEF PageArgs
  <2>4. PageLocalsOK("section", a)
    BY <1>1, <1>3, <2>3 DEF PageLocalsOK, Places
  <2>5. Moved(r, "section", a)
    BY <1>3, <2>2, GoMoves DEF P!Labels
  <2>6. QED BY <1>2, <2>2, <2>4, <2>5, MoveShape
<1>4. CASE P!Throw(r)
  BY <1>2, <1>4, ReturnShape DEF P!Throw
<1>5. CASE pageArg[r].call = "settings" /\ P!Step(r, "update")
  <2>1. PageLocalsOK("update", pageArg[r])
    BY <1>1, <1>5 DEF PageLocalsOK, Places
  <2>2. Moved(r, "update", pageArg[r])
    BY <1>5, StepMoves DEF P!Labels
  <2>3. QED BY <1>1, <1>2, <2>1, <2>2, MoveShape
<1>6. QED BY <1>3, <1>4, <1>5 DEF P!Taken

LEMMA UpdateShape ==
    ASSUME PageShape, NEW r \in PageRequests, P!Update(r)
    PROVE  PageShape'
<1> DEFINE a == pageArg[r]
           row == P!PatchedSettings(a.read, a.patch, a.handle)
<1>1. a.user \in Members /\ a \in PageArgs /\ a.read \in RowTypes /\ a.call = "settings"
  BY PageLocalsTyped DEF P!Update, PageLocalsOK, Places
<1>2. CASE P!Throw(r) /\ UNCHANGED settings
  <2>1. PageTablesOK' /\ RowsStay
    BY <1>2, PageKeptTables DEF P!Update, P!rows
  <2>2. QED BY <1>2, <2>1, ReturnShape DEF P!Throw
<1>3. CASE settings' = [settings EXCEPT ![a.user] = row] /\ P!Step(r, "done")
  <2>1. row \in RowTypes /\ row.exists
    BY <1>1, PatchedSettingsType DEF PageArgs
  <2>2. PageTablesOK' /\ RowsStay
    BY <1>1, <1>3, <2>1 DEF P!Update, PageShape, PageTablesOK, RowsStay
  <2>3. Moved(r, "done", a) /\ PageLocalsOK("done", a)
    BY <1>1, <1>3, StepMoves DEF P!Labels, PageLocalsOK, Places
  <2>4. QED BY <1>1, <2>2, <2>3, MoveShape
<1>4. QED BY <1>2, <1>3 DEF P!Update

LEMMA ProfileShape ==
    ASSUME PageShape, NEW r \in PageRequests, P!Write(r) \/ P!Contact(r)
    PROVE  PageShape'
<1> DEFINE a == pageArg[r]
<1>1. a.user \in Members /\ a \in PageArgs /\ a.read \in RowTypes /\ a.call = "profile"
  BY PageLocalsTyped DEF P!Write, P!Contact, PageLocalsOK, Places
<1>2. "legalName" \in Things /\ PageLocalsOK(pagePc[r], a)
  BY PageLocalsTyped DEF Things, P!Fields
<1>3. a.read.shown \in SUBSET Things
  BY <1>1 DEF RowTypes
<1>4. PageTablesOK' /\ RowsStay
  <2>1. CASE P!Write(r)
    <3> DEFINE set == (P!Patched(a.read.shown, a.patch) \ {"legalName"})
                          \cup (memberProfile[a.user] \cap {"legalName"})
    <3>1. set \in SUBSET Things
      BY <1>2, <1>3, PatchedType
    <3>2. memberProfile' = [memberProfile EXCEPT ![a.user] = set] /\ UNCHANGED <<settings, preference, content>>
      BY <2>1 DEF P!Write
    <3>3. memberProfile' \in [Members -> SUBSET Things]
      BY <3>1, <3>2 DEF PageShape, PageTablesOK
    <3>4. QED BY <3>2, <3>3 DEF PageShape, PageTablesOK, RowsStay
  <2>2. CASE P!Contact(r)
    BY <1>1, <1>2, <2>2 DEF P!Contact, PageShape, PageTablesOK, RowsStay
  <2>3. QED BY <2>1, <2>2
<1>5. CASE P!Step(r, "done")
  <2>1. Moved(r, "done", a) /\ PageLocalsOK("done", a)
    BY <1>1, <1>2, <1>5, StepMoves DEF P!Labels, PageLocalsOK, Places
  <2>2. QED BY <1>1, <1>4, <2>1, MoveShape
<1>6. CASE P!Step(r, "contact") /\ <<"legalName", TRUE>> \in a.patch
  <2>1. Moved(r, "contact", a) /\ PageLocalsOK("contact", a)
    BY <1>1, <1>2, <1>6, StepMoves DEF P!Labels, PageLocalsOK, Places
  <2>2. QED BY <1>1, <1>4, <2>1, MoveShape
<1>7. QED BY <1>5, <1>6 DEF P!Write, P!Contact

LEMMA SetPreferenceKeeps ==
    ASSUME PageShape, NEW u \in Members, NEW patch, P!SetPreference(u, patch),
           UNCHANGED <<settings, memberProfile, content>>
    PROVE  /\ PageTablesOK' /\ RowsStay
           /\ \A v \in Members \ {u} : preference'[v] = preference[v]
           /\ \A c \in P!Channels : (\E x \in patch : x[1] = c) => preference'[u][c] = P!Switched(patch, c)
<1> DEFINE set == [c \in P!Channels |-> IF \E x \in patch : x[1] = c THEN P!Switched(patch, c)
                                      ELSE preference[u][c]]
<1>1. preference' = [preference EXCEPT ![u] = set]
  BY DEF P!SetPreference
<1>2. \A c \in P!Channels : P!Switched(patch, c) \in {"on", "off"}
  BY DEF P!Switched
<1>3. preference[u] \in [P!Channels -> {"none", "on", "off"}]
  BY DEF PageShape, PageTablesOK
<1>4. set \in [P!Channels -> {"none", "on", "off"}]
  BY <1>2, <1>3
<1>5. QED BY <1>1, <1>4 DEF PageShape, PageTablesOK, RowsStay

LEMMA PreferenceShape ==
    ASSUME PageShape, NEW r \in PageRequests, P!InsertPreference(r) \/ P!WritePreference(r)
    PROVE  PageShape'
<1> DEFINE a == pageArg[r]
<1>1. a.user \in Members /\ a \in PageArgs /\ a.call = "preference" /\ PageLocalsOK(pagePc[r], a)
  BY PageLocalsTyped DEF P!InsertPreference, P!WritePreference, PageLocalsOK, Places
<1>2. CASE P!Throw(r) /\ UNCHANGED preference
  <2>1. PageTablesOK' /\ RowsStay
    BY <1>2, PageKeptTables DEF P!InsertPreference, P!WritePreference, P!rows
  <2>2. QED BY <1>2, <2>1, ReturnShape DEF P!Throw
<1>3. CASE P!SetPreference(a.user, a.patch) /\ P!Step(r, "done")
  <2>1. PageTablesOK' /\ RowsStay
    BY <1>1, <1>3, SetPreferenceKeeps DEF P!InsertPreference, P!WritePreference
  <2>2. Moved(r, "done", a) /\ PageLocalsOK("done", a)
    BY <1>1, <1>3, StepMoves DEF P!Labels, PageLocalsOK, Places
  <2>3. QED BY <1>1, <2>1, <2>2, MoveShape
<1>4. QED BY <1>2, <1>3 DEF P!InsertPreference, P!WritePreference

LEMMA ReadingShape ==
    ASSUME PageShape, NEW r \in PageRequests,
           NEW item \in P!Channels \cup Sections, P!IsChannelEnabled(r, item) \/ P!Section(r, item)
    PROVE  PageShape'
<1>0. PageTablesOK' /\ RowsStay
  BY PageKeptTables DEF P!IsChannelEnabled, P!Section
<1>1. pageArg[r].user \in Members /\ pageArg[r] \in PageArgs /\ <<pagePc[r], pageArg[r].call>> \in Places
  BY PageLocalsTyped DEF P!IsChannelEnabled, P!Section, PageLocalsOK, Places
<1>2. ASSUME NEW label \in {"shown", "channel", "section"}, NEW todo \in SUBSET Items,
             NEW page \in SUBSET Items, <<label, pageArg[r].call>> \in Places,
             P!GoTo(r, label, [pageArg[r] EXCEPT !.todo = todo, !.page = page])
      PROVE  PageShape'
  <2> DEFINE a == [pageArg[r] EXCEPT !.todo = todo, !.page = page]
  <2>1. a \in PageArgs
    BY <1>1 DEF PageArgs
  <2>2. a.call = pageArg[r].call /\ a.user = pageArg[r].user /\ a.patch = pageArg[r].patch
    BY <1>1 DEF PageArgs
  <2>3. PageLocalsOK(label, a)
    BY <1>1, <1>2, <2>2 DEF PageLocalsOK, Places
  <2>4. Moved(r, label, a)
    BY <1>2, <2>1, GoMoves DEF P!Labels
  <2>5. QED BY <1>0, <1>2, <2>1, <2>3, <2>4, MoveShape
<1>3. pageArg[r].todo \in SUBSET Items /\ pageArg[r].page \in SUBSET Items /\ item \in Items
  BY <1>1 DEF PageArgs, Items, Things
<1>4. CASE P!IsChannelEnabled(r, item)
  <2> DEFINE left == pageArg[r].todo \ {item}
             page == pageArg[r].page \cup ({item} \cap P!Enabled(pageArg[r].user))
             label == IF left = {} THEN "shown" ELSE "channel"
  <2>1. left \in SUBSET Items /\ page \in SUBSET Items /\ label \in {"shown", "channel"}
    BY <1>3
  <2>2. <<label, pageArg[r].call>> \in Places
    BY <1>1, <1>4 DEF P!IsChannelEnabled, Places
  <2>3. P!GoTo(r, label, [pageArg[r] EXCEPT !.todo = left, !.page = page])
    <3>1. P!GoTo(r, label, [pageArg[r] EXCEPT
                                !.todo = left, !.page = @ \cup ({item} \cap P!Enabled(pageArg[r].user))])
      BY <1>4 DEF P!IsChannelEnabled
    <3>2. [pageArg[r] EXCEPT !.todo = left, !.page = @ \cup ({item} \cap P!Enabled(pageArg[r].user))]
             = [pageArg[r] EXCEPT !.todo = left, !.page = page]
      BY <1>1 DEF PageArgs
    <3>3. QED BY <3>1, <3>2
  <2> HIDE DEF left, page, label
  <2>4. QED BY <1>2, <2>1, <2>2, <2>3
<1>5. CASE P!Section(r, item)
  <2> DEFINE left == pageArg[r].todo \ {item}
             page == pageArg[r].page \cup ({item} \cap content[pageArg[r].user])
  <2>1. left \in SUBSET Items /\ page \in SUBSET Items
    BY <1>3
  <2>2. <<"section", pageArg[r].call>> \in Places
    BY <1>1, <1>5 DEF P!Section
  <2>3. P!GoTo(r, "section", [pageArg[r] EXCEPT !.todo = left, !.page = page])
    <3>1. P!GoTo(r, "section", [pageArg[r] EXCEPT !.todo = @ \ {item},
                                  !.page = @ \cup ({item} \cap content[pageArg[r].user])])
      BY <1>5 DEF P!Section
    <3>2. [pageArg[r] EXCEPT !.todo = @ \ {item}, !.page = @ \cup ({item} \cap content[pageArg[r].user])]
             = [pageArg[r] EXCEPT !.todo = left, !.page = page]
      BY <1>1 DEF PageArgs
    <3>3. QED BY <3>1, <3>2
  <2> HIDE DEF left, page
  <2>4. QED BY <1>2, <2>1, <2>2, <2>3
<1>6. QED BY <1>4, <1>5

LEMMA EndShape ==
    ASSUME PageShape, NEW r \in PageRequests, P!ShowPage(r) \/ P!Finish(r) \/ P!Crash(r)
    PROVE  PageShape'
<1>1. PageTablesOK' /\ RowsStay
  BY PageKeptTables DEF P!ShowPage, P!Finish, P!Crash
<1>2. CASE P!Return(r)
  BY <1>1, <1>2, ReturnShape
<1>3. CASE pagePc[r] = "section" /\ P!Step(r, "shown")
  <2>1. Moved(r, "shown", pageArg[r]) /\ PageLocalsOK("shown", pageArg[r]) /\ pageArg[r] \in PageArgs
    BY <1>3, StepMoves, PageLocalsTyped DEF P!Labels, PageLocalsOK, Places
  <2>2. QED BY <1>1, <2>1, MoveShape
<1>4. QED BY <1>2, <1>3 DEF P!ShowPage, P!Finish, P!Crash

\* The calls that begin without being updates.
LEMMA ReadCallsShape ==
    ASSUME PageShape, NEW r \in PageRequests, NEW label \in P!Labels, NEW a \in PageArgs, P!Begin(r, label, a),
           PageLocalsOK(label, a), label # "again"
    PROVE  PageShape'
<1>1. PageTablesOK' /\ RowsStay
  BY PageKeptTables DEF P!Begin
<1>2. Moved(r, label, a)
  BY GoMoves DEF P!Begin
<1>3. QED BY <1>1, <1>2, MoveShape

LEMMA UpdateCallsShape ==
    ASSUME PageShape, NEW r \in PageRequests, NEW label \in P!Labels, NEW a \in PageArgs,
           P!BeginUpdate(r, label, a), PageLocalsOK(label, a), label # "again"
    PROVE  PageShape'
<1>1. PageTablesOK' /\ RowsStay
  BY PageKeptTables DEF P!BeginUpdate
<1>2. PICK alone \in BOOLEAN : Moved(r, label, [a EXCEPT !.alone = alone])
  BY BeginMoves
<1> DEFINE b == [a EXCEPT !.alone = alone]
<1>3. b \in PageArgs /\ b.call = a.call /\ b.user = a.user /\ b.patch = a.patch
  BY DEF PageArgs
<1>4. PageLocalsOK(label, b)
  BY <1>3 DEF PageLocalsOK
<1>5. Moved(r, label, b)
  BY <1>2
<1>6. QED BY <1>1, <1>3, <1>4, <1>5, MoveShape

\* The locals a call begins with.
SettingsBegun(u, patch, h) ==
    LET s == IF settings[u].exists THEN settings[u] ELSE P!NewSettings IN
    [P!NoArg EXCEPT !.call = "settings", !.user = u, !.patch = patch, !.handle = h,
                  !.want = P!PatchedSettings(s, patch, h)]
ProfileBegun(u, patch) ==
    [P!NoArg EXCEPT !.call = "profile", !.user = u, !.patch = patch, !.read.shown = memberProfile[u],
                  !.want.shown = P!Patched(memberProfile[u], patch)]
PreferenceBegun(u, c, on) ==
    [P!NoArg EXCEPT !.call = "preference", !.user = u, !.patch = {<<c, on>>}]
NotifyBegun(u)  == [P!NoArg EXCEPT !.call = "notify", !.user = u, !.todo = P!Channels]
PageBegun(u)    == [P!NoArg EXCEPT !.call = "page", !.user = u]
CodeBegun(u, s) == [P!NoArg EXCEPT !.call = "code", !.user = u, !.page = P!Verified(u, s)]
ListBegun       == [P!NoArg EXCEPT !.call = "list", !.page = {u \in Members : P!Open(u)}]

LEMMA SettingsBegunType ==
    ASSUME PageShape, NEW u \in Members, NEW patch \in SUBSET (Sections \X BOOLEAN),
           NEW h \in Handles \cup {Nobody, "keep"}
    PROVE  LET a == SettingsBegun(u, patch, h) IN
           /\ a \in PageArgs /\ PageLocalsOK("find", a)
           /\ a.call = "settings" /\ a.user = u /\ a.patch = patch /\ a.handle = h /\ a.page = {}
           /\ a.want = P!PatchedSettings(Base(settings, u), patch, h)
<1> DEFINE want == P!PatchedSettings(Base(settings, u), patch, h)
           a == [P!NoArg EXCEPT !.call = "settings", !.user = u, !.patch = patch, !.handle = h, !.want = want]
<1>1. Base(settings, u) \in RowTypes
  BY NewSettingsType DEF Base, PageShape, PageTablesOK
<1>2. want \in RowTypes
  BY <1>1, PatchedSettingsType
<1>3. patch \in Patches
  BY DEF Patches
<1> HIDE DEF want
<1>4. a \in PageArgs
  BY <1>2, <1>3, NoArgType DEF PageArgs
<1>5. a.call = "settings" /\ a.user = u /\ a.patch = patch /\ a.handle = h /\ a.page = {} /\ a.want = want
  BY DEF P!NoArg
<1>6. PageLocalsOK("find", a)
  BY <1>5 DEF PageLocalsOK, Places
<1>7. SettingsBegun(u, patch, h) = a
  BY DEF SettingsBegun, want, Base
<1>8. QED BY <1>4, <1>5, <1>6, <1>7 DEF want

LEMMA ProfileBegunType ==
    ASSUME PageShape, NEW u \in Members, NEW patch \in SUBSET (P!Fields \X BOOLEAN),
           <<"legalName", FALSE>> \notin patch
    PROVE  LET a == ProfileBegun(u, patch) IN
           /\ a \in PageArgs /\ PageLocalsOK("write", a)
           /\ a.call = "profile" /\ a.user = u /\ a.patch = patch /\ a.page = {}
           /\ a.read.shown = memberProfile[u] /\ a.want.shown = P!Patched(memberProfile[u], patch)
<1> DEFINE a == ProfileBegun(u, patch)
           read == [P!NoSettings EXCEPT !.shown = memberProfile[u]]
           want == [P!NoSettings EXCEPT !.shown = P!Patched(memberProfile[u], patch)]
<1>1. memberProfile[u] \in SUBSET Things /\ P!Patched(memberProfile[u], patch) \in SUBSET Things
  BY PatchedType DEF PageShape, PageTablesOK
<1>2. read \in RowTypes /\ want \in RowTypes
  BY <1>1, NewSettingsType DEF RowTypes
<1>3. read.shown = memberProfile[u] /\ want.shown = P!Patched(memberProfile[u], patch)
  BY DEF P!NoSettings
<1>4. a = [P!NoArg EXCEPT !.call = "profile", !.user = u, !.patch = patch, !.read = read, !.want = want]
  BY DEF ProfileBegun, P!NoArg
<1>5. patch \in Patches
  BY DEF Patches
<1> HIDE DEF a, read, want
<1>6. a \in PageArgs
  BY <1>2, <1>4, <1>5, NoArgType DEF PageArgs
<1>7. a.call = "profile" /\ a.user = u /\ a.patch = patch /\ a.page = {} /\ a.read = read /\ a.want = want
  BY <1>4 DEF P!NoArg
<1>8. PageLocalsOK("write", a)
  BY <1>7 DEF PageLocalsOK, Places
<1>9. QED BY <1>3, <1>6, <1>7, <1>8 DEF a

LEMMA PreferenceBegunType ==
    ASSUME PageShape, NEW u \in Members, NEW c \in P!Channels, NEW on \in BOOLEAN,
           NEW label \in {"insertPreference", "writePreference"}
    PROVE  LET a == PreferenceBegun(u, c, on) IN
           /\ a \in PageArgs /\ PageLocalsOK(label, a)
           /\ a.call = "preference" /\ a.user = u /\ a.page = {}
<1> DEFINE a == PreferenceBegun(u, c, on)
<1>1. {<<c, on>>} \in Patches
  BY DEF Patches
<1>2. a \in PageArgs
  BY <1>1, NoArgType DEF PreferenceBegun, PageArgs
<1>3. a.call = "preference" /\ a.user = u /\ a.page = {} /\ a.patch = {<<c, on>>}
  BY DEF PreferenceBegun, P!NoArg
<1>4. PageLocalsOK(label, a)
  BY <1>3 DEF PageLocalsOK, Places
<1>5. QED BY <1>2, <1>3, <1>4

LEMMA ReadBegunType ==
    ASSUME PageShape, NEW u \in Members, NEW s
    PROVE  /\ NotifyBegun(u) \in PageArgs /\ PageLocalsOK("channel", NotifyBegun(u))
           /\ PageBegun(u) \in PageArgs /\ PageLocalsOK("find", PageBegun(u))
           /\ CodeBegun(u, s) \in PageArgs /\ PageLocalsOK("shown", CodeBegun(u, s))
           /\ NotifyBegun(u).page = {} /\ PageBegun(u).page = {}
           /\ CodeBegun(u, s).page = P!Verified(u, s) /\ CodeBegun(u, s).call = "code"
           /\ CodeBegun(u, s).user = u
<1>1. P!Verified(u, s) \in SUBSET Items
  BY DEF P!Verified, PageShape, PageTablesOK, Items, Things
<1>2. P!Channels \in SUBSET Items
  BY DEF Items
<1>3. NotifyBegun(u) \in PageArgs /\ PageBegun(u) \in PageArgs /\ CodeBegun(u, s) \in PageArgs
  BY <1>1, <1>2, NoArgType DEF NotifyBegun, PageBegun, CodeBegun, PageArgs
<1>4. /\ NotifyBegun(u).call = "notify" /\ NotifyBegun(u).user = u /\ NotifyBegun(u).page = {}
      /\ PageBegun(u).call = "page" /\ PageBegun(u).user = u /\ PageBegun(u).page = {}
      /\ CodeBegun(u, s).call = "code" /\ CodeBegun(u, s).user = u
      /\ CodeBegun(u, s).page = P!Verified(u, s)
  BY DEF NotifyBegun, PageBegun, CodeBegun, P!NoArg
<1>5. QED BY <1>3, <1>4 DEF PageLocalsOK, Places

LEMMA ListBegunType ==
    /\ ListBegun \in PageArgs /\ PageLocalsOK("listed", ListBegun)
    /\ ListBegun.page = {u \in Members : P!Open(u)} /\ ListBegun.call = "list"
<1>1. {u \in Members : P!Open(u)} \in SUBSET Items
  BY DEF Items
<1>2. ListBegun \in PageArgs
  BY <1>1, NoArgType DEF ListBegun, PageArgs
<1>3. ListBegun.call = "list" /\ ListBegun.page = {u \in Members : P!Open(u)}
  BY DEF ListBegun, P!NoArg
<1>4. QED BY <1>2, <1>3 DEF PageLocalsOK, Places

UpdateBegins(r) ==
    \E u \in Members :
        \/ \E patch \in SUBSET (Sections \X BOOLEAN), h \in Handles \cup {Nobody, "keep"} :
              P!BeginUpdate(r, "find", SettingsBegun(u, patch, h))
        \/ \E patch \in SUBSET (P!Fields \X BOOLEAN) :
              <<"legalName", FALSE>> \notin patch /\ P!BeginUpdate(r, "write", ProfileBegun(u, patch))
        \/ \E c \in P!Channels, on \in BOOLEAN, label \in {"insertPreference", "writePreference"} :
              P!BeginUpdate(r, label, PreferenceBegun(u, c, on))

ReadBegins(r) ==
    \/ \E u \in Members :
          \/ P!Begin(r, "channel", NotifyBegun(u))
          \/ P!Begin(r, "find", PageBegun(u))
          \/ \E s \in Awards : P!Begin(r, "shown", CodeBegun(u, s))
    \/ P!Begin(r, "listed", ListBegun)

LEMMA CallsBegin ==
    ASSUME NEW r \in PageRequests,
           P!SettingsCalls(r) \/ P!ProfileCalls(r) \/ P!PageCalls(r) \/ P!NotificationCalls(r)
    PROVE  UpdateBegins(r) \/ ReadBegins(r)
<1>1. CASE P!SettingsCalls(r)
  <2>1. PICK u \in Members, x \in Sections, to \in BOOLEAN :
           \E patch \in {{<<x, to>>}, {}}, h \in Handles \cup {Nobody, "keep"} :
               P!UpdateSettings(r, u, patch, h)
    BY <1>1 DEF P!SettingsCalls
  <2>2. PICK patch \in {{<<x, to>>}, {}}, h \in Handles \cup {Nobody, "keep"} : P!UpdateSettings(r, u, patch, h)
    BY <2>1
  <2>3. P!BeginUpdate(r, "find", SettingsBegun(u, patch, h))
    BY <2>2 DEF P!UpdateSettings, SettingsBegun
  <2>4. patch \in SUBSET (Sections \X BOOLEAN)
    OBVIOUS
  <2>5. QED BY <2>3, <2>4 DEF UpdateBegins
<1>2. CASE P!ProfileCalls(r)
  <2>1. PICK u \in Members, to \in BOOLEAN :
           \E patch \in SUBSET (P!Fields \X BOOLEAN) :
              <<"legalName", FALSE>> \notin patch /\ P!UpdateProfile(r, u, patch)
    <3>1. PICK u \in Members, to \in BOOLEAN :
              \/ \E x \in {"visibility", "directoryOptIn"} :
                    \/ P!UpdateProfile(r, u, {<<x, to>>})
                    \/ P!UpdateProfile(r, u, {<<x, to>>, <<"legalName", TRUE>>})
              \/ P!UpdateProfile(r, u, {<<"visibility", to>>, <<"directoryOptIn", to>>})
      BY <1>2 DEF P!ProfileCalls
    <3>2. ASSUME NEW x \in {"visibility", "directoryOptIn"}
          PROVE  /\ {<<x, to>>} \in SUBSET (P!Fields \X BOOLEAN)
                 /\ {<<x, to>>, <<"legalName", TRUE>>} \in SUBSET (P!Fields \X BOOLEAN)
                 /\ <<"legalName", FALSE>> \notin {<<x, to>>}
                 /\ <<"legalName", FALSE>> \notin {<<x, to>>, <<"legalName", TRUE>>}
      <4>1. <<x, to>> \in P!Fields \X BOOLEAN /\ <<"legalName", TRUE>> \in P!Fields \X BOOLEAN
        BY DEF P!Fields
      <4>2. x # "legalName"
        BY DEF P!Fields
      <4>3. <<"legalName", FALSE>> # <<x, to>> /\ <<"legalName", FALSE>> # <<"legalName", TRUE>>
        BY <4>2
      <4>4. QED BY <4>1, <4>3
    <3>3. /\ {<<"visibility", to>>, <<"directoryOptIn", to>>} \in SUBSET (P!Fields \X BOOLEAN)
          /\ <<"legalName", FALSE>> \notin {<<"visibility", to>>, <<"directoryOptIn", to>>}
      BY DEF P!Fields
    <3>4. QED BY <3>1, <3>2, <3>3
  <2>2. PICK patch \in SUBSET (P!Fields \X BOOLEAN) :
           <<"legalName", FALSE>> \notin patch /\ P!UpdateProfile(r, u, patch)
    BY <2>1
  <2>3. P!BeginUpdate(r, "write", ProfileBegun(u, patch))
    BY <2>2 DEF P!UpdateProfile, ProfileBegun
  <2>4. QED BY <2>2, <2>3 DEF UpdateBegins
<1>3. ASSUME NEW u \in Members, P!Page(r, u) PROVE ReadBegins(r)
  BY <1>3 DEF P!Page, PageBegun, ReadBegins
<1>4. ASSUME NEW u \in Members, NEW s \in Awards, P!VerifyPublicCode(r, u, s) PROVE ReadBegins(r)
  BY <1>4 DEF P!VerifyPublicCode, CodeBegun, ReadBegins
<1>5. CASE P!PageCalls(r)
  <2>1. CASE P!ListDirectory(r)
    BY <2>1 DEF P!ListDirectory, ListBegun, ReadBegins
  <2>2. QED BY <1>3, <1>4, <1>5, <2>1 DEF P!PageCalls, P!PageByHandle, P!Owner, P!GetShareCardPayload
<1>6. CASE P!NotificationCalls(r)
  <2>1. PICK u \in Members : \/ P!ScheduleNotification(r, u)
                           \/ \E c \in P!Channels, on \in BOOLEAN : P!UpdatePreference(r, u, c, on)
    BY <1>6 DEF P!NotificationCalls
  <2>2. CASE P!ScheduleNotification(r, u)
    BY <2>2 DEF P!ScheduleNotification, NotifyBegun, ReadBegins
  <2>3. ASSUME NEW c \in P!Channels, NEW on \in BOOLEAN, P!UpdatePreference(r, u, c, on)
        PROVE  UpdateBegins(r)
    <3> DEFINE label == IF preference[u][c] = "none" THEN "insertPreference" ELSE "writePreference"
    <3>1. P!BeginUpdate(r, label, PreferenceBegun(u, c, on))
      BY <2>3 DEF P!UpdatePreference, PreferenceBegun
    <3>2. label \in {"insertPreference", "writePreference"}
      OBVIOUS
    <3> HIDE DEF label
    <3>3. QED BY <3>1, <3>2 DEF UpdateBegins
  <2>4. QED BY <2>1, <2>2, <2>3
<1>7. QED BY <1>1, <1>2, <1>5, <1>6

LEMMA BeginsShape ==
    ASSUME PageShape, NEW r \in PageRequests, UpdateBegins(r) \/ ReadBegins(r)
    PROVE  PageShape'
<1>0. {"find", "write", "insertPreference", "writePreference", "channel", "shown", "listed"}
         \subseteq P!Labels \ {"again"}
  BY DEF P!Labels
<1>1. CASE UpdateBegins(r)
  <2>1. PICK u \in Members :
        \/ \E patch \in SUBSET (Sections \X BOOLEAN), h \in Handles \cup {Nobody, "keep"} :
              P!BeginUpdate(r, "find", SettingsBegun(u, patch, h))
        \/ \E patch \in SUBSET (P!Fields \X BOOLEAN) :
              <<"legalName", FALSE>> \notin patch /\ P!BeginUpdate(r, "write", ProfileBegun(u, patch))
        \/ \E c \in P!Channels, on \in BOOLEAN, label \in {"insertPreference", "writePreference"} :
              P!BeginUpdate(r, label, PreferenceBegun(u, c, on))
    BY <1>1 DEF UpdateBegins
  <2>2. ASSUME NEW patch \in SUBSET (Sections \X BOOLEAN), NEW h \in Handles \cup {Nobody, "keep"},
               P!BeginUpdate(r, "find", SettingsBegun(u, patch, h))
        PROVE  PageShape'
    <3>1. SettingsBegun(u, patch, h) \in PageArgs /\ PageLocalsOK("find", SettingsBegun(u, patch, h))
      BY SettingsBegunType
    <3>2. QED BY <1>0, <2>2, <3>1, UpdateCallsShape
  <2>3. ASSUME NEW patch \in SUBSET (P!Fields \X BOOLEAN), <<"legalName", FALSE>> \notin patch,
               P!BeginUpdate(r, "write", ProfileBegun(u, patch))
        PROVE  PageShape'
    <3>1. ProfileBegun(u, patch) \in PageArgs /\ PageLocalsOK("write", ProfileBegun(u, patch))
      BY <2>3, ProfileBegunType
    <3>2. QED BY <1>0, <2>3, <3>1, UpdateCallsShape
  <2>4. ASSUME NEW c \in P!Channels, NEW on \in BOOLEAN,
               NEW label \in {"insertPreference", "writePreference"},
               P!BeginUpdate(r, label, PreferenceBegun(u, c, on))
        PROVE  PageShape'
    <3>1. PreferenceBegun(u, c, on) \in PageArgs /\ PageLocalsOK(label, PreferenceBegun(u, c, on))
      BY PreferenceBegunType
    <3>2. label \in P!Labels /\ label # "again"
      BY <1>0
    <3>3. QED BY <2>4, <3>1, <3>2, UpdateCallsShape
  <2>5. QED BY <2>1, <2>2, <2>3, <2>4
<1>2. CASE ReadBegins(r)
  <2>1. ASSUME NEW u \in Members, P!Begin(r, "channel", NotifyBegun(u)) PROVE PageShape'
    BY <1>0, <2>1, ReadBegunType, ReadCallsShape
  <2>2. ASSUME NEW u \in Members, P!Begin(r, "find", PageBegun(u)) PROVE PageShape'
    BY <1>0, <2>2, ReadBegunType, ReadCallsShape
  <2>3. ASSUME NEW u \in Members, NEW s \in Awards, P!Begin(r, "shown", CodeBegun(u, s)) PROVE PageShape'
    BY <1>0, <2>3, ReadBegunType, ReadCallsShape
  <2>4. CASE P!Begin(r, "listed", ListBegun)
    BY <1>0, <2>4, ListBegunType, ReadCallsShape
  <2>5. QED BY <1>2, <2>1, <2>2, <2>3, <2>4 DEF ReadBegins
<1>3. QED BY <1>1, <1>2

LEMMA ContentShape ==
    ASSUME PageShape, NEW u \in Members, NEW s \in Sections, P!ContentChanges(u, s)
    PROVE  PageShape'
<1>1. PageTablesOK' /\ pagePc' = pagePc /\ pageArg' = pageArg /\ settings' = settings
  BY DEF PageShape, PageTablesOK, P!ContentChanges, P!callVars
<1>2. QED BY <1>1 DEF PageShape, PageLocalsOK

\* A step of the specification, without the histories.
Stepped ==
    \/ \E r \in PageRequests : UpdateBegins(r) \/ ReadBegins(r)
    \/ \E u \in Members, s \in Sections : P!ContentChanges(u, s)
    \/ \E r \in PageRequests : P!Continue(r) \/ P!Crash(r)

LEMMA NextStepped == P!Next => Stepped
  BY CallsBegin DEF P!Next, Stepped

LEMMA SteppedShape == PageShape /\ Stepped => PageShape'
<1> SUFFICES ASSUME PageShape, Stepped PROVE PageShape'
  OBVIOUS
<1>1. ASSUME NEW r \in PageRequests, P!Continue(r) PROVE PageShape'
  BY <1>1, FindShape, InsertShape, TakenShape, UpdateShape, ProfileShape, PreferenceShape,
     ReadingShape, EndShape DEF P!Continue
<1>2. QED BY <1>1, BeginsShape, ContentShape, EndShape DEF Stepped

LEMMA InitShape == P!Init => PageShape
<1> SUFFICES ASSUME P!Init PROVE PageShape
  OBVIOUS
<1>1. PageTablesOK
  BY NewSettingsType DEF P!Init, PageTablesOK
<1>2. QED BY <1>1, NoArgType, IdleOK DEF P!Init, PageShape, P!Labels

-----------------------------------------------------------------------------
(* Pages show what is allowed *)

\* What a page may show when the step has been taken belongs to what it was allowed.
PageSeen(r) ==
    LET a == pageArg'[r] IN
    /\ a.call # "none" => allowed[r] \subseteq allowed'[r] /\ had[r] \subseteq had'[r]
    /\ a.call = "page" => /\ settings'[a.user].exists => settings'[a.user].shown \subseteq allowed'[r]
                          /\ content'[a.user] \subseteq had'[r]
    /\ a.call = "list" => /\ {u \in Members : {"visibility", "directoryOptIn"} \subseteq memberProfile'[u]}
                               \subseteq allowed'[r]
                          /\ Members \subseteq had'[r]
    /\ a.call = "notify" => /\ {c \in P!Channels : preference'[a.user][c] # "off"} \subseteq allowed'[r]
                            /\ P!Channels \subseteq had'[r]
    /\ a.call = "code" => Awards \subseteq allowed'[r] /\ content'[a.user] \subseteq had'[r]

LEMMA AllSeen == ASSUME P!Next, NEW r \in PageRequests PROVE PageSeen(r)
<1> DEFINE a == pageArg'[r]
           may == P!Showable(pageArg[r])'
           must == P!Present(pageArg[r])'
<1>1. a.call # "none" => allowed'[r] = allowed[r] \cup may /\ had'[r] = had[r] \cup must
  BY DEF P!Next, P!Keep
<1>2. /\ a.call = "page"   => may = IF settings'[a.user].exists THEN settings'[a.user].shown ELSE Shown
      /\ a.call = "list"   => may = {u \in Members : {"visibility", "directoryOptIn"} \subseteq memberProfile'[u]}
      /\ a.call = "notify" => may = {c \in P!Channels : preference'[a.user][c] # "off"}
      /\ a.call = "code"   => may = Awards
  BY DEF P!Showable, P!Open, P!Enabled
<1>3. /\ a.call \in {"page", "code"} => must = content'[a.user]
      /\ a.call = "list"   => must = Members
      /\ a.call = "notify" => must = P!Channels
  BY DEF P!Present
<1> HIDE DEF may, must
<1>4. QED BY <1>1, <1>2, <1>3 DEF PageSeen

LEMMA MoveHolds ==
    ASSUME PageShape, PageShape', Holding, P!Next, NEW r \in PageRequests, NEW label, NEW a, Moved(r, label, a),
           Holds(label, a, allowed'[r], had'[r])
    PROVE  Holding'
<1>1. ASSUME NEW q \in PageRequests, q # r
      PROVE  Holds(pagePc'[q], pageArg'[q], allowed'[q], had'[q])
  <2>1. pagePc'[q] = pagePc[q] /\ Same(pageArg'[q], pageArg[q])
    BY <1>1 DEF Moved
  <2>2. Holds(pagePc[q], pageArg[q], allowed[q], had[q]) /\ PageSeen(q)
    BY AllSeen DEF Holding
  <2>3. CASE pageArg[q].call = "none"
    <3>1. pagePc[q] = "idle"
      BY <2>3, PageLocalsTyped DEF PageLocalsOK, Places
    <3>2. QED BY <2>1, <2>2, <2>3, <3>1 DEF Holds, Same
  <2>4. CASE pageArg[q].call # "none"
    BY <2>1, <2>2, <2>4 DEF Holds, Same, PageSeen
  <2>5. QED BY <2>3, <2>4
<1>2. Holds(pagePc'[r], pageArg'[r], allowed'[r], had'[r])
  BY DEF Moved
<1>3. \A q \in PageRequests : Holds(pagePc'[q], pageArg'[q], allowed'[q], had'[q])
  BY <1>1, <1>2
<1>4. QED BY <1>3 DEF Holding, Holds

LEMMA ReturnHolds ==
    ASSUME PageShape, PageShape', Holding, P!Next, NEW r \in PageRequests, P!Return(r)
    PROVE  Holding'
<1>1. Moved(r, "idle", P!NoArg)
  BY ReturnMoves
<1>2. Holds("idle", P!NoArg, allowed'[r], had'[r])
  BY NoArgType DEF Holds
<1>3. QED BY <1>1, <1>2, MoveHolds

\* A step that adds nothing to a page.
LEMMA StepHolds ==
    ASSUME PageShape, PageShape', Holding, P!Next, NEW r \in PageRequests, pageArg[r].call # "none",
           NEW label \in P!Labels \ {"section", "taken"}, P!Step(r, label)
    PROVE  Holding'
<1>1. Moved(r, label, pageArg[r])
  BY StepMoves
<1>2. Holds(label, pageArg[r], allowed'[r], had'[r])
  BY <1>1, AllSeen DEF Holding, Holds, PageSeen, Moved
<1>3. QED BY <1>1, <1>2, MoveHolds

LEMMA FindHolds ==
    ASSUME PageShape, PageShape', Holding, P!Next, NEW r \in PageRequests, P!Find(r) \/ P!FindAgain(r)
    PROVE  Holding'
<1> DEFINE s == settings[pageArg[r].user]
           a == [pageArg[r] EXCEPT !.read = s]
<1>1. <<pagePc[r], pageArg[r].call>> \in Places /\ pagePc[r] \in {"find", "again"}
  BY PageLocalsTyped DEF PageLocalsOK, P!Find, P!FindAgain
<1>2. pageArg[r].call \in {"settings", "page"} /\ pageArg[r].user \in Members
  BY <1>1, PageLocalsTyped DEF Places
<1>3. s \in RowTypes /\ pageArg[r] \in PageArgs
  BY <1>2, PageLocalsTyped DEF PageTablesOK
<1>4. a \in PageArgs
  BY <1>3 DEF PageArgs
<1>5. a.call = pageArg[r].call /\ a.user = pageArg[r].user /\ a.page = pageArg[r].page /\ a.read = s
  BY <1>3 DEF PageArgs
<1>6. CASE P!GoTo(r, "taken", a) /\ s.exists
  <2>1. Moved(r, "taken", a)
    BY <1>4, <1>6, GoMoves DEF P!Labels
  <2>2. settings' = settings
    BY DEF P!Find, P!FindAgain, P!rows
  <2>3. pageArg'[r] = a /\ PageSeen(r) /\ Holds(pagePc[r], pageArg[r], allowed[r], had[r])
    BY <2>1, AllSeen DEF Holding, Moved
  <2>4. Holds("taken", a, allowed'[r], had'[r])
    BY <1>2, <1>5, <1>6, <2>2, <2>3 DEF Holds, PageSeen
  <2>5. QED BY <2>1, <2>4, MoveHolds
<1>7. CASE P!Step(r, "insert")
  BY <1>2, <1>7, StepHolds DEF P!Labels
<1>8. pagePc[r] = "again" => s.exists
  BY DEF PageShape
<1>9. QED BY <1>6, <1>7, <1>8 DEF P!Find, P!FindAgain

LEMMA TakenHolds ==
    ASSUME PageShape, PageShape', Holding, P!Next, NEW r \in PageRequests, P!Taken(r)
    PROVE  Holding'
<1> DEFINE a == [pageArg[r] EXCEPT !.todo = pageArg[r].read.shown]
<1>1. pageArg[r] \in PageArgs /\ pageArg[r].read \in RowTypes /\ pagePc[r] = "taken"
  BY PageLocalsTyped DEF P!Taken
<1>2. CASE pageArg[r].call = "page" /\ P!GoTo(r, "section", a)
  <2>1. pageArg[r].read.shown \in SUBSET Items
    BY <1>1 DEF RowTypes, Items
  <2>2. a \in PageArgs
    BY <1>1, <2>1 DEF PageArgs
  <2>3. a.call = "page" /\ a.page = pageArg[r].page /\ a.todo = pageArg[r].read.shown
    BY <1>1, <1>2 DEF PageArgs
  <2>4. Moved(r, "section", a)
    BY <1>2, <2>2, GoMoves DEF P!Labels
  <2>5. pageArg'[r] = a /\ PageSeen(r) /\ Holds(pagePc[r], pageArg[r], allowed[r], had[r])
    BY <2>4, AllSeen DEF Holding, Moved
  <2>6. Holds("section", a, allowed'[r], had'[r])
    BY <1>1, <1>2, <2>3, <2>5 DEF Holds, PageSeen
  <2>7. QED BY <2>4, <2>6, MoveHolds
<1>3. CASE P!Throw(r)
  BY <1>3, ReturnHolds DEF P!Throw
<1>4. CASE pageArg[r].call = "settings" /\ P!Step(r, "update")
  BY <1>4, StepHolds DEF P!Labels
<1>5. QED BY <1>2, <1>3, <1>4 DEF P!Taken

\* Steps that write, and the end of a request.
LEMMA WriteHolds ==
    ASSUME PageShape, PageShape', Holding, P!Next, NEW r \in PageRequests,
           \/ P!Insert(r) \/ P!Update(r) \/ P!Write(r) \/ P!Contact(r) \/ P!InsertPreference(r)
           \/ P!WritePreference(r) \/ P!ShowPage(r) \/ P!Finish(r) \/ P!Crash(r)
    PROVE  Holding'
<1>1. CASE P!Return(r)
  BY <1>1, ReturnHolds
<1>2. ASSUME pagePc[r] # "idle", NEW label \in {"again", "done", "contact", "shown"}, P!Step(r, label)
      PROVE  Holding'
  <2>1. pageArg[r].call # "none"
    BY <1>2, PageLocalsTyped DEF PageLocalsOK, Places
  <2>2. label \in P!Labels \ {"section", "taken"}
    BY DEF P!Labels
  <2>3. QED BY <1>2, <2>1, <2>2, StepHolds
<1>3. QED
  BY <1>1, <1>2 DEF P!Insert, P!Update, P!Write, P!Contact, P!InsertPreference, P!WritePreference,
                    P!ShowPage, P!Finish, P!Crash, P!Throw

LEMMA ReadingHolds ==
    ASSUME PageShape, PageShape', Holding, P!Next, NEW r \in PageRequests,
           NEW item \in P!Channels \cup Sections, P!IsChannelEnabled(r, item) \/ P!Section(r, item)
    PROVE  Holding'
<1> DEFINE left == pageArg[r].todo \ {item}
<1>1. pageArg[r] \in PageArgs /\ <<pagePc[r], pageArg[r].call>> \in Places /\ item \in Items
  BY PageLocalsTyped DEF P!IsChannelEnabled, P!Section, PageLocalsOK, Items, Things
<1>2. pageArg[r].todo \in SUBSET Items /\ pageArg[r].page \in SUBSET Items
  BY <1>1 DEF PageArgs
<1>3. Holds(pagePc[r], pageArg[r], allowed[r], had[r]) /\ PageSeen(r)
  BY AllSeen DEF Holding
<1>4. ASSUME NEW label \in {"shown", "channel", "section"}, NEW add \in SUBSET {item},
             P!GoTo(r, label, [pageArg[r] EXCEPT !.todo = left, !.page = @ \cup add]),
             pageArg[r].call # "none",
             label = "section" => pagePc[r] = "section",
             pageArg'[r].call = pageArg[r].call /\ pageArg'[r].user = pageArg[r].user =>
                 add \subseteq allowed'[r] \cap had'[r]
      PROVE  Holding'
  <2> DEFINE a == [pageArg[r] EXCEPT !.todo = left, !.page = pageArg[r].page \cup add]
  <2>1. a \in PageArgs
    BY <1>1, <1>2 DEF PageArgs
  <2>2. /\ a.call = pageArg[r].call /\ a.user = pageArg[r].user
        /\ a.todo = left /\ a.page = pageArg[r].page \cup add
    BY <1>1 DEF PageArgs
  <2>3. [pageArg[r] EXCEPT !.todo = left, !.page = @ \cup add] = a
    BY <1>1 DEF PageArgs
  <2>4. Moved(r, label, a)
    BY <1>4, <2>1, <2>3, GoMoves DEF P!Labels
  <2>5. pageArg'[r] = a
    BY <2>4 DEF Moved
  <2> HIDE DEF a, left
  <2>6. Holds(label, a, allowed'[r], had'[r])
    BY <1>3, <1>4, <2>2, <2>5 DEF Holds, PageSeen, left
  <2>7. QED BY <2>4, <2>6, MoveHolds
<1>5. CASE P!IsChannelEnabled(r, item)
  <2> DEFINE label == IF left = {} THEN "shown" ELSE "channel"
             add == {item} \cap P!Enabled(pageArg[r].user)
  <2>1. pageArg[r].call = "notify" /\ preference' = preference
    BY <1>1, <1>5 DEF P!IsChannelEnabled, Places, P!rows
  <2>2. P!GoTo(r, label, [pageArg[r] EXCEPT !.todo = left, !.page = @ \cup add])
    BY <1>5 DEF P!IsChannelEnabled
  <2>3. pageArg'[r].call = pageArg[r].call /\ pageArg'[r].user = pageArg[r].user =>
            add \subseteq allowed'[r] \cap had'[r]
    BY <1>3, <2>1 DEF PageSeen, P!Enabled
  <2>4. label \in {"shown", "channel"} /\ add \in SUBSET {item}
    OBVIOUS
  <2> HIDE DEF label, add, left
  <2>5. QED BY <1>4, <2>1, <2>2, <2>3, <2>4 DEF left
<1>6. CASE P!Section(r, item)
  <2> DEFINE add == {item} \cap content[pageArg[r].user]
  <2>1. pageArg[r].call = "page" /\ content' = content /\ item \in allowed[r] /\ pagePc[r] = "section"
    BY <1>1, <1>3, <1>6 DEF P!Section, Places, P!rows, Holds
  <2>2. P!GoTo(r, "section", [pageArg[r] EXCEPT !.todo = left, !.page = @ \cup add])
    <3>1. P!GoTo(r, "section", [pageArg[r] EXCEPT !.todo = @ \ {item}, !.page = @ \cup add])
      BY <1>6 DEF P!Section
    <3>2. [pageArg[r] EXCEPT !.todo = @ \ {item}, !.page = @ \cup add]
             = [pageArg[r] EXCEPT !.todo = left, !.page = @ \cup add]
      BY <1>1 DEF PageArgs
    <3>3. QED BY <3>1, <3>2
  <2>3. pageArg'[r].call = pageArg[r].call /\ pageArg'[r].user = pageArg[r].user =>
            add \subseteq allowed'[r] \cap had'[r]
    BY <1>3, <2>1 DEF PageSeen
  <2>4. add \in SUBSET {item}
    OBVIOUS
  <2> HIDE DEF add, left
  <2>5. QED BY <1>4, <2>1, <2>2, <2>3, <2>4 DEF left
<1>7. QED BY <1>5, <1>6

LEMMA BeginsHolds ==
    ASSUME PageShape, PageShape', Holding, P!Next, NEW r \in PageRequests, UpdateBegins(r) \/ ReadBegins(r)
    PROVE  Holding'
<1>0. {"find", "write", "insertPreference", "writePreference", "channel", "shown", "listed"}
         \subseteq P!Labels \ {"section", "taken"}
  BY DEF P!Labels
<1>1. ASSUME NEW label \in P!Labels \ {"section", "taken"}, NEW a \in PageArgs, a.page = {},
             P!BeginUpdate(r, label, a)
      PROVE  Holding'
  <2>1. PICK alone \in BOOLEAN : Moved(r, label, [a EXCEPT !.alone = alone])
    BY <1>1, BeginMoves
  <2>2. [a EXCEPT !.alone = alone].page = {}
    BY <1>1 DEF PageArgs
  <2>3. Holds(label, [a EXCEPT !.alone = alone], allowed'[r], had'[r])
    BY <2>2 DEF Holds
  <2>4. QED BY <2>1, <2>3, MoveHolds
<1>2. ASSUME NEW label \in P!Labels \ {"section", "taken"}, NEW a \in PageArgs, P!Begin(r, label, a),
             a.call # "none", pageArg'[r] = a => a.page \subseteq allowed'[r] \cap had'[r]
      PROVE  Holding'
  <2>1. Moved(r, label, a)
    BY <1>2, GoMoves DEF P!Begin
  <2>2. Holds(label, a, allowed'[r], had'[r])
    BY <1>2, <2>1 DEF Holds, Moved
  <2>3. QED BY <2>1, <2>2, MoveHolds
<1>3. CASE UpdateBegins(r)
  <2>1. ASSUME NEW u \in Members, NEW patch \in SUBSET (Sections \X BOOLEAN),
               NEW h \in Handles \cup {Nobody, "keep"}, P!BeginUpdate(r, "find", SettingsBegun(u, patch, h))
        PROVE  Holding'
    BY <1>0, <1>1, <2>1, SettingsBegunType
  <2>2. ASSUME NEW u \in Members, NEW patch \in SUBSET (P!Fields \X BOOLEAN),
               <<"legalName", FALSE>> \notin patch, P!BeginUpdate(r, "write", ProfileBegun(u, patch))
        PROVE  Holding'
    BY <1>0, <1>1, <2>2, ProfileBegunType
  <2>3. ASSUME NEW u \in Members, NEW c \in P!Channels, NEW on \in BOOLEAN,
               NEW label \in {"insertPreference", "writePreference"},
               P!BeginUpdate(r, label, PreferenceBegun(u, c, on))
        PROVE  Holding'
    BY <1>0, <1>1, <2>3, PreferenceBegunType
  <2>4. QED BY <1>3, <2>1, <2>2, <2>3 DEF UpdateBegins
<1>4. CASE ReadBegins(r)
  <2>1. UNCHANGED P!rows /\ PageSeen(r)
    BY <1>4, AllSeen DEF ReadBegins, P!Begin
  <2>2. ASSUME NEW u \in Members, P!Begin(r, "channel", NotifyBegun(u)) PROVE Holding'
    <3>1. NotifyBegun(u).call # "none"
      BY DEF NotifyBegun, P!NoArg
    <3>2. QED BY <1>0, <1>2, <2>2, <3>1, ReadBegunType
  <2>3. ASSUME NEW u \in Members, P!Begin(r, "find", PageBegun(u)) PROVE Holding'
    <3>1. PageBegun(u).call # "none"
      BY DEF PageBegun, P!NoArg
    <3>2. QED BY <1>0, <1>2, <2>3, <3>1, ReadBegunType
  <2>4. ASSUME NEW u \in Members, NEW s \in Awards, P!Begin(r, "shown", CodeBegun(u, s)) PROVE Holding'
    <3>1. /\ CodeBegun(u, s).call = "code" /\ CodeBegun(u, s).user = u
          /\ CodeBegun(u, s).page = P!Verified(u, s) /\ CodeBegun(u, s) \in PageArgs
      BY ReadBegunType
    <3>2. pageArg'[r] = CodeBegun(u, s) => P!Verified(u, s) \subseteq allowed'[r] \cap had'[r]
      BY <2>1, <3>1 DEF PageSeen, P!Verified, P!rows
    <3>3. QED BY <1>0, <1>2, <2>4, <3>1, <3>2
  <2>5. CASE P!Begin(r, "listed", ListBegun)
    <3>1. pageArg'[r] = ListBegun => {u \in Members : P!Open(u)} \subseteq allowed'[r] \cap had'[r]
      BY <2>1, ListBegunType DEF PageSeen, P!Open, P!rows
    <3>2. QED BY <1>0, <1>2, <2>5, <3>1, ListBegunType
  <2>6. QED BY <1>4, <2>2, <2>3, <2>4, <2>5 DEF ReadBegins
<1>5. QED BY <1>3, <1>4

LEMMA ContentHolds ==
    ASSUME PageShape, PageShape', Holding, P!Next, NEW u \in Members, NEW s \in Sections, P!ContentChanges(u, s)
    PROVE  Holding'
<1>1. pagePc' = pagePc /\ pageArg' = pageArg
  BY DEF P!ContentChanges, P!callVars
<1>2. ASSUME NEW q \in PageRequests
      PROVE  Holds(pagePc[q], pageArg[q], allowed'[q], had'[q])
  <2>1. /\ Holds(pagePc[q], pageArg[q], allowed[q], had[q]) /\ PageSeen(q)
        /\ (pageArg[q].call = "none" => pagePc[q] = "idle")
    BY AllSeen, PageLocalsTyped DEF Holding, PageLocalsOK, Places
  <2>2. QED BY <1>1, <2>1 DEF Holds, PageSeen
<1>3. QED BY <1>1, <1>2 DEF Holding, Holds

LEMMA NextHolds == PageShape /\ PageShape' /\ Holding /\ P!Next => Holding'
<1> SUFFICES ASSUME PageShape, PageShape', Holding, P!Next PROVE Holding'
  OBVIOUS
<1>1. ASSUME NEW r \in PageRequests, P!Continue(r) PROVE Holding'
  BY <1>1, FindHolds, TakenHolds, WriteHolds, ReadingHolds DEF P!Continue
<1>2. QED BY <1>1, NextStepped, BeginsHolds, ContentHolds, WriteHolds DEF Stepped

LEMMA HoldingStays == PageShape /\ Holding /\ [P!Next]_P!vars => PageShape' /\ Holding'
<1>1. PageShape /\ Holding /\ P!Next => PageShape' /\ Holding'
  BY NextStepped, SteppedShape, NextHolds
<1>2. PageShape /\ Holding /\ UNCHANGED P!vars => PageShape' /\ Holding'
  BY DEF PageShape, PageTablesOK, PageLocalsOK, Holding, Holds, P!vars, P!rows, P!callVars
<1>3. QED BY <1>1, <1>2

LEMMA InitHolds == P!Init => Holding
  BY NoArgType DEF P!Init, Holding, Holds

\* PRIVACY_MODEL.md, "Members control visibility flags": what a page or the
\* directory shows, and where a notification goes, was allowed at some moment of
\* the call, however settings change while it is built.
THEOREM PagesShow == PrivacySpec => []PagesFollowTheFlags
<1>1. P!Init => PageShape /\ Holding
  BY InitShape, InitHolds
<1>2. PageShape /\ Holding => PagesFollowTheFlags
  BY DEF Holding, Holds, PagesFollowTheFlags, P!PagesFollowTheFlags
<1>3. QED BY <1>1, <1>2, HoldingStays, PTL DEF PrivacySpec, P!Spec

-----------------------------------------------------------------------------
(* Updates that were alone stick *)

LEMMA SameSticks ==
    ASSUME NEW rowOf, NEW flags, NEW switches, NEW label, NEW a, NEW b, Same(b, a),
           Sticks(rowOf, flags, switches, label, a)
    PROVE  Sticks(rowOf, flags, switches, label, b)
  BY DEF Same, Sticks, SettingsStick, ProfileSticks, PreferenceSticks

LEMMA MoveSticks ==
    ASSUME Sticking, NEW r \in PageRequests, NEW label, NEW a, Moved(r, label, a),
           a.call \in Updates => \A q \in PageRequests \ {r} : pageArg'[q].alone => Apart(pageArg[q], a),
           a.call \in Updates /\ a.alone =>
              /\ \A q \in PageRequests \ {r} : Apart(pageArg[q], a)
              /\ Sticks(settings', memberProfile', preference', label, a),
           \A q \in PageRequests \ {r} : pageArg[q].alone /\ pageArg[q].call \in Updates =>
              Sticks(settings', memberProfile', preference', pagePc[q], pageArg[q])
    PROVE  Sticking'
<1>1. ASSUME NEW q \in PageRequests, pageArg'[q].alone, pageArg'[q].call \in Updates
      PROVE  /\ \A s \in PageRequests \ {q} : Apart(pageArg'[s], pageArg'[q])
             /\ Sticks(settings', memberProfile', preference', pagePc'[q], pageArg'[q])
  <2>1. CASE q = r
    BY <1>1, <2>1 DEF Moved, Same, Apart
  <2>2. CASE q # r
    <3>1. pagePc'[q] = pagePc[q] /\ Same(pageArg'[q], pageArg[q])
      BY <2>2 DEF Moved
    <3>2. pageArg[q].alone /\ pageArg[q].call \in Updates
      BY <1>1, <3>1 DEF Same
    <3>3. \A s \in PageRequests \ {q} : Apart(pageArg[s], pageArg[q])
      BY <3>2 DEF Sticking
    <3>4. \A s \in PageRequests \ {q} : Apart(pageArg'[s], pageArg'[q])
      <4>1. ASSUME NEW s \in PageRequests \ {q}, s # r PROVE Apart(pageArg'[s], pageArg'[q])
        BY <3>1, <3>3, <4>1 DEF Moved, Same, Apart
      <4>2. Apart(pageArg'[r], pageArg'[q])
        BY <1>1, <2>2, <3>1 DEF Moved, Same, Apart
      <4>3. QED BY <4>1, <4>2
    <3>5. QED BY <2>2, <3>1, <3>2, <3>4, SameSticks
  <2>3. QED BY <2>1, <2>2
<1>2. QED BY <1>1 DEF Sticking, Sticks, SettingsStick, ProfileSticks, PreferenceSticks, Base, Apart

\* The same for a step that stays in its call.
LEMMA StayingSticks ==
    ASSUME Sticking, NEW r \in PageRequests, NEW label, NEW a, Moved(r, label, a),
           a.call = pageArg[r].call /\ a.user = pageArg[r].user /\ a.alone = pageArg[r].alone,
           a.call \in Updates /\ pageArg[r].alone => Sticks(settings', memberProfile', preference', label, a),
           \A q \in PageRequests \ {r} : pageArg[q].alone /\ pageArg[q].call \in Updates =>
              Sticks(settings', memberProfile', preference', pagePc[q], pageArg[q])
    PROVE  Sticking'
<1>1. a.call \in Updates => \A q \in PageRequests \ {r} : pageArg'[q].alone => Apart(pageArg[q], a)
  BY DEF Sticking, Moved, Same, Apart
<1>2. a.call \in Updates /\ a.alone => \A q \in PageRequests \ {r} : Apart(pageArg[q], a)
  BY DEF Sticking, Apart
<1>3. QED BY <1>1, <1>2, MoveSticks

LEMMA KeptSticks ==
    ASSUME Sticking, UNCHANGED <<settings, memberProfile, preference>>, NEW q \in PageRequests,
           pageArg[q].alone, pageArg[q].call \in Updates
    PROVE  Sticks(settings', memberProfile', preference', pagePc[q], pageArg[q])
  BY DEF Sticking

LEMMA ReturnSticks ==
    ASSUME PageShape, Sticking, NEW r \in PageRequests, P!Return(r), UNCHANGED <<settings, memberProfile, preference>>
    PROVE  Sticking'
<1>1. Moved(r, "idle", P!NoArg) /\ P!NoArg.call \notin Updates
  BY ReturnMoves, NoArgType DEF Updates
<1>2. QED BY <1>1, KeptSticks, MoveSticks

\* A step within a call that is no update, and writes nothing.
LEMMA ReadingSticks ==
    ASSUME PageShape, Sticking, NEW r \in PageRequests, NEW label \in P!Labels, NEW a \in PageArgs,
           P!GoTo(r, label, a),
           a.call = pageArg[r].call /\ a.user = pageArg[r].user /\ a.alone = pageArg[r].alone,
           a.call \notin Updates, UNCHANGED P!rows
    PROVE  Sticking'
<1>1. Moved(r, label, a)
  BY GoMoves
<1>2. UNCHANGED <<settings, memberProfile, preference>>
  BY DEF P!rows
<1>3. QED BY <1>1, <1>2, KeptSticks, StayingSticks

LEMMA FindSticks ==
    ASSUME PageShape, Sticking, NEW r \in PageRequests, P!Find(r) \/ P!FindAgain(r)
    PROVE  Sticking'
<1> DEFINE s == settings[pageArg[r].user]
           a == [pageArg[r] EXCEPT !.read = s]
<1>1. <<pagePc[r], pageArg[r].call>> \in Places /\ pagePc[r] \in {"find", "again"}
  BY PageLocalsTyped DEF PageLocalsOK, P!Find, P!FindAgain
<1>2. pageArg[r].call \in {"settings", "page"} /\ pageArg[r].user \in Members
  BY <1>1, PageLocalsTyped DEF Places
<1>3. s \in RowTypes /\ pageArg[r] \in PageArgs
  BY <1>2, PageLocalsTyped DEF PageTablesOK
<1>4. a \in PageArgs
  BY <1>3 DEF PageArgs
<1>5. /\ a.call = pageArg[r].call /\ a.user = pageArg[r].user /\ a.alone = pageArg[r].alone /\ a.read = s
      /\ a.want = pageArg[r].want /\ a.patch = pageArg[r].patch /\ a.handle = pageArg[r].handle
  BY <1>3 DEF PageArgs
<1>6. UNCHANGED <<settings, memberProfile, preference>>
  BY DEF P!Find, P!FindAgain, P!rows
<1>7. pageArg[r].alone /\ pageArg[r].call \in Updates => SettingsStick(settings, pagePc[r], pageArg[r])
  BY <1>2 DEF Sticking, Sticks, Updates
<1>8. CASE P!GoTo(r, "taken", a) /\ s.exists
  <2>1. Moved(r, "taken", a)
    BY <1>4, <1>8, GoMoves DEF P!Labels
  <2> HIDE DEF a
  <2>2. a.call \in Updates /\ pageArg[r].alone => Sticks(settings', memberProfile', preference', "taken", a)
    BY <1>1, <1>2, <1>5, <1>6, <1>7, <1>8 DEF Sticks, SettingsStick
  <2>3. QED BY <1>5, <1>6, <2>1, <2>2, KeptSticks, StayingSticks
<1>9. CASE P!Step(r, "insert")
  <2>1. Moved(r, "insert", pageArg[r])
    BY <1>9, StepMoves DEF P!Labels
  <2>2. pageArg[r].call \in Updates /\ pageArg[r].alone =>
            Sticks(settings', memberProfile', preference', "insert", pageArg[r])
    BY <1>1, <1>2, <1>6, <1>7 DEF Sticks, SettingsStick
  <2>3. QED BY <1>6, <2>1, <2>2, KeptSticks, StayingSticks
<1>10. pagePc[r] = "again" => s.exists
  BY DEF PageShape
<1>11. QED BY <1>8, <1>9, <1>10 DEF P!Find, P!FindAgain

\* The row is made as an update takes it to be, whoever makes it.
LEMMA InsertSticks ==
    ASSUME PageShape, Sticking, NEW r \in PageRequests, P!Insert(r)
    PROVE  Sticking'
<1> DEFINE u == pageArg[r].user
<1>1. u \in Members /\ pageArg[r] \in PageArgs /\ pageArg[r].call \in {"settings", "page"}
  BY PageLocalsTyped DEF P!Insert, PageLocalsOK, Places
<1>2. CASE P!Throw(r) /\ UNCHANGED settings
  BY <1>2, ReturnSticks DEF P!Insert, P!Throw
<1>3. CASE /\ ~settings[u].exists /\ settings' = [settings EXCEPT ![u] = P!NewSettings]
           /\ P!Step(r, "again")
  <2>1. Moved(r, "again", pageArg[r]) /\ UNCHANGED <<memberProfile, preference>> /\ pagePc[r] = "insert"
    BY <1>3, StepMoves DEF P!Labels, P!Insert
  <2>2. ASSUME NEW v \in Members
        PROVE  /\ Base(settings', v) = Base(settings, v)
               /\ settings[v].exists => settings'[v] = settings[v]
    BY <1>1, <1>3 DEF Base, P!NewSettings, PageShape, PageTablesOK
  <2>3. ASSUME NEW q \in PageRequests, pageArg[q].alone, pageArg[q].call \in Updates
        PROVE  Sticks(settings', memberProfile', preference', pagePc[q], pageArg[q])
    <3>1. Sticks(settings, memberProfile, preference, pagePc[q], pageArg[q]) /\ pageArg[q].user \in Members
      BY <2>3, PageLocalsTyped DEF Sticking, Updates
    <3>2. QED BY <2>1, <2>2, <3>1 DEF Sticks, SettingsStick
  <2>4. pageArg[r].call \in Updates /\ pageArg[r].alone =>
            Sticks(settings', memberProfile', preference', "again", pageArg[r])
    BY <2>1, <2>3, <1>1 DEF Sticks, SettingsStick
  <2>5. QED BY <2>1, <2>3, <2>4, StayingSticks
<1>4. QED BY <1>2, <1>3 DEF P!Insert

LEMMA TakenSticks ==
    ASSUME PageShape, Sticking, NEW r \in PageRequests, P!Taken(r)
    PROVE  Sticking'
<1> DEFINE a == [pageArg[r] EXCEPT !.todo = pageArg[r].read.shown]
<1>1. pageArg[r] \in PageArgs /\ pageArg[r].read \in RowTypes /\ pagePc[r] = "taken" /\ UNCHANGED P!rows
  BY PageLocalsTyped DEF P!Taken
<1>2. UNCHANGED <<settings, memberProfile, preference>>
  BY <1>1 DEF P!rows
<1>3. CASE pageArg[r].call = "page" /\ P!GoTo(r, "section", a)
  <2>1. pageArg[r].read.shown \in SUBSET Items
    BY <1>1 DEF RowTypes, Items
  <2>2. a \in PageArgs
    BY <1>1, <2>1 DEF PageArgs
  <2>3. a.call = pageArg[r].call /\ a.user = pageArg[r].user /\ a.alone = pageArg[r].alone
    BY <1>1 DEF PageArgs
  <2>4. a.call \notin Updates
    BY <1>3, <2>3 DEF Updates
  <2>5. QED BY <1>1, <1>3, <2>2, <2>3, <2>4, ReadingSticks DEF P!Labels
<1>4. CASE P!Throw(r)
  BY <1>2, <1>4, ReturnSticks DEF P!Throw
<1>5. CASE pageArg[r].call = "settings" /\ P!Step(r, "update")
  <2>1. Moved(r, "update", pageArg[r])
    BY <1>5, StepMoves DEF P!Labels
  <2>2. pageArg[r].call \in Updates /\ pageArg[r].alone =>
            Sticks(settings', memberProfile', preference', "update", pageArg[r])
    BY <1>1, <1>2, <1>5 DEF Sticking, Sticks, SettingsStick
  <2>3. QED BY <1>2, <2>1, <2>2, KeptSticks, StayingSticks
<1>6. QED BY <1>3, <1>4, <1>5 DEF P!Taken

LEMMA UpdateSticks ==
    ASSUME PageShape, Sticking, NEW r \in PageRequests, P!Update(r)
    PROVE  Sticking'
<1> DEFINE a == pageArg[r]
           row == P!PatchedSettings(a.read, a.patch, a.handle)
<1>1. a.user \in Members /\ a \in PageArgs /\ a.read \in RowTypes /\ a.call = "settings" /\ pagePc[r] = "update"
  BY PageLocalsTyped DEF P!Update, PageLocalsOK, Places
<1>2. CASE P!Throw(r) /\ UNCHANGED settings
  BY <1>2, ReturnSticks DEF P!Update, P!Throw
<1>3. CASE settings' = [settings EXCEPT ![a.user] = row] /\ P!Step(r, "done")
  <2>1. Moved(r, "done", a) /\ UNCHANGED <<memberProfile, preference>>
    BY <1>3, StepMoves DEF P!Labels, P!Update
  <2>2. row.exists /\ settings'[a.user] = row
    BY <1>1, <1>3 DEF P!PatchedSettings, PageShape, PageTablesOK
  <2>3. a.alone => a.want = row
    BY <1>1 DEF Sticking, Sticks, SettingsStick, Updates, Base
  <2> HIDE DEF row
  <2>4. a.alone => Sticks(settings', memberProfile', preference', "done", a)
    BY <1>1, <2>2, <2>3 DEF Sticks, SettingsStick
  <2>5. ASSUME NEW q \in PageRequests \ {r}, pageArg[q].alone, pageArg[q].call \in Updates
        PROVE  Sticks(settings', memberProfile', preference', pagePc[q], pageArg[q])
    <3>1. Apart(a, pageArg[q]) /\ Sticks(settings, memberProfile, preference, pagePc[q], pageArg[q])
      BY <2>5 DEF Sticking
    <3>2. pageArg[q].call = "settings" => settings'[pageArg[q].user] = settings[pageArg[q].user]
      BY <1>1, <1>3, <2>5, <3>1, PageLocalsTyped DEF Apart, Updates, PageShape, PageTablesOK
    <3>3. QED BY <2>1, <3>1, <3>2 DEF Sticks, SettingsStick, Base
  <2>6. QED BY <2>1, <2>4, <2>5, StayingSticks
<1>4. QED BY <1>2, <1>3 DEF P!Update

LEMMA ProfileUpdateSticks ==
    ASSUME PageShape, Sticking, NEW r \in PageRequests, P!Write(r) \/ P!Contact(r)
    PROVE  Sticking'
<1> DEFINE a == pageArg[r]
<1>1. /\ a.user \in Members /\ a \in PageArgs /\ a.read \in RowTypes /\ a.call = "profile"
      /\ PageLocalsOK(pagePc[r], a)
  BY PageLocalsTyped DEF P!Write, P!Contact, PageLocalsOK, Places
<1>2. PICK flags : memberProfile' = [memberProfile EXCEPT ![a.user] = flags] /\ UNCHANGED <<settings, preference>>
  BY DEF P!Write, P!Contact
<1>3. ASSUME NEW q \in PageRequests \ {r}, pageArg[q].alone, pageArg[q].call \in Updates
      PROVE  Sticks(settings', memberProfile', preference', pagePc[q], pageArg[q])
  <2>1. Apart(a, pageArg[q]) /\ Sticks(settings, memberProfile, preference, pagePc[q], pageArg[q])
    BY <1>3 DEF Sticking
  <2>2. pageArg[q].call = "profile" => memberProfile'[pageArg[q].user] = memberProfile[pageArg[q].user]
    BY <1>1, <1>2, <1>3, <2>1, PageLocalsTyped DEF Apart, Updates, PageShape, PageTablesOK
  <2>3. QED BY <1>2, <2>1, <2>2 DEF Sticks, ProfileSticks
<1>4. a.alone => ProfileSticks(memberProfile, pagePc[r], a)
  BY <1>1 DEF Sticking, Sticks, Updates
<1>5. CASE P!Write(r)
  <2> DEFINE set == (P!Patched(a.read.shown, a.patch) \ {"legalName"}) \cup (memberProfile[a.user] \cap {"legalName"})
  <2>1. memberProfile'[a.user] = set /\ pagePc[r] = "write"
    BY <1>1, <1>5 DEF P!Write, PageShape, PageTablesOK
  <2>2. a.alone => a.want.shown = P!Patched(a.read.shown, a.patch) /\ a.read.shown = memberProfile[a.user]
    BY <1>4, <2>1 DEF ProfileSticks
  <2>3. CASE <<"legalName", TRUE>> \in a.patch
    <3>1. Moved(r, "contact", a)
      BY <1>5, <2>3, StepMoves DEF P!Write, P!Labels
    <3>2. "legalName" \in P!Patched(a.read.shown, a.patch)
      BY <2>3 DEF P!Patched, P!Fields
    <3>3. set \cup {"legalName"} = P!Patched(a.read.shown, a.patch)
      BY <3>2
    <3> HIDE DEF set
    <3>4. a.alone => Sticks(settings', memberProfile', preference', "contact", a)
      BY <1>1, <2>1, <2>2, <3>3 DEF Sticks, ProfileSticks
    <3>5. QED BY <1>3, <3>1, <3>4, StayingSticks
  <2>4. CASE <<"legalName", TRUE>> \notin a.patch
    <3>1. Moved(r, "done", a)
      BY <1>5, <2>4, StepMoves DEF P!Write, P!Labels
    <3>2. "legalName" \in P!Patched(a.read.shown, a.patch) <=> "legalName" \in a.read.shown
      BY <1>1, <2>4 DEF P!Patched, PageLocalsOK
    <3>3. a.alone => set = P!Patched(a.read.shown, a.patch)
      BY <2>2, <3>2
    <3> HIDE DEF set
    <3>4. a.alone => Sticks(settings', memberProfile', preference', "done", a)
      BY <1>1, <2>1, <2>2, <3>3 DEF Sticks, ProfileSticks
    <3>5. QED BY <1>3, <3>1, <3>4, StayingSticks
  <2>5. QED BY <2>3, <2>4
<1>6. CASE P!Contact(r)
  <2>1. Moved(r, "done", a) /\ pagePc[r] = "contact"
    BY <1>6, StepMoves DEF P!Contact, P!Labels
  <2>2. memberProfile'[a.user] = memberProfile[a.user] \cup {"legalName"}
    BY <1>1, <1>6 DEF P!Contact, PageShape, PageTablesOK
  <2>3. a.alone => Sticks(settings', memberProfile', preference', "done", a)
    BY <1>1, <1>4, <2>1, <2>2 DEF Sticks, ProfileSticks
  <2>4. QED BY <1>3, <2>1, <2>3, StayingSticks
<1>7. QED BY <1>5, <1>6

LEMMA PreferenceUpdateSticks ==
    ASSUME PageShape, Sticking, NEW r \in PageRequests, P!InsertPreference(r) \/ P!WritePreference(r)
    PROVE  Sticking'
<1> DEFINE a == pageArg[r]
<1>1. a.user \in Members /\ a \in PageArgs /\ a.call = "preference" /\ PageLocalsOK(pagePc[r], a)
  BY PageLocalsTyped DEF P!InsertPreference, P!WritePreference, PageLocalsOK, Places
<1>2. CASE P!Throw(r) /\ UNCHANGED preference
  BY <1>2, ReturnSticks DEF P!InsertPreference, P!WritePreference, P!Throw
<1>3. CASE P!SetPreference(a.user, a.patch) /\ P!Step(r, "done")
  <2>1. UNCHANGED <<settings, memberProfile, content>>
    BY DEF P!InsertPreference, P!WritePreference
  <2>2. /\ \A v \in Members \ {a.user} : preference'[v] = preference[v]
        /\ \A c \in P!Channels :
               (\E x \in a.patch : x[1] = c) => preference'[a.user][c] = P!Switched(a.patch, c)
    BY <1>1, <1>3, <2>1, SetPreferenceKeeps
  <2>3. Moved(r, "done", a)
    BY <1>3, StepMoves DEF P!Labels
  <2>4. Sticks(settings', memberProfile', preference', "done", a)
    <3>1. PICK c \in P!Channels, on \in BOOLEAN : a.patch = {<<c, on>>}
      BY <1>1 DEF PageLocalsOK
    <3>2. \A x \in a.patch : x[1] \in P!Channels
      BY <3>1
    <3>3. QED BY <1>1, <2>2, <3>2 DEF Sticks, PreferenceSticks
  <2>5. ASSUME NEW q \in PageRequests \ {r}, pageArg[q].alone, pageArg[q].call \in Updates
        PROVE  Sticks(settings', memberProfile', preference', pagePc[q], pageArg[q])
    <3>1. Apart(a, pageArg[q]) /\ Sticks(settings, memberProfile, preference, pagePc[q], pageArg[q])
      BY <2>5 DEF Sticking
    <3>2. pageArg[q].call = "preference" => preference'[pageArg[q].user] = preference[pageArg[q].user]
      BY <1>1, <2>2, <2>5, <3>1, PageLocalsTyped DEF Apart, Updates
    <3>3. QED BY <2>1, <3>1, <3>2 DEF Sticks, PreferenceSticks
  <2>6. QED BY <2>3, <2>4, <2>5, StayingSticks
<1>4. QED BY <1>2, <1>3 DEF P!InsertPreference, P!WritePreference

LEMMA ShowingSticks ==
    ASSUME PageShape, Sticking, NEW r \in PageRequests,
           NEW item \in P!Channels \cup Sections, P!IsChannelEnabled(r, item) \/ P!Section(r, item)
    PROVE  Sticking'
<1>1. pageArg[r] \in PageArgs /\ <<pagePc[r], pageArg[r].call>> \in Places /\ item \in Items /\ UNCHANGED P!rows
  BY PageLocalsTyped DEF P!IsChannelEnabled, P!Section, PageLocalsOK, Items, Things
<1>2. pageArg[r].todo \in SUBSET Items /\ pageArg[r].page \in SUBSET Items /\ pageArg[r].call \notin Updates
  BY <1>1 DEF PageArgs, P!IsChannelEnabled, P!Section, Places, Updates
<1>3. PICK label \in {"shown", "channel", "section"}, add \in SUBSET {item} :
         P!GoTo(r, label, [pageArg[r] EXCEPT !.todo = @ \ {item}, !.page = @ \cup add])
  <2>1. CASE P!IsChannelEnabled(r, item)
    <3> DEFINE left == pageArg[r].todo \ {item}
               label == IF left = {} THEN "shown" ELSE "channel"
               add == {item} \cap P!Enabled(pageArg[r].user)
    <3>1. P!GoTo(r, label, [pageArg[r] EXCEPT !.todo = left, !.page = @ \cup add])
      BY <2>1 DEF P!IsChannelEnabled
    <3>2. [pageArg[r] EXCEPT !.todo = left, !.page = @ \cup add]
             = [pageArg[r] EXCEPT !.todo = @ \ {item}, !.page = @ \cup add]
      BY <1>1 DEF PageArgs
    <3>3. label \in {"shown", "channel", "section"} /\ add \in SUBSET {item}
      OBVIOUS
    <3> HIDE DEF left, label, add
    <3>4. QED BY <3>1, <3>2, <3>3
  <2>2. CASE P!Section(r, item)
    BY <2>2 DEF P!Section
  <2>3. QED BY <2>1, <2>2
<1> DEFINE a == [pageArg[r] EXCEPT !.todo = @ \ {item}, !.page = @ \cup add]
<1>4. a \in PageArgs
  BY <1>1, <1>2 DEF PageArgs
<1>5. a.call = pageArg[r].call /\ a.user = pageArg[r].user /\ a.alone = pageArg[r].alone
  BY <1>1 DEF PageArgs
<1>6. label \in P!Labels
  BY DEF P!Labels
<1> HIDE DEF a
<1>7. QED BY <1>1, <1>2, <1>3, <1>4, <1>5, <1>6, ReadingSticks DEF a

LEMMA EndSticks ==
    ASSUME PageShape, Sticking, NEW r \in PageRequests, P!ShowPage(r) \/ P!Finish(r) \/ P!Crash(r)
    PROVE  Sticking'
<1>1. UNCHANGED P!rows
  BY DEF P!ShowPage, P!Finish, P!Crash
<1>2. CASE P!Return(r)
  BY <1>1, <1>2, ReturnSticks DEF P!rows
<1>3. CASE pagePc[r] = "section" /\ P!Step(r, "shown")
  <2>1. pageArg[r].call \notin Updates /\ pageArg[r] \in PageArgs
    BY <1>3, PageLocalsTyped DEF PageLocalsOK, Places, Updates
  <2>2. QED BY <1>1, <1>3, <2>1, ReadingSticks DEF P!Step, P!Labels
<1>4. QED BY <1>2, <1>3 DEF P!ShowPage, P!Finish, P!Crash

LEMMA BeginsSticks ==
    ASSUME PageShape, Sticking, NEW r \in PageRequests, UpdateBegins(r) \/ ReadBegins(r)
    PROVE  Sticking'
<1>0. {"find", "write", "insertPreference", "writePreference", "channel", "shown", "listed"}
         \subseteq P!Labels \ {"done"}
  BY DEF P!Labels
<1>1. ASSUME NEW label \in P!Labels, NEW a \in PageArgs, P!BeginUpdate(r, label, a),
             Sticks(settings, memberProfile, preference, label, a)
      PROVE  Sticking'
  <2>1. PICK alone \in BOOLEAN :
           /\ Moved(r, label, [a EXCEPT !.alone = alone])
           /\ alone => \A q \in PageRequests : pageArg[q].call # a.call \/ pageArg[q].user # a.user
           /\ \A q \in PageRequests \ {r} :
                 pageArg'[q].alone => pageArg[q].call # a.call \/ pageArg[q].user # a.user
    BY <1>1, BeginMoves
  <2> DEFINE b == [a EXCEPT !.alone = alone]
  <2>2. /\ b.call = a.call /\ b.user = a.user /\ b.patch = a.patch /\ b.handle = a.handle
        /\ b.read = a.read /\ b.want = a.want /\ b.alone = alone
    BY DEF PageArgs
  <2>3. Moved(r, label, b)
    BY <2>1
  <2> HIDE DEF b
  <2>4. Sticks(settings, memberProfile, preference, label, b)
    BY <1>1, <2>2 DEF Sticks, SettingsStick, ProfileSticks, PreferenceSticks
  <2>5. UNCHANGED <<settings, memberProfile, preference>>
    BY <1>1 DEF P!BeginUpdate, P!rows
  <2>6. /\ \A q \in PageRequests \ {r} : pageArg'[q].alone => Apart(pageArg[q], b)
        /\ b.alone => \A q \in PageRequests \ {r} : Apart(pageArg[q], b)
    BY <2>1, <2>2 DEF Apart
  <2>7. Sticks(settings', memberProfile', preference', label, b)
    BY <2>4, <2>5
  <2>8. QED BY <2>3, <2>5, <2>6, <2>7, KeptSticks, MoveSticks
<1>2. ASSUME NEW label \in P!Labels, NEW a \in PageArgs, P!Begin(r, label, a), a.call \notin Updates
      PROVE  Sticking'
  <2>1. Moved(r, label, a) /\ UNCHANGED <<settings, memberProfile, preference>>
    BY <1>2, GoMoves DEF P!Begin, P!rows
  <2>2. QED BY <1>2, <2>1, KeptSticks, MoveSticks
<1>3. CASE UpdateBegins(r)
  <2>1. ASSUME NEW u \in Members, NEW patch \in SUBSET (Sections \X BOOLEAN),
               NEW h \in Handles \cup {Nobody, "keep"}, P!BeginUpdate(r, "find", SettingsBegun(u, patch, h))
        PROVE  Sticking'
    <3> DEFINE a == SettingsBegun(u, patch, h)
    <3>1. /\ a \in PageArgs /\ a.call = "settings" /\ a.user = u /\ a.patch = patch /\ a.handle = h
          /\ a.want = P!PatchedSettings(Base(settings, u), patch, h)
      BY SettingsBegunType, Z3T(20)
    <3> HIDE DEF a
    <3>2. Sticks(settings, memberProfile, preference, "find", a)
      BY <3>1 DEF Sticks, SettingsStick
    <3>3. QED BY <1>0, <1>1, <2>1, <3>1, <3>2 DEF a
  <2>2. ASSUME NEW u \in Members, NEW patch \in SUBSET (P!Fields \X BOOLEAN),
               <<"legalName", FALSE>> \notin patch, P!BeginUpdate(r, "write", ProfileBegun(u, patch))
        PROVE  Sticking'
    <3> DEFINE a == ProfileBegun(u, patch)
    <3>1. /\ a \in PageArgs /\ a.call = "profile" /\ a.user = u /\ a.patch = patch
          /\ a.read.shown = memberProfile[u] /\ a.want.shown = P!Patched(memberProfile[u], patch)
      BY <2>2, ProfileBegunType
    <3> HIDE DEF a
    <3>2. Sticks(settings, memberProfile, preference, "write", a)
      BY <3>1 DEF Sticks, ProfileSticks
    <3>3. QED BY <1>0, <1>1, <2>2, <3>1, <3>2 DEF a
  <2>3. ASSUME NEW u \in Members, NEW c \in P!Channels, NEW on \in BOOLEAN,
               NEW label \in {"insertPreference", "writePreference"},
               P!BeginUpdate(r, label, PreferenceBegun(u, c, on))
        PROVE  Sticking'
    <3> DEFINE a == PreferenceBegun(u, c, on)
    <3>1. a \in PageArgs /\ a.call = "preference"
      BY PreferenceBegunType
    <3> HIDE DEF a
    <3>2. Sticks(settings, memberProfile, preference, label, a)
      BY <3>1 DEF Sticks, PreferenceSticks
    <3>3. QED BY <1>0, <1>1, <2>3, <3>1, <3>2 DEF a
  <2>4. QED BY <1>3, <2>1, <2>2, <2>3 DEF UpdateBegins
<1>4. CASE ReadBegins(r)
  <2>1. ASSUME NEW u \in Members, NEW s
        PROVE  /\ NotifyBegun(u).call \notin Updates /\ PageBegun(u).call \notin Updates
               /\ CodeBegun(u, s).call \notin Updates
    BY DEF NotifyBegun, PageBegun, CodeBegun, P!NoArg, Updates
  <2>2. ListBegun.call \notin Updates
    BY DEF ListBegun, P!NoArg, Updates
  <2>3. ASSUME NEW u \in Members, NEW s \in Awards,
               \/ P!Begin(r, "channel", NotifyBegun(u)) \/ P!Begin(r, "find", PageBegun(u))
               \/ P!Begin(r, "shown", CodeBegun(u, s))
        PROVE  Sticking'
    BY <1>0, <1>2, <2>1, <2>3, ReadBegunType
  <2>4. ASSUME NEW u \in Members, P!Begin(r, "channel", NotifyBegun(u)) \/ P!Begin(r, "find", PageBegun(u))
        PROVE  Sticking'
    BY <1>0, <1>2, <2>1, <2>4, ReadBegunType
  <2>5. CASE P!Begin(r, "listed", ListBegun)
    BY <1>0, <1>2, <2>2, <2>5, ListBegunType
  <2>6. QED BY <1>4, <2>3, <2>4, <2>5 DEF ReadBegins
<1>5. QED BY <1>3, <1>4

LEMMA ContentSticks ==
    ASSUME Sticking, NEW u \in Members, NEW s \in Sections, P!ContentChanges(u, s)
    PROVE  Sticking'
<1>1. /\ pagePc' = pagePc /\ pageArg' = pageArg /\ settings' = settings /\ memberProfile' = memberProfile
      /\ preference' = preference
  BY DEF P!ContentChanges, P!callVars
<1>2. QED BY <1>1 DEF Sticking, Sticks, SettingsStick, ProfileSticks, PreferenceSticks, Base, Apart

LEMMA StickingStays == PageShape /\ Sticking /\ [P!Next]_P!vars => PageShape' /\ Sticking'
<1>1. ASSUME PageShape, Sticking, NEW r \in PageRequests, P!Continue(r) PROVE Sticking'
  BY <1>1, FindSticks, InsertSticks, TakenSticks, UpdateSticks, ProfileUpdateSticks,
     PreferenceUpdateSticks, ShowingSticks, EndSticks DEF P!Continue
<1>2. PageShape /\ Sticking /\ P!Next => PageShape' /\ Sticking'
  BY <1>1, NextStepped, SteppedShape, BeginsSticks, ContentSticks, EndSticks DEF Stepped
<1>3. PageShape /\ Sticking /\ UNCHANGED P!vars => PageShape' /\ Sticking'
  BY DEF PageShape, PageTablesOK, PageLocalsOK, Sticking, Sticks, SettingsStick, ProfileSticks,
         PreferenceSticks, Base, Apart, P!vars, P!rows, P!callVars
<1>4. QED BY <1>2, <1>3

LEMMA InitSticks == P!Init => Sticking
  BY NoArgType DEF P!Init, Sticking, Updates

LEMMA StickingSticks == PageShape /\ Sticking => P!QuietUpdatesStick
<1>1. ASSUME PageShape, Sticking, NEW r \in PageRequests, pagePc[r] = "done", pageArg[r].alone
      PROVE  /\ pageArg[r].call \in Updates
             /\ Sticks(settings, memberProfile, preference, "done", pageArg[r])
  BY <1>1, PageLocalsTyped DEF PageLocalsOK, Places, Updates, Sticking
<1>2. QED BY <1>1
     DEF P!QuietUpdatesStick, Sticks, SettingsStick, ProfileSticks, PreferenceSticks, Updates

\* updatePublicProfileSettings, updateOwnProfile and updateNotificationPreference:
\* an update that none of the same row overlapped leaves what was asked for, and
\* in the rest what stood there, whoever makes the row meanwhile.
THEOREM UpdatesStick == PrivacySpec => []QuietUpdatesStick
<1>1. P!Init => PageShape /\ Sticking
  BY InitShape, InitSticks
<1>2. PageShape /\ Sticking => QuietUpdatesStick
  BY StickingSticks DEF QuietUpdatesStick
<1>3. QED BY <1>1, <1>2, StickingStays, PTL DEF PrivacySpec, P!Spec
=============================================================================
