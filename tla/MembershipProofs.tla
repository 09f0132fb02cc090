-------------------------- MODULE MembershipProofs --------------------------
(***************************************************************************)
(* The safety properties of Membership.tla for every set of users, types,  *)
(* rows and requests, and then those of Catalogs.tla, which has the types. *)
(***************************************************************************)
EXTENDS Membership, Sequences, CatalogsView, TLAPS

\* An inserted application has an applicant and a type; a membership column
\* is filled only in an inserted row.
RowsWellFormed ==
    /\ \A a \in Applications : Submitted(a) => appOwner[a] \in Users /\ appType[a] \in Types
    /\ \A m \in Memberships : memApp[m] # None => Issued(m)

\* What the locals a of a call hold at each of its labels.
LocalsOK(label, a) ==
    /\ label \in {"createActive", "createInsert"} =>
          a.user \in Users /\ a.type \in Types /\ a.to \in {"draft", "submitted"}
    /\ label = "update" => a.app \in Applications /\ a.type \in Types
    /\ label = "transition" =>
          /\ a.app \in Applications /\ Submitted(a.app)
          /\ a.to \in ApplicationStatus \ {"approved"}
    /\ label \in {"lockRow", "issueInsert", "audit"} =>
          /\ a.app # None => a.app \in Applications /\ Submitted(a.app)
          /\ a.user \in Users /\ a.type \in Types
    /\ label = "audit" => a.mem \in Memberships
    /\ label \in {"reactivateRead", "changeWrite"} => a.mem \in Memberships /\ Issued(a.mem)
    /\ label = "changeWrite" => a.to \in MembershipStatus
    /\ label \in {"issued", "changed"} => a.mem \in Memberships /\ Issued(a.mem)

CallsWellFormed == \A r \in Requests : LocalsOK(pc[r], arg[r])

Shape == TypeOK /\ RowsWellFormed /\ CallsWellFormed

\* No row is ever deleted.
RowsKept ==
    /\ \A a \in Applications : Submitted(a) => Submitted(a)'
    /\ \A m \in Memberships : Issued(m) => Issued(m)'

-----------------------------------------------------------------------------
(* Calls *)

LEMMA NoArgIsArg == NoArg \in Args
  BY DEF NoArg, Args

\* Going to a label with well-typed locals keeps the calls well typed.
LEMMA GoToTyped ==
  ASSUME TypeOK, NEW r \in Requests, NEW label \in Labels, NEW a \in Args,
         GoTo(r, label, a)
  PROVE  /\ pc' \in [Requests -> Labels]
         /\ arg' \in [Requests -> Args]
         /\ conn' \subseteq Requests
  BY DEF TypeOK, GoTo

\* A step of one call leaves the others where they are.
LEMMA OthersStay ==
  ASSUME TypeOK, NEW r \in Requests, NEW label, NEW a, GoTo(r, label, a)
  PROVE  /\ pc'[r] = label /\ arg'[r] = a
         /\ \A q \in Requests \ {r} : pc'[q] = pc[q] /\ arg'[q] = arg[q]
  BY DEF TypeOK, GoTo

\* Rows stay, so the locals of the other calls stay as good as they were.
LEMMA GoToWellFormed ==
  ASSUME TypeOK, CallsWellFormed, NEW r \in Requests, NEW label, NEW a,
         GoTo(r, label, a), LocalsOK(pc[r], arg[r])', RowsKept
  PROVE  CallsWellFormed'
  <1>1. ASSUME NEW q \in Requests \ {r}
        PROVE  LocalsOK(pc[q], arg[q])'
    <2>1. pc'[q] = pc[q] /\ arg'[q] = arg[q]
      BY OthersStay
    <2>2. LocalsOK(pc[q], arg[q])
      BY DEF CallsWellFormed
    <2>3. QED
      BY <2>1, <2>2 DEF LocalsOK, RowsKept
  <1>2. QED
    BY <1>1 DEF CallsWellFormed

LEMMA IdleOK == "idle" \in Labels /\ LocalsOK("idle", NoArg)
  BY DEF Labels, LocalsOK

-----------------------------------------------------------------------------
(* Every step keeps the shape of the state: one lemma per part of Next *)

LEMMA InitShape == Init => Shape
  BY NoArgIsArg, NoneIsNoValue
  DEF Init, Shape, TypeOK, RowsWellFormed, CallsWellFormed, LocalsOK, Submitted, Issued,
      Labels

\* The steps that only read and go on: no table changes.
LEMMA ReadStep ==
  ASSUME Shape, NEW r \in Requests, NEW label \in Labels, NEW a \in Args,
         GoTo(r, label, a), LocalsOK(label, a), UNCHANGED <<appVars, memVars>>,
         lock' \in [Applications -> Requests \cup {None}]
  PROVE  Shape'
  <1>1. TypeOK /\ RowsWellFormed /\ CallsWellFormed
    BY DEF Shape
  <1>2. /\ pc' \in [Requests -> Labels] /\ arg' \in [Requests -> Args]
        /\ conn' \subseteq Requests
    BY <1>1, GoToTyped
  <1>3. TypeOK'
    BY <1>1, <1>2 DEF TypeOK, appVars, memVars
  <1>4. RowsWellFormed'
    BY <1>1 DEF RowsWellFormed, appVars, memVars, Submitted, Issued
  <1>5. RowsKept
    BY DEF RowsKept, appVars, memVars, Submitted, Issued
  <1>6. LocalsOK(pc[r], arg[r])'
    <2>1. pc'[r] = label /\ arg'[r] = a
      BY <1>1, OthersStay
    <2>2. QED
      BY <1>5, <2>1 DEF LocalsOK, RowsKept
  <1>7. CallsWellFormed'
    BY <1>1, <1>5, <1>6, GoToWellFormed
  <1>8. QED
    BY <1>3, <1>4, <1>7 DEF Shape

LEMMA BeginChangeShape ==
  ASSUME Shape, NEW r \in Requests, NEW m \in Memberships, NEW to \in MembershipStatus,
         BeginChange(r, m, to)
  PROVE  Shape'
  <1> DEFINE a == [NoArg EXCEPT !.mem = m, !.to = to]
  <1>1. a \in Args /\ "changeWrite" \in Labels
    BY DEF NoArg, Args, Labels, MembershipStatus
  <1>2. GoTo(r, "changeWrite", a) /\ UNCHANGED <<appVars, memVars, lock>> /\ Issued(m)
    BY DEF BeginChange
  <1>3. LocalsOK("changeWrite", a)
    BY <1>2 DEF LocalsOK, NoArg
  <1>4. QED
    BY <1>1, <1>2, <1>3, ReadStep DEF Shape, TypeOK

LEMMA BeginShape ==
  ASSUME Shape, NEW r \in Requests, Begin(r)
  PROVE  Shape'
  <1>0. TypeOK /\ RowsWellFormed
    BY DEF Shape
  <1>1. ASSUME NEW u \in Users, NEW t \in Types, NEW to \in {"draft", "submitted"},
               CreateApplication(r, u, t, to)
        PROVE  Shape'
    <2> DEFINE a == [NoArg EXCEPT !.user = u, !.type = t, !.to = to]
    <2>1. a \in Args /\ "createActive" \in Labels
      BY DEF NoArg, Args, Labels, ApplicationStatus
    <2>2. GoTo(r, "createActive", a) /\ UNCHANGED <<appVars, memVars, lock>>
      BY <1>1 DEF CreateApplication
    <2>3. LocalsOK("createActive", a)
      BY DEF LocalsOK, NoArg
    <2>4. QED
      BY <2>1, <2>2, <2>3, <1>0, ReadStep DEF TypeOK
  <1>2. ASSUME NEW u \in Users, NEW t \in Types, IssueMembershipDirectly(r, u, t)
        PROVE  Shape'
    <2> DEFINE a == [NoArg EXCEPT !.user = u, !.type = t]
    <2>1. a \in Args /\ "lockRow" \in Labels
      BY DEF NoArg, Args, Labels
    <2>2. GoTo(r, "lockRow", a) /\ UNCHANGED <<appVars, memVars, lock>>
      BY <1>2 DEF IssueMembershipDirectly
    <2>3. LocalsOK("lockRow", a)
      BY DEF LocalsOK, NoArg
    <2>4. QED
      BY <2>1, <2>2, <2>3, <1>0, ReadStep DEF TypeOK
  <1>3. ASSUME NEW b \in Applications, NEW t \in Types, UpdateOwnApplication(r, b, t)
        PROVE  Shape'
    <2> DEFINE a == [NoArg EXCEPT !.app = b, !.type = t]
    <2>1. a \in Args /\ "update" \in Labels
      BY DEF NoArg, Args, Labels
    <2>2. GoTo(r, "update", a) /\ UNCHANGED <<appVars, memVars, lock>>
      BY <1>3 DEF UpdateOwnApplication
    <2>3. LocalsOK("update", a)
      BY DEF LocalsOK, NoArg
    <2>4. QED
      BY <2>1, <2>2, <2>3, <1>0, ReadStep DEF TypeOK
  <1>4. ASSUME NEW b \in Applications,
               NEW to \in {"submitted", "withdrawn", "under_review",
                           "changes_requested", "rejected"},
               BeginTransition(r, b, to)
        PROVE  Shape'
    <2> DEFINE a == [NoArg EXCEPT !.app = b, !.to = to]
    <2>1. a \in Args /\ "transition" \in Labels
      BY DEF NoArg, Args, Labels, ApplicationStatus
    <2>2. GoTo(r, "transition", a) /\ UNCHANGED <<appVars, memVars, lock>>
      BY <1>4 DEF BeginTransition
    <2>3. LocalsOK("transition", a)
      BY <1>4 DEF LocalsOK, NoArg, ApplicationStatus, BeginTransition
    <2>4. QED
      BY <2>1, <2>2, <2>3, <1>0, ReadStep DEF TypeOK
  <1>5. ASSUME NEW b \in Applications, ApproveApplication(r, b)
        PROVE  Shape'
    <2> DEFINE a == [NoArg EXCEPT !.app = b, !.user = appOwner[b], !.type = appType[b]]
    <2>1. appOwner[b] \in Users /\ appType[b] \in Types
      BY <1>0, <1>5 DEF ApproveApplication, RowsWellFormed
    <2>2. a \in Args /\ "lockRow" \in Labels
      BY <2>1 DEF NoArg, Args, Labels
    <2>3. GoTo(r, "lockRow", a) /\ UNCHANGED <<appVars, memVars, lock>>
      BY <1>5 DEF ApproveApplication
    <2>4. LocalsOK("lockRow", a)
      BY <1>5, <2>1 DEF LocalsOK, NoArg, ApproveApplication
    <2>5. QED
      BY <2>2, <2>3, <2>4, <1>0, ReadStep DEF TypeOK
  <1>6. ASSUME NEW m \in Memberships, NEW to \in MembershipStatus, BeginChange(r, m, to)
        PROVE  Shape'
    BY <1>6, BeginChangeShape
  <1>7. ASSUME NEW m \in Memberships, ReactivateMembership(r, m)
        PROVE  Shape'
    <2> DEFINE a == [NoArg EXCEPT !.mem = m]
    <2>1. a \in Args /\ "reactivateRead" \in Labels
      BY DEF NoArg, Args, Labels
    <2>2. GoTo(r, "reactivateRead", a) /\ UNCHANGED <<appVars, memVars, lock>> /\ Issued(m)
      BY <1>7 DEF ReactivateMembership
    <2>3. LocalsOK("reactivateRead", a)
      BY <2>2 DEF LocalsOK, NoArg
    <2>4. QED
      BY <2>1, <2>2, <2>3, <1>0, ReadStep DEF TypeOK
  <1>8. QED
    BY <1>1, <1>2, <1>3, <1>4, <1>5, <1>6, <1>7
    DEF Begin, ApplicantCalls, ReviewerCalls, AdministratorCalls,
        SubmitOwnApplication, WithdrawOwnApplication, StartReview, RequestChanges,
        RejectApplication, SuspendMembership, RevokeMembership, MembershipStatus

\* The last step of a call that writes the applications table.
LEMMA ApplicationWriteStep ==
  ASSUME Shape, NEW r \in Requests, Return(r), UNCHANGED <<memVars, lock>>,
         appStatus' \in [Applications -> ApplicationStatus \cup {"none"}],
         appOwner' \in [Applications -> Users \cup {None}],
         appType' \in [Applications -> Types \cup {None}],
         \A a \in Applications :
            /\ Submitted(a) => Submitted(a)'
            /\ Submitted(a)' => appOwner'[a] \in Users /\ appType'[a] \in Types
  PROVE  Shape'
  <1>1. TypeOK /\ RowsWellFormed /\ CallsWellFormed
    BY DEF Shape
  <1>2. GoTo(r, "idle", NoArg)
    BY DEF Return
  <1>3. /\ pc' \in [Requests -> Labels] /\ arg' \in [Requests -> Args]
        /\ conn' \subseteq Requests
    BY <1>1, <1>2, IdleOK, NoArgIsArg, GoToTyped
  <1>4. TypeOK'
    BY <1>1, <1>3 DEF TypeOK, memVars
  <1>5. RowsWellFormed'
    BY <1>1 DEF RowsWellFormed, memVars, Issued
  <1>6. LocalsOK(pc[r], arg[r])' /\ RowsKept
    <2>1. pc'[r] = "idle" /\ arg'[r] = NoArg
      BY <1>1, <1>2, OthersStay
    <2>2. QED
      BY <2>1 DEF LocalsOK, RowsKept, memVars, Issued
  <1>7. CallsWellFormed'
    BY <1>1, <1>2, <1>6, GoToWellFormed
  <1>8. QED
    BY <1>4, <1>5, <1>7 DEF Shape

LEMMA ApplicantShape ==
  ASSUME Shape, NEW r \in Requests,
         CreateCheckActive(r) \/ CreateInsert(r) \/ UpdateWrite(r) \/ TransitionWrite(r)
  PROVE  Shape'
  <1>1. TypeOK /\ RowsWellFormed /\ LocalsOK(pc[r], arg[r])
    BY DEF Shape, CallsWellFormed
  <1>2. CASE CreateCheckActive(r)
    <2>1. CASE Return(r)
      BY <1>1, <1>2, <2>1, IdleOK, NoArgIsArg, ReadStep DEF CreateCheckActive, Return, TypeOK
    <2>2. CASE GoTo(r, "createInsert", arg[r])
      <3>1. LocalsOK("createInsert", arg[r])
        BY <1>1, <1>2 DEF LocalsOK, CreateCheckActive
      <3>2. arg[r] \in Args /\ "createInsert" \in Labels
        BY <1>1 DEF TypeOK, Labels
      <3>3. QED
        BY <1>1, <1>2, <2>2, <3>1, <3>2, ReadStep DEF CreateCheckActive, TypeOK
    <2>3. QED
      BY <1>2, <2>1, <2>2 DEF CreateCheckActive
  <1>3. CASE CreateInsert(r)
    <2>1. arg[r].user \in Users /\ arg[r].type \in Types /\ arg[r].to \in {"draft", "submitted"}
      BY <1>1, <1>3 DEF CreateInsert, LocalsOK
    <2>2. /\ appStatus' \in [Applications -> ApplicationStatus \cup {"none"}]
          /\ appOwner' \in [Applications -> Users \cup {None}]
          /\ appType' \in [Applications -> Types \cup {None}]
      BY <1>1, <1>3, <2>1 DEF CreateInsert, TypeOK, appVars, ApplicationStatus
    <2>3. \A a \in Applications :
            /\ Submitted(a) => Submitted(a)'
            /\ Submitted(a)' => appOwner'[a] \in Users /\ appType'[a] \in Types
      BY <1>1, <1>3, <2>1 DEF CreateInsert, TypeOK, RowsWellFormed, Submitted, appVars
    <2>4. QED
      BY <1>3, <2>2, <2>3, ApplicationWriteStep DEF CreateInsert
  <1>4. CASE UpdateWrite(r)
    <2>1. arg[r].app \in Applications /\ arg[r].type \in Types
      BY <1>1, <1>4 DEF UpdateWrite, LocalsOK
    <2>2. QED
      BY <1>1, <1>4, <2>1, ApplicationWriteStep
      DEF UpdateWrite, TypeOK, RowsWellFormed, Submitted
  <1>5. CASE TransitionWrite(r)
    <2>1. /\ arg[r].app \in Applications /\ Submitted(arg[r].app)
          /\ arg[r].to \in ApplicationStatus
      BY <1>1, <1>5 DEF TransitionWrite, LocalsOK
    <2>2. QED
      BY <1>1, <1>5, <2>1, ApplicationWriteStep
      DEF TransitionWrite, TypeOK, RowsWellFormed, Submitted, ApplicationStatus
  <1>6. QED
    BY <1>2, <1>3, <1>4, <1>5

LEMMA LockRowShape ==
  ASSUME Shape, NEW r \in Requests, LockRow(r)
  PROVE  Shape'
  <1>1. TypeOK /\ RowsWellFormed /\ LocalsOK("lockRow", arg[r])
    BY DEF Shape, CallsWellFormed, LockRow
  <1>2. arg[r] \in Args
    BY <1>1 DEF TypeOK
  <1>3. UNCHANGED <<appVars, memVars>>
    BY DEF LockRow
  <1>4. CASE Return(r) /\ UNCHANGED lock
    BY <1>1, <1>3, <1>4, IdleOK, NoArgIsArg, ReadStep DEF Return, TypeOK
  <1>5. ASSUME NEW m \in MembershipsOf(arg[r].app), UNCHANGED lock, arg[r].app # None,
               GoTo(r, "issued", [NoArg EXCEPT !.app = arg[r].app, !.mem = m])
        PROVE  Shape'
    <2> DEFINE a == [NoArg EXCEPT !.app = arg[r].app, !.mem = m]
    <2>1. m \in Memberships /\ Issued(m) /\ arg[r].app \in Applications
      BY <1>1, <1>5 DEF MembershipsOf, RowsWellFormed, LocalsOK
    <2>2. a \in Args /\ "issued" \in Labels /\ LocalsOK("issued", a)
      BY <2>1 DEF Args, NoArg, Labels, LocalsOK
    <2>3. QED
      BY <1>1, <1>3, <1>5, <2>2, ReadStep DEF TypeOK
  <1>6. CASE TakeRowLock(r) /\ GoTo(r, "issueInsert", arg[r])
    <2>1. LocalsOK("issueInsert", arg[r]) /\ "issueInsert" \in Labels
      BY <1>1 DEF LocalsOK, Labels
    <2>2. lock' \in [Applications -> Requests \cup {None}]
      BY <1>1, <1>6 DEF TakeRowLock, TypeOK
    <2>3. QED
      BY <1>2, <1>3, <1>6, <2>1, <2>2, ReadStep
  <1>7. QED
    BY <1>4, <1>5, <1>6 DEF LockRow

\* The locks one transaction gives back leave a table of locks.
LEMMA ReleaseLocksTyped ==
  ASSUME TypeOK, NEW r \in Requests, ReleaseLocks(r)
  PROVE  lock' \in [Applications -> Requests \cup {None}]
  BY DEF TypeOK, ReleaseLocks

LEMMA IssueInsertShape ==
  ASSUME Shape, NEW r \in Requests, IssueInsert(r)
  PROVE  Shape'
  <1>1. TypeOK /\ LocalsOK("issueInsert", arg[r])
    BY DEF Shape, CallsWellFormed, IssueInsert
  <1>2. UNCHANGED <<appVars, memVars>>
    BY DEF IssueInsert
  <1>3. CASE Return(r) /\ ReleaseLocks(r)
    BY <1>1, <1>2, <1>3, IdleOK, NoArgIsArg, ReleaseLocksTyped, ReadStep DEF Return
  <1>4. ASSUME NEW m \in Memberships, UNCHANGED lock,
               GoTo(r, "audit", [arg[r] EXCEPT !.mem = m])
        PROVE  Shape'
    <2> DEFINE a == [arg[r] EXCEPT !.mem = m]
    <2>1. arg[r] \in Args
      BY <1>1 DEF TypeOK
    <2>2. a \in Args /\ "audit" \in Labels
      BY <2>1 DEF Args, Labels
    <2>3. a.app = arg[r].app /\ a.user = arg[r].user /\ a.type = arg[r].type /\ a.mem = m
      BY <2>1 DEF Args
    <2>4. LocalsOK("audit", a)
      BY <1>1, <2>3 DEF LocalsOK
    <2>5. QED
      BY <1>1, <1>2, <1>4, <2>2, <2>4, ReadStep DEF TypeOK
  <1>5. QED
    BY <1>3, <1>4 DEF IssueInsert

LEMMA IssueCommitShape ==
  ASSUME Shape, NEW r \in Requests, IssueCommit(r),
         NEW m \in Memberships, m = arg[r].mem
  PROVE  Shape'
  <1> DEFINE a == [NoArg EXCEPT !.app = arg[r].app, !.mem = m]
  <1>1. TypeOK /\ RowsWellFormed /\ CallsWellFormed /\ LocalsOK("audit", arg[r])
    BY DEF Shape, CallsWellFormed, IssueCommit
  <1>2. /\ arg[r] \in Args /\ arg[r].user \in Users /\ arg[r].type \in Types
        /\ arg[r].app # None => arg[r].app \in Applications /\ Submitted(arg[r].app)
    BY <1>1 DEF TypeOK, LocalsOK
  <1>3. /\ InsertMembership(r, m) /\ MarkApproved(arg[r].app) /\ GoTo(r, "issued", a)
        /\ UNCHANGED <<appOwner, appType>>
    BY DEF IssueCommit
  <1>4. lock' \in [Applications -> Requests \cup {None}]
    BY <1>1, ReleaseLocksTyped DEF IssueCommit
  <1>5. a \in Args /\ "issued" \in Labels
    BY <1>2 DEF Args, NoArg, Labels
  <1>6. /\ pc' \in [Requests -> Labels] /\ arg' \in [Requests -> Args]
        /\ conn' \subseteq Requests
    BY <1>1, <1>3, <1>5, GoToTyped
  <1>7. /\ memStatus' \in [Memberships -> MembershipStatus \cup {"none"}]
        /\ memOwner' \in [Memberships -> Users \cup {None}]
        /\ memType' \in [Memberships -> Types \cup {None}]
        /\ memApp' \in [Memberships -> Applications \cup {None}]
    BY <1>1, <1>2, <1>3 DEF InsertMembership, TypeOK, Args, MembershipStatus
  <1>8. appStatus' \in [Applications -> ApplicationStatus \cup {"none"}]
    BY <1>1, <1>3 DEF MarkApproved, TypeOK, ApplicationStatus
  <1>9. TypeOK'
    BY <1>1, <1>3, <1>4, <1>6, <1>7, <1>8 DEF TypeOK
  <1>10. RowsKept /\ Issued(m)'
    BY <1>1, <1>2, <1>3
    DEF RowsKept, InsertMembership, MarkApproved, Submitted, Issued, TypeOK
  <1>11. RowsWellFormed'
    <2>1. \A b \in Applications : Submitted(b)' => Submitted(b)
      BY <1>2, <1>3, NoneIsNoValue DEF MarkApproved, Submitted
    <2>2. \A n \in Memberships \ {m} : memApp'[n] = memApp[n]
      BY <1>1, <1>3 DEF InsertMembership, TypeOK
    <2>3. \A n \in Memberships : memApp'[n] # None => Issued(n)'
      BY <1>1, <1>10, <2>2 DEF RowsWellFormed, RowsKept
    <2>4. QED
      BY <1>1, <1>3, <2>1, <2>3 DEF RowsWellFormed
  <1>12. LocalsOK(pc[r], arg[r])'
    <2>1. pc'[r] = "issued" /\ arg'[r] = a
      BY <1>1, <1>3, OthersStay
    <2>2. a.mem = m
      BY DEF NoArg
    <2>3. QED
      BY <1>2, <1>10, <2>1, <2>2 DEF LocalsOK, Issued
  <1>13. CallsWellFormed'
    BY <1>1, <1>3, <1>10, <1>12, GoToWellFormed
  <1>14. QED
    BY <1>9, <1>11, <1>13 DEF Shape

LEMMA ChangeWriteShape ==
  ASSUME Shape, NEW r \in Requests, ChangeWrite(r)
  PROVE  Shape'
  <1>1. TypeOK /\ RowsWellFormed /\ CallsWellFormed /\ LocalsOK("changeWrite", arg[r])
    BY DEF Shape, CallsWellFormed, ChangeWrite
  <1>2. arg[r].mem \in Memberships /\ Issued(arg[r].mem) /\ arg[r].to \in MembershipStatus
    BY <1>1 DEF LocalsOK
  <1>3. CASE Return(r) /\ UNCHANGED memStatus
    BY <1>1, <1>3, IdleOK, NoArgIsArg, ReadStep DEF ChangeWrite, Return, TypeOK, memVars
  <1>4. CASE /\ memStatus' = [memStatus EXCEPT ![arg[r].mem] = arg[r].to]
             /\ GoTo(r, "changed", [NoArg EXCEPT !.mem = arg[r].mem])
    <2> DEFINE a == [NoArg EXCEPT !.mem = arg[r].mem]
    <2>1. a \in Args /\ "changed" \in Labels
      BY <1>2 DEF Args, NoArg, Labels
    <2>2. /\ pc' \in [Requests -> Labels] /\ arg' \in [Requests -> Args]
          /\ conn' \subseteq Requests
      BY <1>1, <1>4, <2>1, GoToTyped
    <2>3. TypeOK'
      BY <1>1, <1>2, <1>4, <2>2 DEF TypeOK, ChangeWrite, appVars
    <2>4. RowsKept
      BY <1>1, <1>2, <1>4
      DEF RowsKept, Submitted, Issued, TypeOK, ChangeWrite, appVars, MembershipStatus
    <2>5. RowsWellFormed'
      BY <1>1, <2>4 DEF RowsWellFormed, RowsKept, ChangeWrite, appVars, Submitted
    <2>6. LocalsOK(pc[r], arg[r])'
      <3>1. pc'[r] = "changed" /\ arg'[r].mem = arg[r].mem
        BY <1>1, <1>4, OthersStay DEF NoArg
      <3>2. QED
        BY <1>2, <2>4, <3>1 DEF LocalsOK, RowsKept
    <2>7. CallsWellFormed'
      BY <1>1, <1>4, <2>4, <2>6, GoToWellFormed
    <2>8. QED
      BY <2>3, <2>5, <2>7 DEF Shape
  <1>5. QED
    BY <1>3, <1>4 DEF ChangeWrite

LEMMA ReturnShape ==
  ASSUME Shape, NEW r \in Requests, Return(r), UNCHANGED <<appVars, memVars>>,
         UNCHANGED lock \/ ReleaseLocks(r)
  PROVE  Shape'
  <1>1. TypeOK
    BY DEF Shape
  <1>2. lock' \in [Applications -> Requests \cup {None}]
    BY <1>1, ReleaseLocksTyped DEF TypeOK
  <1>3. QED
    BY <1>2, IdleOK, NoArgIsArg, ReadStep DEF Return

LEMMA NextShape == Shape /\ [Next]_vars => Shape'
  <1> SUFFICES ASSUME Shape, [Next]_vars PROVE Shape'
    OBVIOUS
  <1>1. ASSUME NEW r \in Requests, Begin(r) PROVE Shape'
    BY <1>1, BeginShape
  <1>2. ASSUME NEW r \in Requests, Continue(r) PROVE Shape'
    <2>0. CASE Acquire(r)
      BY <2>0 DEF Acquire, Shape, TypeOK, RowsWellFormed, CallsWellFormed, LocalsOK,
                  Submitted, Issued, appVars, memVars
    <2>1. CASE ReactivateRead(r)
      <3>1. arg[r].mem \in Memberships
        BY <2>1 DEF Shape, CallsWellFormed, LocalsOK, ReactivateRead
      <3>2. CASE BeginChange(r, arg[r].mem, "active")
        BY <3>1, <3>2, BeginChangeShape DEF MembershipStatus
      <3>3. CASE Return(r) /\ UNCHANGED <<appVars, memVars, lock>>
        BY <3>3, ReturnShape
      <3>4. QED
        BY <2>1, <3>2, <3>3 DEF ReactivateRead
    <2>2. CASE IssueCommit(r)
      <3>1. PICK m \in Memberships : m = arg[r].mem
        BY <2>2 DEF Shape, CallsWellFormed, LocalsOK, IssueCommit
      <3>2. QED
        BY <2>2, <3>1, IssueCommitShape
    <2>3. QED
      BY <1>2, <2>0, <2>1, <2>2, ApplicantShape, LockRowShape, IssueInsertShape,
         ChangeWriteShape
      DEF Continue
  <1>3. ASSUME NEW r \in Requests, Finish(r) \/ Crash(r) PROVE Shape'
    BY <1>3, ReturnShape DEF Finish, Crash
  <1>4. CASE UNCHANGED vars
    BY <1>4 DEF vars, appVars, memVars, callVars, Shape, TypeOK, RowsWellFormed,
                CallsWellFormed, LocalsOK, Submitted, Issued
  <1>5. QED
    BY <1>1, <1>2, <1>3, <1>4 DEF Next, Step

\* Every reachable state is well typed, its rows are filled when they are
\* inserted, and a call's locals name rows that exist.
THEOREM ShapeInvariant == Spec => []Shape
  BY InitShape, NextShape, PTL DEF Spec

\* TypeOK holds in every reachable state.
THEOREM TypeCorrect == Spec => []TypeOK
  <1>1. Shape => TypeOK
    BY DEF Shape
  <1>2. QED
    BY <1>1, ShapeInvariant, PTL

-----------------------------------------------------------------------------
(* What a step of a call changes in the tables *)

\* A status change that the unique index lets through.
Changes(r) ==
    /\ pc[r] = "changeWrite"
    /\ arg[r].to = "active" =>
          \A q \in Requests : ~Inserting(q, memOwner[arg[r].mem], memType[arg[r].mem])
    /\ ~(arg[r].to = "active" /\ ActiveElsewhere(arg[r].mem))
    /\ memStatus' = [memStatus EXCEPT ![arg[r].mem] = arg[r].to]
    /\ GoTo(r, "changed", [NoArg EXCEPT !.mem = arg[r].mem])
    /\ UNCHANGED <<appVars, memOwner, memType, memApp, lock>>

ApplicationWrite(r) == CreateInsert(r) \/ UpdateWrite(r) \/ TransitionWrite(r)

LEMMA TableSteps ==
  ASSUME NEW r \in Requests, Step(r)
  PROVE  \/ UNCHANGED <<appVars, memVars>>
         \/ ApplicationWrite(r) /\ UNCHANGED <<memVars, lock>>
         \/ IssueCommit(r)
         \/ Changes(r)
  <1>1. CASE Begin(r)
    BY <1>1
    DEF Begin, ApplicantCalls, ReviewerCalls, AdministratorCalls,
        CreateApplication, IssueMembershipDirectly, UpdateOwnApplication,
        SubmitOwnApplication, WithdrawOwnApplication, StartReview, RequestChanges,
        RejectApplication, BeginTransition, ApproveApplication, SuspendMembership,
        RevokeMembership, BeginChange, ReactivateMembership
  <1>2. CASE Acquire(r) \/ CreateCheckActive(r) \/ LockRow(r) \/ IssueInsert(r)
             \/ ReactivateRead(r)
    BY <1>2 DEF Acquire, CreateCheckActive, LockRow, IssueInsert, ReactivateRead, BeginChange
  <1>3. CASE CreateInsert(r) \/ UpdateWrite(r) \/ TransitionWrite(r)
    BY <1>3 DEF CreateInsert, UpdateWrite, TransitionWrite, ApplicationWrite
  <1>5. CASE ChangeWrite(r)
    BY <1>5 DEF ChangeWrite, Changes, memVars
  <1>6. CASE Finish(r) \/ Crash(r)
    BY <1>6 DEF Finish, Crash
  <1>7. QED
    BY <1>1, <1>2, <1>3, <1>5, <1>6 DEF Step, Continue

-----------------------------------------------------------------------------
(* The unique index: an uncommitted membership keeps others away *)

\* While a transaction waits to commit its membership, nobody else makes one
\* of the same user and type active, and nobody else has its row.
KeyHeld ==
    \A r \in Requests :
        pc[r] = "audit" =>
            /\ ~HasActive(arg[r].user, arg[r].type)
            /\ ~Issued(arg[r].mem)
            /\ \A q \in Requests \ {r} :
                  pc[q] = "audit" =>
                      /\ arg[q].mem # arg[r].mem
                      /\ ~(arg[q].user = arg[r].user /\ arg[q].type = arg[r].type)

\* What the INSERT finds when it goes through: m is the row it inserts.
Inserts(r, m) ==
    /\ ~HasActive(arg[r].user, arg[r].type)
    /\ ~Issued(m)
    /\ \A q \in Requests : ~Inserting(q, arg[r].user, arg[r].type)
    /\ \A q \in Requests : pc[q] = "audit" => arg[q].mem # m
    /\ arg'[r].user = arg[r].user /\ arg'[r].type = arg[r].type /\ arg'[r].mem = m
    /\ UNCHANGED memVars

\* A step of one call moves no other call.
LEMMA StepOfOne ==
  ASSUME TypeOK, NEW q \in Requests, Step(q), NEW r \in Requests \ {q}
  PROVE  pc'[r] = pc[r] /\ arg'[r] = arg[r]
  <1>1. CASE Begin(q)
    BY <1>1
    DEF Begin, ApplicantCalls, ReviewerCalls, AdministratorCalls,
        CreateApplication, IssueMembershipDirectly, UpdateOwnApplication,
        SubmitOwnApplication, WithdrawOwnApplication, StartReview, RequestChanges,
        RejectApplication, BeginTransition, ApproveApplication, SuspendMembership,
        RevokeMembership, BeginChange, ReactivateMembership, GoTo, TypeOK
  <1>2. CASE Continue(q)
    BY <1>2
    DEF Continue, Acquire, CreateCheckActive, CreateInsert, UpdateWrite, TransitionWrite,
        LockRow, IssueInsert, IssueCommit, ReactivateRead, BeginChange, ChangeWrite, Return,
        GoTo, TypeOK
  <1>3. CASE Finish(q) \/ Crash(q)
    BY <1>3 DEF Finish, Crash, Return, GoTo, TypeOK
  <1>4. QED
    BY <1>1, <1>2, <1>3 DEF Step

\* A call comes to "audit" by an INSERT that went through, and only so.
LEMMA ToAudit ==
  ASSUME TypeOK, NEW r \in Requests, Step(r), pc'[r] = "audit"
  PROVE  \E m \in Memberships : Inserts(r, m)
  <1>1. IssueInsert(r)
    <2>1. CASE Begin(r)
      BY <2>1
      DEF Begin, ApplicantCalls, ReviewerCalls, AdministratorCalls,
          CreateApplication, IssueMembershipDirectly, UpdateOwnApplication,
          SubmitOwnApplication, WithdrawOwnApplication, StartReview, RequestChanges,
          RejectApplication, BeginTransition, ApproveApplication, SuspendMembership,
          RevokeMembership, BeginChange, ReactivateMembership, GoTo, TypeOK
    <2>2. CASE Acquire(r) \/ CreateCheckActive(r) \/ CreateInsert(r) \/ UpdateWrite(r)
               \/ TransitionWrite(r) \/ LockRow(r)
      BY <2>2
      DEF Acquire, Blocking, CreateCheckActive, CreateInsert, UpdateWrite, TransitionWrite,
          LockRow, Return, GoTo, TypeOK
    <2>3. CASE IssueCommit(r) \/ ReactivateRead(r) \/ ChangeWrite(r) \/ Finish(r) \/ Crash(r)
      BY <2>3
      DEF IssueCommit, ReactivateRead, BeginChange, ChangeWrite, Finish, Crash, Return, GoTo,
          TypeOK
    <2>4. QED
      BY <2>1, <2>2, <2>3 DEF Step, Continue
  <1>2. ~Return(r)
    BY DEF Return, GoTo, TypeOK
  <1>3. PICK m \in Memberships :
          /\ ~Issued(m)
          /\ \A q \in Requests : pc[q] = "audit" => arg[q].mem # m
          /\ GoTo(r, "audit", [arg[r] EXCEPT !.mem = m])
    BY <1>1, <1>2 DEF IssueInsert
  <1> DEFINE a == [arg[r] EXCEPT !.mem = m]
  <1>4. arg'[r] = a
    BY <1>3, OthersStay
  <1>5. a.user = arg[r].user /\ a.type = arg[r].type /\ a.mem = m
    BY DEF TypeOK, Args
  <1>6. ~HasActive(arg[r].user, arg[r].type)
    BY <1>1, <1>2 DEF IssueInsert, InsertRefused
  <1>7. QED
    BY <1>1, <1>3, <1>4, <1>5, <1>6 DEF IssueInsert, Inserts

\* A commit or a status change leaves the key and the row of another
\* transaction alone.
LEMMA KeyLeftAlone ==
  ASSUME Shape, KeyHeld, NEW q \in Requests, Step(q), NEW r \in Requests \ {q},
         pc[r] = "audit"
  PROVE  /\ \A m \in Memberships :
               ~(/\ memStatus'[m] = "active" /\ memOwner'[m] = arg[r].user
                 /\ memType'[m] = arg[r].type)
         /\ memStatus'[arg[r].mem] = "none"
  <1>1. /\ ~HasActive(arg[r].user, arg[r].type)
        /\ memStatus[arg[r].mem] = "none"
        /\ arg[r].mem \in Memberships
    BY DEF KeyHeld, Issued, Shape, CallsWellFormed, LocalsOK
  <1>2. CASE UNCHANGED memVars
    BY <1>1, <1>2 DEF memVars, HasActive
  <1>3. CASE IssueCommit(q)
    <2> DEFINE n == arg[q].mem
    <2>1. /\ n \in Memberships /\ n # arg[r].mem
          /\ ~(arg[q].user = arg[r].user /\ arg[q].type = arg[r].type)
      BY <1>3 DEF IssueCommit, KeyHeld, Shape, CallsWellFormed, LocalsOK
    <2>2. memOwner'[n] = arg[q].user /\ memType'[n] = arg[q].type
      BY <1>3, <2>1 DEF IssueCommit, InsertMembership, Shape, TypeOK
    <2>3. \A m \in Memberships \ {n} :
              /\ memStatus'[m] = memStatus[m]
              /\ memOwner'[m] = memOwner[m]
              /\ memType'[m] = memType[m]
      BY <1>3 DEF IssueCommit, InsertMembership, Shape, TypeOK
    <2>4. QED
      BY <1>1, <2>1, <2>2, <2>3 DEF HasActive
  <1>4. CASE Changes(q)
    <2> DEFINE n == arg[q].mem
    <2>1. n \in Memberships /\ Issued(n)
      BY <1>4 DEF Changes, Shape, CallsWellFormed, LocalsOK
    <2>2. n # arg[r].mem
      BY <1>1, <2>1 DEF Issued
    <2>3. memStatus' = [memStatus EXCEPT ![n] = arg[q].to] /\ UNCHANGED <<memOwner, memType>>
      BY <1>4 DEF Changes
    <2>4. arg[q].to = "active" =>
              ~(memOwner[n] = arg[r].user /\ memType[n] = arg[r].type)
      BY <1>4 DEF Changes, Inserting
    <2>5. QED
      BY <1>1, <2>1, <2>2, <2>3, <2>4 DEF HasActive, Shape, TypeOK
  <1>5. QED
    BY <1>2, <1>3, <1>4, TableSteps

LEMMA KeyHeldStep ==
  ASSUME Shape, KeyHeld, NEW p \in Requests, Step(p)
  PROVE  KeyHeld'
  <1>1. TypeOK
    BY DEF Shape
  <1>2. ASSUME NEW r \in Requests, pc'[r] = "audit"
        PROVE  /\ ~HasActive(arg[r].user, arg[r].type)'
               /\ ~Issued(arg[r].mem)'
    <2>1. CASE r = p
      <3>1. PICK m \in Memberships : Inserts(r, m)
        BY <1>1, <1>2, <2>1, ToAudit
      <3>2. QED
        BY <3>1 DEF Inserts, HasActive, Issued, memVars
    <2>2. CASE r # p
      <3>1. pc[r] = "audit" /\ arg'[r] = arg[r]
        BY <1>1, <1>2, <2>2, StepOfOne
      <3>2. QED
        BY <2>2, <3>1, KeyLeftAlone DEF HasActive, Issued
    <2>3. QED
      BY <2>1, <2>2
  <1>3. ASSUME NEW r \in Requests, pc'[r] = "audit",
               NEW q \in Requests \ {r}, pc'[q] = "audit"
        PROVE  /\ arg'[q].mem # arg'[r].mem
               /\ ~(arg'[q].user = arg'[r].user /\ arg'[q].type = arg'[r].type)
    <2>1. CASE r = p
      <3>1. PICK m \in Memberships : Inserts(r, m)
        BY <1>1, <1>3, <2>1, ToAudit
      <3>2. pc[q] = "audit" /\ arg'[q] = arg[q]
        BY <1>1, <1>3, <2>1, StepOfOne
      <3>3. QED
        BY <3>1, <3>2 DEF Inserts, Inserting
    <2>2. CASE q = p
      <3>1. PICK m \in Memberships : Inserts(q, m)
        BY <1>1, <1>3, <2>2, ToAudit
      <3>2. pc[r] = "audit" /\ arg'[r] = arg[r]
        BY <1>1, <1>3, <2>2, StepOfOne
      <3>3. QED
        BY <3>1, <3>2 DEF Inserts, Inserting
    <2>3. CASE r # p /\ q # p
      <3>1. /\ pc[r] = "audit" /\ arg'[r] = arg[r]
            /\ pc[q] = "audit" /\ arg'[q] = arg[q]
        BY <1>1, <1>3, <2>3, StepOfOne
      <3>2. QED
        BY <1>3, <3>1 DEF KeyHeld
    <2>4. QED
      BY <2>1, <2>2, <2>3
  <1>4. QED
    BY <1>2, <1>3 DEF KeyHeld

LEMMA KeyHeldInvariant == Spec => []KeyHeld
  <1>1. Init => KeyHeld
    BY DEF Init, KeyHeld
  <1>2. Shape /\ KeyHeld /\ [Next]_vars => KeyHeld'
    <2>1. CASE UNCHANGED vars
      BY <2>1 DEF vars, memVars, callVars, KeyHeld, HasActive, Issued
    <2>2. QED
      BY <2>1, KeyHeldStep DEF Next
  <1>3. QED
    BY <1>1, <1>2, ShapeInvariant, PTL DEF Spec

-----------------------------------------------------------------------------
(* Issued memberships stay what they are *)

\* An issued membership keeps its holder, type and application.
LEMMA MembershipsKept ==
  ASSUME Shape, KeyHeld, NEW r \in Requests, Step(r), NEW m \in Memberships, Issued(m)
  PROVE  /\ Issued(m)'
         /\ memOwner'[m] = memOwner[m]
         /\ memType'[m] = memType[m]
         /\ memApp'[m] = memApp[m]
  <1>1. CASE UNCHANGED memVars
    BY <1>1 DEF memVars, Issued
  <1>2. CASE IssueCommit(r)
    <2>1. m # arg[r].mem
      BY <1>2 DEF IssueCommit, KeyHeld
    <2>2. QED
      BY <1>2, <2>1 DEF IssueCommit, InsertMembership, Shape, TypeOK, Issued
  <1>3. CASE Changes(r)
    <2>1. arg[r].to # "none"
      BY <1>3 DEF Changes, Shape, CallsWellFormed, LocalsOK, MembershipStatus
    <2>2. QED
      BY <1>3, <2>1 DEF Changes, Shape, TypeOK, Issued
  <1>4. QED
    BY <1>1, <1>2, <1>3, TableSteps DEF Issued

-----------------------------------------------------------------------------
(* One active membership per holder and type *)

LEMMA OneActiveStep ==
  ASSUME Shape, KeyHeld, OneActivePerType, NEW r \in Requests, Step(r)
  PROVE  OneActivePerType'
  <1>1. CASE UNCHANGED memVars
    BY <1>1 DEF memVars, OneActivePerType
  <1>2. CASE IssueCommit(r)
    <2> DEFINE n == arg[r].mem
    <2>1. n \in Memberships
      BY <1>2 DEF IssueCommit, Shape, CallsWellFormed, LocalsOK
    <2>2. \A m \in Memberships \ {n} :
              /\ memStatus'[m] = memStatus[m]
              /\ memOwner'[m] = memOwner[m]
              /\ memType'[m] = memType[m]
      BY <1>2 DEF IssueCommit, InsertMembership, Shape, TypeOK
    <2>3. memOwner'[n] = arg[r].user /\ memType'[n] = arg[r].type
      BY <1>2, <2>1 DEF IssueCommit, InsertMembership, Shape, TypeOK
    <2>4. ~HasActive(arg[r].user, arg[r].type)
      BY <1>2 DEF IssueCommit, KeyHeld
    <2>5. QED
      BY <2>1, <2>2, <2>3, <2>4 DEF OneActivePerType, HasActive
  <1>3. CASE Changes(r)
    <2> DEFINE n == arg[r].mem
    <2>1. \A m \in Memberships \ {n} : memStatus'[m] = memStatus[m]
      BY <1>3 DEF Changes, Shape, TypeOK
    <2>2. memOwner' = memOwner /\ memType' = memType
      BY <1>3 DEF Changes
    <2>3. n \in Memberships /\ memStatus'[n] = arg[r].to
      BY <1>3 DEF Changes, Shape, TypeOK, CallsWellFormed, LocalsOK
    <2>4. memStatus'[n] = "active" =>
              \A m \in Memberships \ {n} :
                 ~(memStatus[m] = "active" /\ memOwner[m] = memOwner[n]
                   /\ memType[m] = memType[n])
      BY <1>3, <2>3 DEF Changes, ActiveElsewhere
    <2>5. QED
      BY <2>1, <2>2, <2>3, <2>4 DEF OneActivePerType
  <1>4. QED
    BY <1>1, <1>2, <1>3, TableSteps

\* A user never holds two active memberships of one type, however the calls
\* that issue and reactivate memberships interleave.
THEOREM OneActive == Spec => []OneActivePerType
  <1>1. Init => OneActivePerType
    BY DEF Init, OneActivePerType
  <1>2. Shape /\ KeyHeld /\ OneActivePerType /\ [Next]_vars => OneActivePerType'
    <2>1. CASE UNCHANGED vars
      BY <2>1 DEF vars, memVars, OneActivePerType
    <2>2. QED
      BY <2>1, OneActiveStep DEF Next
  <1>3. QED
    BY <1>1, <1>2, ShapeInvariant, KeyHeldInvariant, PTL DEF Spec

-----------------------------------------------------------------------------
(* An approved application has its membership *)

LEMMA ApprovedStep ==
  ASSUME Shape, KeyHeld, ApprovedHasMembership, NEW r \in Requests, Step(r),
         NEW a \in Applications, appStatus'[a] = "approved"
  PROVE  \E m \in Memberships : Issued(m)' /\ memApp'[m] = a
  <1>1. CASE appStatus[a] = "approved"
    <2>1. PICK m \in Memberships : Issued(m) /\ memApp[m] = a
      BY <1>1 DEF ApprovedHasMembership
    <2>2. QED
      BY <2>1, MembershipsKept
  <1>2. CASE appStatus[a] # "approved"
    <2>1. ~UNCHANGED appVars
      BY <1>2 DEF appVars
    <2>2. ~Changes(r)
      BY <2>1 DEF Changes
    <2>3. ~ApplicationWrite(r)
      <3>1. ~CreateInsert(r)
        BY <1>2, <2>1 DEF CreateInsert, Shape, TypeOK, CallsWellFormed, LocalsOK
      <3>2. ~UpdateWrite(r)
        BY <1>2 DEF UpdateWrite
      <3>3. ~TransitionWrite(r)
        BY <1>2 DEF TransitionWrite, Shape, TypeOK, CallsWellFormed, LocalsOK
      <3>4. QED
        BY <3>1, <3>2, <3>3 DEF ApplicationWrite
    <2>4. IssueCommit(r)
      BY <2>1, <2>2, <2>3, TableSteps
    <2>5. a = arg[r].app
      BY <1>2, <2>4 DEF IssueCommit, MarkApproved
    <2>6. PICK m \in Memberships : m = arg[r].mem
      BY <2>4 DEF IssueCommit, Shape, CallsWellFormed, LocalsOK
    <2>7. Issued(m)' /\ memApp'[m] = arg[r].app
      BY <2>4, <2>6 DEF IssueCommit, InsertMembership, Issued, Shape, TypeOK
    <2>8. QED
      BY <2>5, <2>7
  <1>3. QED
    BY <1>1, <1>2

\* An approved application has a membership, whatever crashes or overtakes
\* its approval.
THEOREM Approved == Spec => []ApprovedHasMembership
  <1>1. Init => ApprovedHasMembership
    BY DEF Init, ApprovedHasMembership
  <1>2. Shape /\ KeyHeld /\ ApprovedHasMembership /\ [Next]_vars => ApprovedHasMembership'
    <2>1. CASE UNCHANGED vars
      BY <2>1 DEF vars, appVars, memVars, ApprovedHasMembership, Issued
    <2>2. QED
      BY <2>1, ApprovedStep DEF Next, ApprovedHasMembership
  <1>3. QED
    BY <1>1, <1>2, ShapeInvariant, KeyHeldInvariant, PTL DEF Spec

-----------------------------------------------------------------------------
(* The row lock keeps the review until the commit *)

\* r is the transaction that is past its re-read of application a.
HasRow(r, a) == pc[r] \in InTransaction /\ arg[r].app = a /\ a # None

Held(r, a) == lock[a] = r /\ appStatus[a] = "under_review"

\* A step of another call leaves a held row alone.
LEMMA OtherKeepsHeld ==
  ASSUME Shape, ReviewHeldUntilCommit, NEW r \in Requests, NEW q \in Requests \ {r},
         Step(q), NEW a \in Applications, HasRow(r, a)
  PROVE  Held(r, a)'
  <1>1. Held(r, a)
    BY DEF ReviewHeldUntilCommit, HasRow, Held
  <1>2. lock[a] # None
    BY <1>1, NoneIsNoValue DEF Held
  <1>3. UNCHANGED <<appStatus, lock>> => Held(r, a)'
    BY <1>1 DEF Held
  <1>4. UNCHANGED appStatus /\ ReleaseLocks(q) => Held(r, a)'
    BY <1>1 DEF Held, ReleaseLocks
  <1>5. CASE Begin(q)
    BY <1>3, <1>5
    DEF Begin, ApplicantCalls, ReviewerCalls, AdministratorCalls,
        CreateApplication, IssueMembershipDirectly, UpdateOwnApplication,
        SubmitOwnApplication, WithdrawOwnApplication, StartReview, RequestChanges,
        RejectApplication, BeginTransition, ApproveApplication, SuspendMembership,
        RevokeMembership, BeginChange, ReactivateMembership, appVars
  <1>6. CASE Acquire(q) \/ CreateCheckActive(q) \/ UpdateWrite(q) \/ ReactivateRead(q)
             \/ ChangeWrite(q) \/ Finish(q)
    BY <1>3, <1>6
    DEF Acquire, CreateCheckActive, UpdateWrite, ReactivateRead, ChangeWrite, Finish, BeginChange,
        appVars
  <1>7. CASE CreateInsert(q)
    <2>1. Submitted(a)
      BY <1>1 DEF Held, Submitted
    <2>2. appStatus'[a] = appStatus[a]
      BY <1>7, <2>1 DEF CreateInsert, Shape, TypeOK, appVars
    <2>3. QED
      BY <1>1, <1>7, <2>2 DEF CreateInsert, Held
  <1>8. CASE TransitionWrite(q)
    <2>1. arg[q].app # a
      BY <1>2, <1>8 DEF TransitionWrite
    <2>2. QED
      BY <1>1, <1>8, <2>1 DEF TransitionWrite, Held, Shape, TypeOK
  <1>9. CASE LockRow(q)
    <2>1. arg[q].app # a
      BY <1>2, <1>9 DEF LockRow, HasRow
    <2>2. lock'[a] = lock[a]
      BY <1>9, <2>1 DEF LockRow, TakeRowLock
    <2>3. QED
      BY <1>1, <1>9, <2>2 DEF LockRow, Held, appVars
  <1>10. CASE IssueCommit(q)
    <2>1. arg[q].app # a
      BY <1>1, <1>2, <1>10
      DEF IssueCommit, ReviewHeldUntilCommit, Held, HasRow, InTransaction
    <2>2. appStatus'[a] = appStatus[a]
      BY <1>10, <2>1 DEF IssueCommit, MarkApproved
    <2>3. lock'[a] = lock[a]
      BY <1>1, <1>10 DEF IssueCommit, ReleaseLocks, Held
    <2>4. QED
      BY <1>1, <2>2, <2>3 DEF Held
  <1>11. CASE IssueInsert(q) \/ Crash(q)
    BY <1>3, <1>4, <1>11 DEF IssueInsert, Crash, appVars
  <1>12. QED
    BY <1>5, <1>6, <1>7, <1>8, <1>9, <1>10, <1>11 DEF Step, Continue

\* A call past its re-read either was so before the step, or took the row lock
\* in it and found the application under review.
LEMMA RowTaken ==
  ASSUME Shape, ReviewHeldUntilCommit, NEW r \in Requests, Step(r),
         NEW a \in Applications, HasRow(r, a)'
  PROVE  Held(r, a)'
  <1>1. pc'[r] \in InTransaction /\ arg'[r].app = a /\ a # None
    BY DEF HasRow
  <1>2. TypeOK
    BY DEF Shape
  <1>3. CASE LockRow(r)
    <2>1. TakeRowLock(r) /\ ~IssueRefused(r) /\ GoTo(r, "issueInsert", arg[r])
          /\ UNCHANGED appVars /\ (arg[r].app # None => appStatus[arg[r].app] # "approved")
      BY <1>1, <1>2, <1>3 DEF LockRow, Return, GoTo, TypeOK, InTransaction
    <2>2. arg[r].app = a
      BY <1>1, <1>2, <2>1, OthersStay
    <2>3. lock'[a] = r
      BY <2>1, <2>2 DEF TakeRowLock
    <2>4. appStatus[a] = "under_review"
      BY <1>1, <2>1, <2>2 DEF IssueRefused
    <2>5. QED
      BY <2>1, <2>3, <2>4 DEF Held, appVars
  <1>4. CASE IssueInsert(r)
    <2>1. PICK m \in Memberships :
            GoTo(r, "audit", [arg[r] EXCEPT !.mem = m]) /\ UNCHANGED lock
      BY <1>1, <1>2, <1>4 DEF IssueInsert, Return, GoTo, TypeOK, InTransaction
    <2> DEFINE x == [arg[r] EXCEPT !.mem = m]
    <2>2. arg'[r] = x
      BY <1>2, <2>1, OthersStay
    <2>3. x.app = arg[r].app
      BY <1>2 DEF TypeOK, Args
    <2>4. Held(r, a)
      BY <1>1, <1>4, <2>2, <2>3
      DEF IssueInsert, ReviewHeldUntilCommit, InTransaction, Held
    <2>5. QED
      BY <1>4, <2>1, <2>4 DEF IssueInsert, Held, appVars
  <1>5. CASE Begin(r)
    BY <1>1, <1>2, <1>5
    DEF Begin, ApplicantCalls, ReviewerCalls, AdministratorCalls,
        CreateApplication, IssueMembershipDirectly, UpdateOwnApplication,
        SubmitOwnApplication, WithdrawOwnApplication, StartReview, RequestChanges,
        RejectApplication, BeginTransition, ApproveApplication, SuspendMembership,
        RevokeMembership, BeginChange, ReactivateMembership, GoTo, TypeOK, InTransaction
  <1>6. CASE Acquire(r) \/ CreateCheckActive(r) \/ CreateInsert(r) \/ UpdateWrite(r)
             \/ TransitionWrite(r)
    BY <1>1, <1>2, <1>6
    DEF Acquire, Blocking, CreateCheckActive, CreateInsert, UpdateWrite, TransitionWrite,
        Return, GoTo, TypeOK, InTransaction
  <1>7. CASE IssueCommit(r) \/ ReactivateRead(r) \/ ChangeWrite(r) \/ Finish(r) \/ Crash(r)
    BY <1>1, <1>2, <1>7
    DEF IssueCommit, ReactivateRead, BeginChange, ChangeWrite, Finish, Crash, Return, GoTo,
        TypeOK, InTransaction
  <1>8. QED
    BY <1>3, <1>4, <1>5, <1>6, <1>7 DEF Step, Continue

\* From its re-read to its commit an approval holds the application's row, and
\* the application is under review.
THEOREM ReviewHeld == Spec => []ReviewHeldUntilCommit
  <1>1. Init => ReviewHeldUntilCommit
    BY DEF Init, ReviewHeldUntilCommit, InTransaction
  <1>2. Shape /\ ReviewHeldUntilCommit /\ [Next]_vars => ReviewHeldUntilCommit'
    <2>1. CASE UNCHANGED vars
      BY <2>1 DEF vars, appVars, callVars, ReviewHeldUntilCommit
    <2>2. ASSUME Shape, ReviewHeldUntilCommit, NEW q \in Requests, Step(q),
                 NEW r \in Requests, pc'[r] \in InTransaction, arg'[r].app # None
          PROVE  lock'[arg'[r].app] = r /\ appStatus'[arg'[r].app] = "under_review"
      <3> DEFINE a == arg'[r].app
      <3>1. Shape'
        BY <2>2, NextShape DEF Next
      <3>2. a \in Applications
        BY <2>2, <3>1 DEF Shape, CallsWellFormed, LocalsOK, InTransaction
      <3>3. PICK b \in Applications : b = a
        BY <3>2
      <3>4. HasRow(r, b)'
        BY <2>2, <3>3 DEF HasRow
      <3>5. Held(r, b)'
        <4>1. CASE q = r
          BY <2>2, <3>4, <4>1, RowTaken
        <4>2. CASE q # r
          <5>1. HasRow(r, b)
            BY <2>2, <3>4, <4>2, StepOfOne DEF HasRow, Shape
          <5>2. QED
            BY <2>2, <4>2, <5>1, OtherKeepsHeld
        <4>3. QED
          BY <4>1, <4>2
      <3>6. QED
        BY <3>3, <3>5 DEF Held
    <2>3. QED
      BY <2>1, <2>2 DEF Next, ReviewHeldUntilCommit
  <1>3. QED
    BY <1>1, <1>2, ShapeInvariant, KeyHeldInvariant, PTL DEF Spec

-----------------------------------------------------------------------------
(* What issuance uses up and what an approval hands on *)

LEMMA IssuanceStep ==
  ASSUME Shape, KeyHeld, ReviewHeldUntilCommit, NEW r \in Requests, Step(r),
         NEW m \in Memberships, ~Issued(m), Issued(m)', memApp'[m] # None
  PROVE  appStatus[memApp'[m]] = "under_review" /\ appStatus'[memApp'[m]] = "approved"
  <1>1. ~UNCHANGED memVars
    BY DEF memVars, Issued
  <1>2. ~Changes(r)
    BY DEF Changes, Shape, TypeOK, CallsWellFormed, LocalsOK, Issued
  <1>3. IssueCommit(r)
    BY <1>1, <1>2, TableSteps
  <1>4. m = arg[r].mem /\ memApp'[m] = arg[r].app
    BY <1>3 DEF IssueCommit, InsertMembership, Issued, Shape, TypeOK
  <1>5. arg[r].app \in Applications
    BY <1>3, <1>4 DEF IssueCommit, Shape, CallsWellFormed, LocalsOK
  <1>6. appStatus[arg[r].app] = "under_review"
    BY <1>3, <1>4 DEF IssueCommit, ReviewHeldUntilCommit, InTransaction
  <1>7. appStatus'[arg[r].app] = "approved"
    BY <1>3, <1>5 DEF IssueCommit, MarkApproved
  <1>8. QED
    BY <1>4, <1>6, <1>7

\* A membership is issued on an application only in the step that moves the
\* application from under_review to approved.
THEOREM IssuanceUsesReview == Spec => IssuanceConsumesReview
  <1>1. Shape /\ KeyHeld /\ ReviewHeldUntilCommit /\ [Next]_vars =>
          [\A m \in Memberships :
              ~Issued(m) /\ Issued(m)' /\ memApp'[m] # None =>
                  /\ appStatus[memApp'[m]] = "under_review"
                  /\ appStatus'[memApp'[m]] = "approved"]_vars
    BY IssuanceStep DEF Next
  <1>2. QED
    BY <1>1, ShapeInvariant, KeyHeldInvariant, ReviewHeld, PTL DEF Spec, IssuanceConsumesReview

\* A call at "issued" holds the membership of its application.
Returns(r) == Issued(arg[r].mem) /\ memApp[arg[r].mem] = arg[r].app

LEMMA ReturnsStep ==
  ASSUME Shape, KeyHeld, ApprovalReturnsItsMembership, NEW q \in Requests, Step(q),
         NEW r \in Requests, pc'[r] = "issued"
  PROVE  Returns(r)'
  <1>1. TypeOK
    BY DEF Shape
  <1>2. CASE q # r
    <2>1. pc[r] = "issued" /\ arg'[r] = arg[r]
      BY <1>1, <1>2, StepOfOne
    <2>2. Returns(r) /\ arg[r].mem \in Memberships
      BY <2>1 DEF ApprovalReturnsItsMembership, Returns, Shape, CallsWellFormed, LocalsOK
    <2>3. QED
      BY <2>1, <2>2, MembershipsKept DEF Returns, Issued
  <1>3. CASE q = r
    <2>1. CASE LockRow(r)
      <3>1. arg[r].app # None
            /\ \E m \in MembershipsOf(arg[r].app) :
                  GoTo(r, "issued", [NoArg EXCEPT !.app = arg[r].app, !.mem = m])
        BY <1>1, <1>3, <2>1 DEF LockRow, Return, GoTo, TypeOK
      <3>2. PICK m \in MembershipsOf(arg[r].app) :
              GoTo(r, "issued", [NoArg EXCEPT !.app = arg[r].app, !.mem = m])
        BY <3>1
      <3> DEFINE x == [NoArg EXCEPT !.app = arg[r].app, !.mem = m]
      <3>3. arg'[r] = x
        BY <1>1, <3>2, OthersStay
      <3>4. x.app = arg[r].app /\ x.mem = m
        BY DEF NoArg
      <3>5. m \in Memberships /\ memApp[m] = arg[r].app
        BY <3>2 DEF MembershipsOf
      <3>6. Issued(m) /\ UNCHANGED memVars
        BY <2>1, <3>1, <3>5 DEF LockRow, Shape, RowsWellFormed
      <3>7. QED
        BY <3>3, <3>4, <3>5, <3>6 DEF Returns, Issued, memVars
    <2>2. CASE IssueCommit(r)
      <3> DEFINE x == [NoArg EXCEPT !.app = arg[r].app, !.mem = arg[r].mem]
      <3>1. arg'[r] = x
        BY <1>1, <2>2, OthersStay DEF IssueCommit
      <3>2. x.app = arg[r].app /\ x.mem = arg[r].mem
        BY DEF NoArg
      <3>3. arg[r].mem \in Memberships
        BY <2>2 DEF IssueCommit, Shape, CallsWellFormed, LocalsOK
      <3>4. memStatus'[arg[r].mem] = "active" /\ memApp'[arg[r].mem] = arg[r].app
        BY <1>1, <2>2, <3>3 DEF IssueCommit, InsertMembership, TypeOK
      <3>5. QED
        BY <3>1, <3>2, <3>4 DEF Returns, Issued
    <2>3. CASE Begin(r)
      BY <1>1, <2>3
      DEF Begin, ApplicantCalls, ReviewerCalls, AdministratorCalls,
          CreateApplication, IssueMembershipDirectly, UpdateOwnApplication,
          SubmitOwnApplication, WithdrawOwnApplication, StartReview, RequestChanges,
          RejectApplication, BeginTransition, ApproveApplication, SuspendMembership,
          RevokeMembership, BeginChange, ReactivateMembership, GoTo, TypeOK
    <2>4. CASE CreateCheckActive(r) \/ CreateInsert(r) \/ UpdateWrite(r) \/ TransitionWrite(r)
               \/ IssueInsert(r) \/ ReactivateRead(r) \/ ChangeWrite(r)
      BY <1>1, <2>4
      DEF CreateCheckActive, IssueInsert, CreateInsert, UpdateWrite, TransitionWrite, ReactivateRead,
          BeginChange, ChangeWrite, Return, GoTo, TypeOK
    <2>5. CASE Finish(r) \/ Crash(r)
      BY <1>1, <2>5 DEF Finish, Crash, Return, GoTo, TypeOK
    <2>6. CASE Acquire(r)
      BY <2>6 DEF Acquire, Blocking
    <2>7. QED
      BY <1>3, <2>1, <2>2, <2>3, <2>4, <2>5, <2>6 DEF Step, Continue
  <1>4. QED
    BY <1>2, <1>3

\* An approval hands on the membership of its own application.
THEOREM ApprovalReturns == Spec => []ApprovalReturnsItsMembership
  <1>1. Init => ApprovalReturnsItsMembership
    BY DEF Init, ApprovalReturnsItsMembership
  <1>2. Shape /\ KeyHeld /\ ApprovalReturnsItsMembership /\ [Next]_vars =>
          ApprovalReturnsItsMembership'
    <2>1. CASE UNCHANGED vars
      BY <2>1 DEF vars, memVars, callVars, ApprovalReturnsItsMembership, Issued
    <2>2. QED
      BY <2>1, ReturnsStep DEF Next, ApprovalReturnsItsMembership, Returns
  <1>3. QED
    BY <1>1, <1>2, ShapeInvariant, KeyHeldInvariant, PTL DEF Spec

-----------------------------------------------------------------------------
(* Refinement *)

\* Every step of the service is a step of the registry or leaves it alone.
LEMMA RegistryStep ==
  ASSUME Shape, KeyHeld, NEW r \in Requests, Step(r)
  PROVE  [Registry!Next]_(Registry!registry)
  <1>1. CASE UNCHANGED memVars
    BY <1>1 DEF memVars, Registry!registry
  <1>2. CASE IssueCommit(r)
    <2> DEFINE m == arg[r].mem
    <2>1. arg[r].user \in Users /\ arg[r].type \in Types /\ m \in Memberships
      BY <1>2 DEF IssueCommit, Shape, CallsWellFormed, LocalsOK
    <2>2. Registry!Active(arg[r].user, arg[r].type) = {}
      BY <1>2 DEF IssueCommit, KeyHeld, HasActive, Registry!Active
    <2>3. memStatus[m] = "none"
      BY <1>2 DEF IssueCommit, KeyHeld, Issued
    <2>4. Registry!Issue(m, arg[r].user, arg[r].type)
      BY <1>2, <2>2, <2>3 DEF IssueCommit, InsertMembership, Registry!Issue
    <2>5. QED
      BY <2>1, <2>4 DEF Registry!Next
  <1>3. CASE Changes(r)
    <2> DEFINE m == arg[r].mem
    <2>1. m \in Memberships /\ memStatus[m] # "none" /\ arg[r].to \in MembershipStatus
      BY <1>3 DEF Changes, Shape, CallsWellFormed, LocalsOK, Issued
    <2>2. CASE arg[r].to = "active"
      <3>1. Registry!Active(memOwner[m], memType[m]) \subseteq {m}
        BY <1>3, <2>1, <2>2 DEF Changes, ActiveElsewhere, Registry!Active
      <3>2. Registry!Reactivate(m)
        BY <1>3, <2>1, <2>2, <3>1 DEF Changes, Registry!Reactivate
      <3>3. QED
        BY <2>1, <3>2 DEF Registry!Next
    <2>3. CASE arg[r].to \in {"suspended", "revoked"}
      <3>1. Registry!Deactivate(m, arg[r].to)
        BY <1>3, <2>1 DEF Changes, Registry!Deactivate
      <3>2. QED
        BY <2>1, <2>3, <3>1 DEF Registry!Next
    <2>4. QED
      BY <2>1, <2>2, <2>3 DEF MembershipStatus
  <1>4. QED
    BY <1>1, <1>2, <1>3, TableSteps

\* The service implements the registry: issue, deactivate and reactivate one
\* membership at a time, never a second active one.
THEOREM RegistryImplemented == Spec => ImplementsRegistry
  <1>1. Init => Registry!Init
    BY DEF Init, Registry!Init
  <1>2. Shape /\ KeyHeld /\ [Next]_vars => [Registry!Next]_(Registry!registry)
    <2>1. CASE UNCHANGED vars
      BY <2>1 DEF vars, memVars, Registry!registry
    <2>2. QED
      BY <2>1, RegistryStep DEF Next
  <1>3. QED
    BY <1>1, <1>2, ShapeInvariant, KeyHeldInvariant, PTL DEF Spec, ImplementsRegistry, Registry!Spec

-----------------------------------------------------------------------------
(*****************************************************************************)
(* The catalogs the memberships and the rest of the platform run on: the     *)
(* theorems of Catalogs, for any lists of entries and any number of          *)
(* requests, calls and edits. A seed that nothing overlapped is complete,    *)
(* edits stand, and a seed that went through changes nothing until something *)
(* is edited.                                                                *)
(*                                                                           *)
(* CatalogsView gives its types, requests and locals names of their own; the *)
(* theorems here are about CatalogsSpec alone.                               *)
(*                                                                           *)
(* Three things are known of each call (CatalogInv). Knows: of a call that   *)
(* nothing has overlapped, what it has done so far is still in the tables: a *)
(* seed's lists, but for those it has still to go through, are complete, and *)
(* of a card's rivals only those on its list are still active. Counts: of    *)
(* any seed, that no one has gone through its lists since it missed an       *)
(* entry, and that the row of a track it has read is as it was in what a     *)
(* seed leaves alone, unless the track was edited. ThroughOK: what a seed    *)
(* has gone through stays as its lists have it until the next edit.          *)
(*                                                                           *)
(* The lists are taken to be like the code's (SeedsHaveEntries): none is     *)
(* empty, no slug of a track is a key of another table, no threshold is      *)
(* missing, and the card of the seed is one of the scope.                    *)
(*****************************************************************************)

Of(s) == {s[k] : k \in 1..Len(s)}

\* Grants come after what they grant.
InOrder(s) ==
    \A j, k \in 1..Len(s) : j < k /\ s[j] = "grants" => s[k] \notin {"permissions", "roles"}

\* What the scripts seed in one go.
Listed(s) ==
    /\ s \in Seq(C!Lists) /\ s # <<>>
    /\ InOrder(s)
    /\ "grants" \in Of(s) => {"permissions", "roles"} \subseteq Of(s)

TrackRows == [names : {"seeded", "edited"}, texts : {"none", "seeded", "edited"},
              status : {"active", "suspended", "archived"}, enabled : BOOLEAN, open : BOOLEAN]

MilestoneRows == [threshold : Thresholds \cup AllThresholds \cup {NoEntry}, on : BOOLEAN]

Items == C!Settings \cup Tracks \cup Thresholds \cup ImpactRules \cup Milestones \cup Cards

CatalogArgs ==
    [call : {"none", "seed", "setting", "milestone", "card"},
     all : Seq(C!Lists), stages : Seq(C!Lists), todo : SUBSET Items, item : Items \cup {NoEntry},
     track : TrackRows \cup {C!NoTrack}, to : MilestoneRows, cards : SUBSET Cards,
     status : {"none", "on", "off"} \cup C!CardStatus, alone : BOOLEAN]

Now == [setting |-> setting, track |-> track, milestone |-> milestone, card |-> card]

TablesOK ==
    /\ setting \in [C!Settings -> C!Switches]
    /\ track \in [Tracks -> TrackRows \cup {C!NoTrack}]
    /\ milestone \in [Milestones -> MilestoneRows]
    /\ card \in [Cards -> C!CardStatus \cup {"none"}]

\* What the locals of a seed are good for.
SeedOK(label, a) ==
    /\ Listed(a.all)
    /\ a.stages \in Seq(C!Lists) /\ a.stages # <<>> /\ InOrder(a.stages)
    /\ Of(a.stages) \subseteq Of(a.all)
    /\ a.todo \subseteq C!ListEntries(a.stages[1])
    /\ label \in {"insert", "update"} => a.item \in a.todo
    /\ label = "update" => a.stages[1] \in {"trackNames", "tracks"} /\ a.track # C!NoTrack
    /\ label = "done" => a.todo = {} /\ Tail(a.stages) = <<>>

CatalogLocalsOK(label, a) ==
    /\ label = "idle" => a = C!NoArg
    /\ label # "idle" => a.call # "none"
    /\ label \in {"find", "insert", "update"} => a.call = "seed"
    /\ label = "putSetting" => a.call = "setting" /\ a.item \in Preferences /\ a.status \in {"on", "off"}
    /\ label \in {"check", "setMilestone"} => a.call = "milestone"
    /\ label \in {"archive", "saveCard"} => a.call = "card"
    /\ a.call = "seed" => SeedOK(label, a)
    /\ a.call = "milestone" => a.item \in Milestones
    /\ a.call = "card" => a.item \in Cards /\ a.status \in C!CardStatus

\* A call that nothing has overlapped is the only one.
Lonely(pcs, args) == \A r \in CatalogRequests :
    pcs[r] # "idle" /\ args[r].alone => \A q \in CatalogRequests \ {r} : pcs[q] = "idle"

CallsOK(pcs, args) ==
    /\ pcs \in [CatalogRequests -> C!Labels]
    /\ args \in [CatalogRequests -> CatalogArgs]
    /\ \A r \in CatalogRequests : CatalogLocalsOK(pcs[r], args[r])
    /\ Lonely(pcs, args)

Plain == {"types", "preferences", "flags", "kinds", "permissions", "roles", "grants"}

\* Entry i of a list is in the tables n.
In(n, list, i) ==
    /\ list \in {"trackNames", "tracks"} => n.track[i] # C!NoTrack
    /\ list = "card" => n.card[i] # "none"
    /\ list = "milestones" => \E m \in Milestones : n.milestone[m].threshold = i
    /\ list = "rules" => \E x \in C!RuleRows(i) : n.setting[x] # "none"
    /\ list \in Plain => n.setting[i] # "none"

\* It is there, and as the list has it.
Fixed(n, list, i) ==
    /\ In(n, list, i)
    /\ list = "trackNames" => n.track[i].names = "seeded"
    /\ list = "tracks" => /\ n.track[i].names = "seeded" /\ n.track[i].texts = "seeded"
                          /\ n.track[i].enabled = TRUE /\ n.track[i].status \in {"active", "archived"}

Complete(n, list) == \A i \in C!ListEntries(list) : Fixed(n, list, i)

Progress(n, label, a) ==
    a.call = "seed" =>
        /\ \A list \in Of(a.all) : list \in Of(a.stages) \/ Complete(n, list)
        /\ \A i \in C!ListEntries(a.stages[1]) \ a.todo : Fixed(n, a.stages[1], i)

Active(n) == {t \in Cards : n.card[t] = "active"}

Replacing(n, label, a) ==
    a.call = "card" /\ a.status = "active" =>
        /\ label = "archive"  => Active(n) \ {a.item} \subseteq a.cards
        /\ label = "saveCard" => Active(n) \subseteq {a.item}
        /\ label = "done"     => Active(n) = {a.item}

\* What a call that nothing has overlapped knows of the tables.
Knows(n, label, a) ==
    a.alone =>
        /\ Progress(n, label, a)
        /\ Replacing(n, label, a)
        /\ a.call = "milestone" /\ label = "done" => n.milestone[a.item] = a.to

\* In what a seed leaves alone.
Agree(read, row) == read.open = row.open /\ (read.status = "archived" <=> row.status = "archived")

\* What an overlapped seed may count on: no one has gone through its lists since it
\* missed an entry, and the row it has read is as it was unless it was edited.
Counts(n, edited, through, label, a) ==
    /\ label = "insert" => a.all \notin through
    /\ label = "update" =>
          /\ n.track[a.item] # C!NoTrack
          /\ a.item \notin edited \/ through # {} => Agree(a.track, n.track[a.item])

AskedOK(n, wish, edited) ==
    /\ wish = [x \in C!Settings \cup Tracks |-> wish[x]]
    /\ \A x \in C!Settings : wish[x] # NoEntry => wish[x] \in {"on", "off"} /\ n.setting[x] = wish[x]
    /\ \A k \in Tracks : wish[k] # NoEntry =>
          /\ n.track[k] # C!NoTrack
          /\ k \notin edited => /\ n.track[k].open = wish[k].open
                                /\ wish[k].status = "archived" => n.track[k].status = "archived"

ThroughOK(n, through) == \A s \in through : \A list \in Of(s) : list \in C!Lists /\ Complete(n, list)

CatalogShape == TablesOK /\ CallsOK(catalogPc, catalogArg)

CatalogInv ==
    /\ CatalogShape
    /\ \A r \in CatalogRequests : catalogPc[r] # "idle" => Knows(Now, catalogPc[r], catalogArg[r])
    /\ \A r \in CatalogRequests : Counts(Now, torn, settled, catalogPc[r], catalogArg[r])
    /\ AskedOK(Now, asked, torn)
    /\ ThroughOK(Now, settled)

-----------------------------------------------------------------------------
(* The lists of a seed *)

LEMMA TailOf ==
    ASSUME NEW s \in Seq(C!Lists), s # <<>>
    PROVE  /\ Tail(s) \in Seq(C!Lists)
           /\ s[1] \in C!Lists /\ Of(s) \subseteq C!Lists
           /\ Of(s) = {s[1]} \cup Of(Tail(s))
           /\ Tail(s) # <<>> => Tail(s)[1] \in Of(s)
           /\ InOrder(s) => InOrder(Tail(s))
           /\ InOrder(s) /\ s[1] = "grants" => Of(s) \cap {"permissions", "roles"} = {}
<1>1. Len(s) \in Nat /\ Len(s) >= 1 /\ \A k \in 1..Len(s) : s[k] \in C!Lists
  OBVIOUS
<1>2. Tail(s) \in Seq(C!Lists) /\ Len(Tail(s)) = Len(s) - 1
  OBVIOUS
<1>3. \A k \in 1..(Len(s) - 1) : Tail(s)[k] = s[k + 1]
  OBVIOUS
<1>4. Of(s) = {s[1]} \cup Of(Tail(s))
  <2>1. Of(Tail(s)) = {s[k + 1] : k \in 1..(Len(s) - 1)}
    BY <1>2, <1>3 DEF Of
  <2>2. \A x \in Of(s) : x = s[1] \/ x \in Of(Tail(s))
    <3>1. SUFFICES ASSUME NEW k \in 1..Len(s), k # 1 PROVE s[k] \in Of(Tail(s))
      BY DEF Of
    <3>2. k - 1 \in 1..(Len(s) - 1) /\ (k - 1) + 1 = k
      BY <1>1, <3>1
    <3>3. QED BY <2>1, <3>2
  <2>3. \A x \in Of(Tail(s)) : x \in Of(s)
    <3>1. SUFFICES ASSUME NEW k \in 1..(Len(s) - 1) PROVE s[k + 1] \in Of(s)
      BY <2>1
    <3>2. k + 1 \in 1..Len(s)
      BY <1>1
    <3>3. QED BY <3>2 DEF Of
  <2>4. s[1] \in Of(s)
    BY <1>1 DEF Of
  <2>5. QED BY <2>2, <2>3, <2>4
<1>5. Tail(s) # <<>> => Tail(s)[1] \in Of(s)
  <2>1. ASSUME Tail(s) # <<>> PROVE Len(s) - 1 >= 1
    BY <1>1, <1>2, <2>1
  <2>2. QED BY <1>1, <1>3, <2>1 DEF Of
<1>6. ASSUME InOrder(s) PROVE InOrder(Tail(s))
  <2>1. SUFFICES ASSUME NEW j \in 1..(Len(s) - 1), NEW k \in 1..(Len(s) - 1), j < k, s[j + 1] = "grants"
                 PROVE  s[k + 1] \notin {"permissions", "roles"}
    BY <1>2, <1>3 DEF InOrder
  <2>2. j + 1 \in 1..Len(s) /\ k + 1 \in 1..Len(s) /\ j + 1 < k + 1
    BY <1>1, <2>1
  <2>3. QED BY <1>6, <2>1, <2>2 DEF InOrder
<1>7. ASSUME InOrder(s), s[1] = "grants" PROVE Of(s) \cap {"permissions", "roles"} = {}
  <2>1. SUFFICES ASSUME NEW k \in 1..Len(s) PROVE s[k] \notin {"permissions", "roles"}
    BY DEF Of
  <2>2. k = 1 \/ (1 \in 1..Len(s) /\ 1 < k)
    BY <1>1
  <2>3. QED BY <1>7, <2>1, <2>2 DEF InOrder
<1>8. QED BY <1>1, <1>2, <1>4, <1>5, <1>6, <1>7 DEF Of

LEMMA JoinedLists ==
    ASSUME NEW s \in Seq(C!Lists), NEW t \in Seq(C!Lists), "grants" \notin Of(s), "grants" \notin Of(t)
    PROVE  s \o t \in Seq(C!Lists) /\ "grants" \notin Of(s \o t) /\ Len(s \o t) = Len(s) + Len(t)
<1>1. s \o t \in Seq(C!Lists) /\ Len(s \o t) = Len(s) + Len(t) /\ Len(s) \in Nat /\ Len(t) \in Nat
  OBVIOUS
<1>2. ASSUME NEW k \in 1..(Len(s) + Len(t)) PROVE (s \o t)[k] # "grants"
  <2>1. CASE k <= Len(s)
    <3>1. k \in 1..Len(s) /\ (s \o t)[k] = s[k]
      BY <1>1, <2>1
    <3>2. QED BY <3>1 DEF Of
  <2>2. CASE k > Len(s)
    <3>1. k - Len(s) \in 1..Len(t) /\ (s \o t)[k] = t[k - Len(s)]
      BY <1>1, <2>2
    <3>2. QED BY <3>1 DEF Of
  <2>3. QED BY <1>1, <2>1, <2>2
<1>3. QED BY <1>1, <1>2 DEF Of

SeedLists ==
    {<<"types", "trackNames">> \o C!TrackStages \o <<"card">>, C!TrackStages, <<"kinds", "milestones">>,
     <<"rules">>, <<"preferences", "flags">>, <<"permissions", "roles", "grants">>}

LEMMA SeedsListed == ASSUME NEW s \in SeedLists PROVE Listed(s)
<1>1. ASSUME NEW t \in Seq(C!Lists), t # <<>>, "grants" \notin Of(t) PROVE Listed(t)
  BY <1>1 DEF Listed, InOrder, Of
<1>2. CASE s = <<"types", "trackNames">> \o C!TrackStages \o <<"card">>
  <2> DEFINE u == <<"types", "trackNames">>
             w == <<"card">>
  <2>1. u \in Seq(C!Lists) /\ "grants" \notin Of(u)
    <3>1. u \in Seq(C!Lists) /\ Len(u) = 2 /\ u[1] # "grants" /\ u[2] # "grants"
      BY DEF C!Lists
    <3>2. QED BY <3>1 DEF Of
  <2>2. C!TrackStages \in Seq(C!Lists) /\ "grants" \notin Of(C!TrackStages)
    <3>1. /\ C!TrackStages \in Seq(C!Lists) /\ Len(C!TrackStages) = 2
          /\ C!TrackStages[1] # "grants" /\ C!TrackStages[2] # "grants"
      BY DEF C!Lists, C!TrackStages
    <3>2. QED BY <3>1 DEF Of
  <2>3. w \in Seq(C!Lists) /\ Len(w) = 1 /\ "grants" \notin Of(w)
    <3>1. w \in Seq(C!Lists) /\ Len(w) = 1 /\ w[1] # "grants"
      BY DEF C!Lists
    <3>2. QED BY <3>1 DEF Of
  <2>4. s = (u \o C!TrackStages) \o w
    BY <1>2
  <2> HIDE DEF u, w
  <2>5. s \in Seq(C!Lists) /\ "grants" \notin Of(s) /\ Len(s) >= 1
    <3>1. u \o C!TrackStages \in Seq(C!Lists) /\ "grants" \notin Of(u \o C!TrackStages)
      BY <2>1, <2>2, JoinedLists
    <3> DEFINE x == u \o C!TrackStages
    <3>2. x \in Seq(C!Lists) /\ "grants" \notin Of(x) /\ s = x \o w
      BY <2>4, <3>1
    <3> HIDE DEF x
    <3>3. s \in Seq(C!Lists) /\ "grants" \notin Of(s) /\ Len(s) = Len(x) + Len(w)
      BY <2>3, <3>2, JoinedLists
    <3>4. QED BY <2>3, <3>2, <3>3
  <2>6. s # <<>>
    BY <2>5
  <2>7. QED BY <1>1, <2>5, <2>6
<1>3. CASE s \in {C!TrackStages, <<"kinds", "milestones">>, <<"preferences", "flags">>}
  <2>1. ASSUME NEW x \in C!Lists \ {"grants"}, NEW y \in C!Lists \ {"grants"} PROVE Listed(<<x, y>>)
    <3> DEFINE z == <<x, y>>
    <3>1. z \in Seq(C!Lists) /\ Len(z) = 2 /\ z[1] # "grants" /\ z[2] # "grants" /\ z # <<>>
      OBVIOUS
    <3> HIDE DEF z
    <3>2. "grants" \notin Of(z)
      BY <3>1 DEF Of
    <3>3. Listed(z)
      BY <1>1, <3>1, <3>2
    <3>4. QED BY <3>3 DEF z
  <2>2. {"kinds", "milestones", "preferences", "flags", "tracks"} \subseteq C!Lists \ {"grants"}
    BY DEF C!Lists
  <2>3. QED BY <1>3, <2>1, <2>2 DEF C!TrackStages
<1>4. CASE s = <<"rules">>
  <2>1. s \in Seq(C!Lists) /\ Len(s) = 1 /\ s[1] # "grants"
    BY <1>4 DEF C!Lists
  <2>2. s # <<>> /\ "grants" \notin Of(s)
    BY <2>1 DEF Of
  <2>3. QED BY <1>1, <2>1, <2>2
<1>5. CASE s = <<"permissions", "roles", "grants">>
  <2>1. /\ s \in Seq(C!Lists) /\ Len(s) = 3 /\ s # <<>>
        /\ s[1] = "permissions" /\ s[2] = "roles" /\ s[3] = "grants"
    BY <1>5 DEF C!Lists
  <2>2. InOrder(s)
    BY <2>1 DEF InOrder
  <2>3. {"permissions", "roles"} \subseteq Of(s)
    BY <2>1 DEF Of
  <2>4. QED BY <2>1, <2>2, <2>3 DEF Listed
<1>6. QED BY <1>2, <1>3, <1>4, <1>5 DEF SeedLists

-----------------------------------------------------------------------------
(* One call moves *)

LEMMA NoArgType == C!NoArg \in CatalogArgs /\ C!NoArg.call = "none" /\ C!NoArg.alone = TRUE
  BY DEF C!NoArg, CatalogArgs, C!NoMilestone, MilestoneRows

LEMMA NoArgOK == CatalogLocalsOK("idle", C!NoArg)
  BY NoArgType DEF CatalogLocalsOK

Others(r, pcs, args) == \A q \in CatalogRequests \ {r} : catalogPc[q] = pcs[q] /\ catalogArg[q] = args[q]

LEMMA Moved ==
    ASSUME CatalogShape, NEW r \in CatalogRequests, NEW label, NEW a, C!GoTo(r, label, a)
    PROVE  /\ catalogPc'[r] = label /\ catalogArg'[r] = a
           /\ Others(r, catalogPc', catalogArg')
           /\ label \in C!Labels => catalogPc' \in [CatalogRequests -> C!Labels]
           /\ a \in CatalogArgs => catalogArg' \in [CatalogRequests -> CatalogArgs]
  BY DEF CatalogShape, CallsOK, C!GoTo, Others

\* A call that goes on, or ends.
LEMMA MoveShape ==
    ASSUME CatalogShape, NEW r \in CatalogRequests, NEW label \in C!Labels, NEW a \in CatalogArgs,
           C!GoTo(r, label, a),
           catalogPc[r] # "idle", CatalogLocalsOK(label, a), a.alone = catalogArg[r].alone \/ label = "idle"
    PROVE  CallsOK(catalogPc', catalogArg')
<1>1. /\ catalogPc'[r] = label /\ catalogArg'[r] = a /\ Others(r, catalogPc', catalogArg')
      /\ catalogPc' \in [CatalogRequests -> C!Labels] /\ catalogArg' \in [CatalogRequests -> CatalogArgs]
  BY Moved
<1>2. \A q \in CatalogRequests : CatalogLocalsOK(catalogPc'[q], catalogArg'[q])
  BY <1>1 DEF CatalogShape, CallsOK, Others
<1>3. Lonely(catalogPc', catalogArg')
  <2>1. Lonely(catalogPc, catalogArg)
    BY DEF CatalogShape, CallsOK
  <2>2. QED BY <1>1, <2>1 DEF Lonely, Others
<1>4. QED BY <1>1, <1>2, <1>3 DEF CallsOK

\* When r goes on the others that are under way are overlapped.
LEMMA OthersOverlap ==
    ASSUME CatalogShape, NEW r \in CatalogRequests, catalogPc[r] # "idle",
           NEW q \in CatalogRequests \ {r}, catalogPc[q] # "idle"
    PROVE  ~catalogArg[q].alone
  BY DEF CatalogShape, CallsOK, Lonely

\* Nothing but that it is overlapped has changed.
Same(b, a) ==
    /\ b.call = a.call /\ b.all = a.all /\ b.stages = a.stages /\ b.todo = a.todo
    /\ b.item = a.item /\ b.track = a.track /\ b.to = a.to /\ b.cards = a.cards /\ b.status = a.status

\* What a step of r does to the other calls.
Passed(r) == \A q \in CatalogRequests \ {r} :
    /\ catalogPc'[q] = catalogPc[q] /\ Same(catalogArg'[q], catalogArg[q])
    /\ catalogPc[q] # "idle" => ~catalogArg'[q].alone

LEMMA MovePasses ==
    ASSUME CatalogShape, NEW r \in CatalogRequests, NEW label \in C!Labels, NEW a, C!GoTo(r, label, a),
           catalogPc[r] # "idle"
    PROVE  Passed(r)
  BY Moved, OthersOverlap DEF Passed, Others, Same

LEMMA AloneOK ==
    ASSUME NEW label, label # "idle", NEW a \in CatalogArgs, NEW alone \in BOOLEAN
    PROVE  LET b == [a EXCEPT !.alone = alone] IN
           /\ b \in CatalogArgs /\ Same(b, a) /\ b.alone = alone
           /\ CatalogLocalsOK(label, a) => CatalogLocalsOK(label, b)
<1> DEFINE b == [a EXCEPT !.alone = alone]
<1>1. b \in CatalogArgs /\ Same(b, a) /\ b.alone = alone
  BY DEF CatalogArgs, Same
<1> HIDE DEF b
<1>2. CatalogLocalsOK(label, a) => CatalogLocalsOK(label, b)
  BY <1>1 DEF CatalogLocalsOK, SeedOK, Same
<1>3. QED BY <1>1, <1>2 DEF b

LEMMA Overlapping ==
    ASSUME CatalogShape, NEW q \in CatalogRequests, catalogPc[q] # "idle"
    PROVE  /\ C!NotAlone(q) \in CatalogArgs /\ Same(C!NotAlone(q), catalogArg[q]) /\ ~C!NotAlone(q).alone
           /\ CatalogLocalsOK(catalogPc[q], C!NotAlone(q))
<1>1. catalogArg[q] \in CatalogArgs /\ CatalogLocalsOK(catalogPc[q], catalogArg[q])
  BY DEF CatalogShape, CallsOK
<1> DEFINE b == [catalogArg[q] EXCEPT !.alone = FALSE]
<1>2. b \in CatalogArgs /\ Same(b, catalogArg[q]) /\ b.alone = FALSE
  BY <1>1 DEF CatalogArgs, Same
<1> HIDE DEF b
<1>3. CatalogLocalsOK(catalogPc[q], b)
  BY <1>1, <1>2 DEF CatalogLocalsOK, SeedOK, Same
<1>4. QED BY <1>2, <1>3 DEF C!NotAlone, b

\* A call of several steps begins.
LEMMA CatalogBeginShape ==
    ASSUME CatalogShape, NEW r \in CatalogRequests, NEW label \in C!Labels, label # "idle",
           NEW a \in CatalogArgs,
           C!Begin(r, label, a), CatalogLocalsOK(label, a)
    PROVE  /\ CallsOK(catalogPc', catalogArg') /\ Passed(r) /\ catalogPc[r] = "idle"
           /\ catalogPc'[r] = label /\ catalogArg'[r] \in CatalogArgs /\ Same(catalogArg'[r], a)
<1>0. PICK alone \in BOOLEAN : alone = (C!Busy = {})
  OBVIOUS
<1> DEFINE b == [a EXCEPT !.alone = alone]
<1>1. b \in CatalogArgs /\ Same(b, a) /\ b.alone = alone /\ CatalogLocalsOK(label, b)
  BY AloneOK
<1>2. /\ catalogPc[r] = "idle" /\ catalogPc'[r] = label /\ catalogArg'[r] = b
      /\ catalogPc' \in [CatalogRequests -> C!Labels]
      /\ \A q \in CatalogRequests \ {r} : catalogPc'[q] = catalogPc[q]
      /\ \A q \in CatalogRequests \ {r} : catalogArg'[q] = IF q \in C!Busy THEN C!NotAlone(q) ELSE catalogArg[q]
      /\ catalogArg' = [q \in CatalogRequests |-> catalogArg'[q]]
  <2>1. /\ catalogPc[r] = "idle" /\ catalogPc' = [catalogPc EXCEPT ![r] = label]
        /\ catalogArg' = [q \in CatalogRequests |->
              CASE q = r -> b [] q \in C!Busy -> C!NotAlone(q) [] OTHER -> catalogArg[q]]
    BY <1>0 DEF C!Begin
  <2> HIDE DEF b
  <2>2. catalogPc \in [CatalogRequests -> C!Labels]
    BY DEF CatalogShape, CallsOK
  <2>3. r \notin C!Busy
    BY <2>1 DEF C!Busy
  <2>4. QED BY <2>1, <2>2, <2>3
<1> HIDE DEF b
<1>3. \A q \in CatalogRequests \ {r} :
         /\ catalogArg'[q] \in CatalogArgs /\ Same(catalogArg'[q], catalogArg[q])
         /\ CatalogLocalsOK(catalogPc'[q], catalogArg'[q])
         /\ catalogPc[q] # "idle" => ~catalogArg'[q].alone
  <2> SUFFICES ASSUME NEW q \in CatalogRequests \ {r}
               PROVE  /\ catalogArg'[q] \in CatalogArgs /\ Same(catalogArg'[q], catalogArg[q])
                      /\ CatalogLocalsOK(catalogPc'[q], catalogArg'[q])
                      /\ catalogPc[q] # "idle" => ~catalogArg'[q].alone
    OBVIOUS
  <2>1. CASE q \in C!Busy
    BY <1>2, <2>1, Overlapping DEF C!Busy
  <2>2. CASE q \notin C!Busy
    BY <1>2, <2>2 DEF C!Busy, Same, CatalogShape, CallsOK
  <2>3. QED BY <2>1, <2>2
<1>4. catalogArg' \in [CatalogRequests -> CatalogArgs]
  <2>1. \A q \in CatalogRequests : catalogArg'[q] \in CatalogArgs
    BY <1>1, <1>2, <1>3
  <2>2. QED BY <1>2, <2>1
<1>5. Lonely(catalogPc', catalogArg')
  <2>1. b.alone => \A q \in CatalogRequests : catalogPc[q] = "idle"
    BY <1>0, <1>1 DEF C!Busy
  <2>2. QED BY <1>2, <1>3, <2>1 DEF Lonely
<1>6. Passed(r)
  BY <1>2, <1>3 DEF Passed
<1>7. \A q \in CatalogRequests : CatalogLocalsOK(catalogPc'[q], catalogArg'[q])
  BY <1>1, <1>2, <1>3
<1>8. QED BY <1>1, <1>2, <1>4, <1>5, <1>6, <1>7 DEF CallsOK

\* An edit of one statement.
LEMMA EditShape ==
    ASSUME CatalogShape, NEW r \in CatalogRequests, C!Edit(r)
    PROVE  /\ CallsOK(catalogPc', catalogArg') /\ Passed(r) /\ catalogPc' = catalogPc
           /\ catalogPc[r] = "idle" /\ settled' = {}
           /\ catalogArg'[r] = catalogArg[r]
<1>1. /\ catalogPc' = catalogPc /\ catalogPc[r] = "idle" /\ settled' = {}
      /\ catalogArg' = [q \in CatalogRequests |-> catalogArg'[q]]
      /\ \A q \in CatalogRequests : catalogArg'[q] = IF q \in C!Busy THEN C!NotAlone(q) ELSE catalogArg[q]
  BY DEF C!Edit
<1>2. \A q \in CatalogRequests :
         /\ catalogArg'[q] \in CatalogArgs /\ Same(catalogArg'[q], catalogArg[q])
         /\ CatalogLocalsOK(catalogPc[q], catalogArg'[q])
         /\ catalogPc[q] # "idle" => ~catalogArg'[q].alone
  <2> SUFFICES ASSUME NEW q \in CatalogRequests
               PROVE  /\ catalogArg'[q] \in CatalogArgs /\ Same(catalogArg'[q], catalogArg[q])
                      /\ CatalogLocalsOK(catalogPc[q], catalogArg'[q])
                      /\ catalogPc[q] # "idle" => ~catalogArg'[q].alone
    OBVIOUS
  <2>1. CASE q \in C!Busy
    BY <1>1, <2>1, Overlapping DEF C!Busy
  <2>2. CASE q \notin C!Busy
    BY <1>1, <2>2 DEF C!Busy, Same, CatalogShape, CallsOK
  <2>3. QED BY <2>1, <2>2
<1>3. catalogArg' \in [CatalogRequests -> CatalogArgs]
  BY <1>1, <1>2
<1>4. Lonely(catalogPc', catalogArg')
  BY <1>1, <1>2 DEF Lonely
<1>5. CallsOK(catalogPc', catalogArg')
  BY <1>1, <1>2, <1>3, <1>4 DEF CallsOK, CatalogShape
<1>6. Passed(r)
  BY <1>1, <1>2 DEF Passed
<1>7. QED BY <1>1, <1>5, <1>6 DEF C!Busy

-----------------------------------------------------------------------------
(* What a step must show *)

\* What the step leaves the other calls to count on.
Kept(r) ==
    /\ \A q \in CatalogRequests \ {r} : catalogPc[q] = "insert" => catalogArg[q].all \notin settled'
    /\ \A q \in CatalogRequests \ {r} : catalogPc[q] = "update" =>
          LET k == catalogArg[q].item IN
          /\ track'[k] # C!NoTrack
          /\ k \notin torn' \/ settled' # {} => (k \notin torn \/ settled # {}) /\ Agree(track[k], track'[k])

LEMMA InvStep ==
    ASSUME CatalogInv, NEW r \in CatalogRequests, TablesOK', CallsOK(catalogPc', catalogArg'),
           Passed(r), Kept(r),
           catalogPc'[r] # "idle" => Knows(Now', catalogPc'[r], catalogArg'[r]),
           Counts(Now', torn', settled', catalogPc'[r], catalogArg'[r]),
           AskedOK(Now', asked', torn'), ThroughOK(Now', settled')
    PROVE  CatalogInv'
<1>1. \A q \in CatalogRequests : catalogPc'[q] # "idle" => Knows(Now', catalogPc'[q], catalogArg'[q])
  <2>1. ASSUME NEW q \in CatalogRequests \ {r}, catalogPc'[q] # "idle"
        PROVE  Knows(Now', catalogPc'[q], catalogArg'[q])
    BY <2>1 DEF Passed, Knows
  <2>2. QED BY <2>1
<1>2. \A q \in CatalogRequests : Counts(Now', torn', settled', catalogPc'[q], catalogArg'[q])
  <2>1. ASSUME NEW q \in CatalogRequests \ {r}
        PROVE  Counts(Now', torn', settled', catalogPc'[q], catalogArg'[q])
    <3>1. /\ Counts(Now, torn, settled, catalogPc[q], catalogArg[q]) /\ catalogPc'[q] = catalogPc[q]
          /\ Same(catalogArg'[q], catalogArg[q])
      BY DEF CatalogInv, Passed
    <3>2. /\ catalogPc[q] = "insert" => catalogArg[q].all \notin settled'
          /\ catalogPc[q] = "update" =>
                LET k == catalogArg[q].item IN
                /\ track'[k] # C!NoTrack
                /\ k \notin torn' \/ settled' # {} =>
                      (k \notin torn \/ settled # {}) /\ Agree(track[k], track'[k])
      BY DEF Kept
    <3>3. Now.track = track /\ Now'.track = track'
      BY DEF Now
    <3>4. CASE catalogPc[q] = "insert"
      BY <3>1, <3>2, <3>4 DEF Counts, Same
    <3>5. CASE catalogPc[q] = "update"
      BY <3>1, <3>2, <3>3, <3>5 DEF Counts, Same, Agree
    <3>6. CASE catalogPc[q] \notin {"insert", "update"}
      BY <3>1, <3>6 DEF Counts
    <3>7. QED BY <3>4, <3>5, <3>6
  <2>2. QED BY <2>1
<1>3. QED BY <1>1, <1>2 DEF CatalogInv, CatalogShape

\* The tables stay.
LEMMA QuietStep ==
    ASSUME CatalogInv, NEW r \in CatalogRequests, UNCHANGED <<C!rows, asked, torn>>, settled' \in {settled, {}},
           CallsOK(catalogPc', catalogArg'), Passed(r),
           catalogPc'[r] # "idle" => Knows(Now, catalogPc'[r], catalogArg'[r]),
           Counts(Now, torn, settled', catalogPc'[r], catalogArg'[r])
    PROVE  CatalogInv'
<1>1. Now' = Now /\ UNCHANGED <<setting, track, milestone, card, asked, torn>>
  BY DEF C!rows, Now
<1>2. TablesOK' /\ AskedOK(Now', asked', torn')
  BY <1>1 DEF CatalogInv, CatalogShape, TablesOK
<1>3. ThroughOK(Now', settled')
  BY <1>1 DEF CatalogInv, ThroughOK
<1>4. Kept(r)
  <2>1. ASSUME NEW q \in CatalogRequests PROVE Counts(Now, torn, settled, catalogPc[q], catalogArg[q])
    BY DEF CatalogInv
  <2>2. QED BY <1>1, <2>1 DEF Kept, Counts, Agree, Now
<1>5. QED BY <1>1, <1>2, <1>3, <1>4, InvStep

-----------------------------------------------------------------------------
(* Seeds *)

LEMMA EntriesAre ==
    ASSUME C!ListsAreFilled, NEW list \in C!Lists
    PROVE  /\ C!ListEntries(list) \subseteq Items /\ C!ListEntries(list) # {}
           /\ list \in {"trackNames", "tracks"} => C!ListEntries(list) = Tracks
           /\ list \in Plain => C!ListEntries(list) \subseteq C!Settings
           /\ list = "card" => C!ListEntries(list) \subseteq Cards
           /\ list = "milestones" => C!ListEntries(list) = Thresholds
           /\ list = "grants" => C!ListEntries(list) = C!Grants
           /\ list = "rules" => C!ListEntries(list) = ImpactRules
<1>1. C!ListEntries(list) # {}
  BY DEF C!ListsAreFilled
<1>2. CASE list = "card"
  BY <1>1, <1>2 DEF C!ListsAreFilled, C!ListEntries, Plain, Items
<1>3. CASE list \in {"trackNames", "tracks", "milestones", "rules"}
  BY <1>1, <1>3 DEF C!ListEntries, Plain, Items
<1>4. CASE list \in Plain
  <2>1. C!ListEntries(list) \subseteq SeededTypes \cup Preferences \cup Flags \cup Kinds
                               \cup Roles \cup Permissions \cup C!Grants
    BY <1>4 DEF C!ListEntries, Plain
  <2>2. C!ListEntries(list) \subseteq C!Settings
    BY <2>1 DEF C!Settings, C!PlatformRows
  <2>3. list = "grants" => C!ListEntries(list) = C!Grants
    BY DEF C!ListEntries
  <2>4. QED BY <1>1, <1>4, <2>2, <2>3 DEF Items, Plain
<1>5. QED BY <1>2, <1>3, <1>4 DEF C!Lists, Plain

LEMMA PresentIs == ASSUME NEW list \in C!Lists, NEW i PROVE C!Present(list, i) <=> In(Now, list, i)
  BY DEF C!Present, In, Now, C!Lists, Plain

LEMMA RuleRowsAre == ASSUME NEW i \in ImpactRules PROVE C!RuleRows(i) \subseteq C!Settings
  BY DEF C!Settings

\* An entry of a seed is dealt with: what is left is in order, and if that was the
\* last one the seed is done.
LEMMA RestOK ==
    ASSUME C!ListsAreFilled, NEW a \in CatalogArgs, a.call = "seed", SeedOK("find", a), NEW i \in a.todo
    PROVE  LET b == C!Rest(a, i)
               label == IF b.todo = {} THEN "done" ELSE "find"
           IN
           /\ b \in CatalogArgs /\ CatalogLocalsOK(label, b)
           /\ b.alone = a.alone /\ b.call = "seed" /\ b.all = a.all
           /\ \A n : /\ \A list \in Of(a.all) : list \in Of(a.stages) \/ Complete(n, list)
                     /\ \A x \in C!ListEntries(a.stages[1]) \ a.todo : Fixed(n, a.stages[1], x)
                     /\ Fixed(n, a.stages[1], i)
                     => Progress(n, label, b)
<1> DEFINE left  == a.todo \ {i}
           later == Tail(a.stages)
           b     == C!Rest(a, i)
           label == IF b.todo = {} THEN "done" ELSE "find"
<1>1. /\ a.stages \in Seq(C!Lists) /\ a.stages # <<>> /\ InOrder(a.stages)
      /\ Of(a.stages) \subseteq Of(a.all) /\ a.todo \subseteq C!ListEntries(a.stages[1]) /\ Listed(a.all)
  BY DEF SeedOK
<1>2. /\ later \in Seq(C!Lists) /\ a.stages[1] \in C!Lists /\ InOrder(later)
      /\ Of(a.stages) = {a.stages[1]} \cup Of(later) /\ Of(a.stages) \subseteq C!Lists
      /\ later # <<>> => later[1] \in Of(a.stages)
  BY <1>1, TailOf
<1>3. /\ NoEntry \in Items \cup {NoEntry} /\ C!NoTrack \in TrackRows \cup {C!NoTrack}
      /\ left \in SUBSET Items
  BY DEF CatalogArgs
<1>4. CASE left # {} \/ later = <<>>
  <2>1. b = [a EXCEPT !.todo = left, !.item = NoEntry, !.track = C!NoTrack]
    BY <1>4 DEF C!Rest
  <2>2. /\ b \in CatalogArgs /\ b.todo = left /\ b.alone = a.alone /\ b.call = "seed" /\ b.all = a.all
        /\ b.stages = a.stages /\ b.item = NoEntry
    BY <2>1, <1>3 DEF CatalogArgs
  <2> HIDE DEF b
  <2>3. SeedOK(label, b)
    BY <1>1, <1>4, <2>2 DEF SeedOK
  <2>4. CatalogLocalsOK(label, b)
    BY <2>2, <2>3 DEF CatalogLocalsOK
  <2>5. ASSUME NEW n, \A list \in Of(a.all) : list \in Of(a.stages) \/ Complete(n, list),
               \A x \in C!ListEntries(a.stages[1]) \ a.todo : Fixed(n, a.stages[1], x),
               Fixed(n, a.stages[1], i)
        PROVE  Progress(n, label, b)
    BY <2>2, <2>5 DEF Progress
  <2>6. QED BY <2>2, <2>4, <2>5 DEF b
<1>5. CASE left = {} /\ later # <<>>
  <2>1. b = [a EXCEPT !.stages = later, !.todo = C!ListEntries(later[1]), !.item = NoEntry, !.track = C!NoTrack]
    BY <1>5 DEF C!Rest
  <2>2. later[1] \in C!Lists /\ C!ListEntries(later[1]) \subseteq Items /\ C!ListEntries(later[1]) # {}
    BY <1>2, <1>5, EntriesAre
  <2>3. /\ b \in CatalogArgs /\ b.todo = C!ListEntries(later[1])
        /\ b.alone = a.alone /\ b.call = "seed" /\ b.all = a.all
        /\ b.stages = later /\ b.item = NoEntry
    BY <2>1, <2>2, <1>2, <1>3 DEF CatalogArgs
  <2> HIDE DEF b
  <2>4. label = "find"
    BY <2>2, <2>3
  <2>5. SeedOK(label, b)
    BY <1>1, <1>2, <1>5, <2>2, <2>3, <2>4 DEF SeedOK
  <2>6. CatalogLocalsOK(label, b)
    BY <2>3, <2>4, <2>5 DEF CatalogLocalsOK
  <2>7. ASSUME NEW n, \A list \in Of(a.all) : list \in Of(a.stages) \/ Complete(n, list),
               \A x \in C!ListEntries(a.stages[1]) \ a.todo : Fixed(n, a.stages[1], x),
               Fixed(n, a.stages[1], i)
        PROVE  Progress(n, label, b)
    <3>1. \A x \in C!ListEntries(a.stages[1]) : Fixed(n, a.stages[1], x)
      BY <1>5, <2>7
    <3>2. Complete(n, a.stages[1])
      BY <3>1 DEF Complete
    <3>3. \A list \in Of(a.all) : list \in Of(later) \/ Complete(n, list)
      BY <1>2, <2>7, <3>2
    <3>4. QED BY <2>3, <3>3 DEF Progress
  <2>8. QED BY <2>3, <2>6, <2>7 DEF b
<1>6. QED BY <1>4, <1>5

LEMMA SeedInv ==
    ASSUME C!ListsAreFilled, CatalogInv, NEW r \in CatalogRequests, NEW s \in SeedLists, C!Seed(r, s)
    PROVE  CatalogInv'
<1> DEFINE a == [C!NoArg EXCEPT !.call = "seed", !.all = s, !.stages = s, !.todo = C!ListEntries(s[1])]
<1>1. Listed(s) /\ s \in Seq(C!Lists) /\ s # <<>> /\ s[1] \in C!Lists /\ Of(s) \subseteq C!Lists
  BY SeedsListed, TailOf DEF Listed
<1>2. /\ a \in CatalogArgs /\ a.call = "seed" /\ a.all = s /\ a.stages = s /\ a.todo = C!ListEntries(s[1])
      /\ a.todo # {}
  BY <1>1, NoArgType, EntriesAre DEF CatalogArgs, C!NoArg
<1>3. C!Begin(r, "find", a) /\ UNCHANGED <<C!rows, C!history>>
  BY DEF C!Seed
<1> HIDE DEF a
<1>4. CatalogLocalsOK("find", a)
  BY <1>1, <1>2 DEF CatalogLocalsOK, SeedOK, Listed
<1>5. /\ CallsOK(catalogPc', catalogArg') /\ Passed(r) /\ catalogPc'[r] = "find" /\ Same(catalogArg'[r], a)
  BY <1>2, <1>3, <1>4, CatalogBeginShape DEF CatalogInv, C!Labels
<1>6. Knows(Now, "find", catalogArg'[r])
  BY <1>2, <1>5 DEF Knows, Progress, Replacing, Same
<1>7. Counts(Now, torn, settled', "find", catalogArg'[r])
  BY DEF Counts
<1>8. UNCHANGED <<C!rows, asked, torn, settled>>
  BY <1>3 DEF C!history
<1>9. QED BY <1>5, <1>6, <1>7, <1>8, QuietStep

\* The seed r is at, as r is to go on.
LEMMA SeedAt ==
    ASSUME CatalogInv, NEW r \in CatalogRequests, catalogPc[r] \in {"find", "insert", "update"}
    PROVE  /\ catalogArg[r] \in CatalogArgs /\ catalogArg[r].call = "seed"
           /\ SeedOK(catalogPc[r], catalogArg[r]) /\ SeedOK("find", catalogArg[r])
           /\ catalogArg[r].stages[1] \in C!Lists /\ catalogArg[r].stages[1] \in Of(catalogArg[r].all)
           /\ catalogArg[r].todo \subseteq C!ListEntries(catalogArg[r].stages[1])
           /\ catalogArg[r].alone => Progress(Now, catalogPc[r], catalogArg[r])
           /\ Counts(Now, torn, settled, catalogPc[r], catalogArg[r])
<1>1. catalogArg[r] \in CatalogArgs /\ catalogArg[r].call = "seed" /\ SeedOK(catalogPc[r], catalogArg[r])
  BY DEF CatalogInv, CatalogShape, CallsOK, CatalogLocalsOK
<1>2. SeedOK("find", catalogArg[r])
  BY <1>1 DEF SeedOK
<1>3. catalogArg[r].stages[1] \in C!Lists /\ catalogArg[r].stages[1] \in Of(catalogArg[r].all)
  BY <1>1, TailOf DEF SeedOK
<1>4. catalogArg[r].alone => Progress(Now, catalogPc[r], catalogArg[r])
  BY DEF CatalogInv, Knows
<1>5. QED BY <1>1, <1>2, <1>3, <1>4 DEF CatalogInv, SeedOK

\* What a seed passes over is in the catalog, when nothing has overlapped it: the
\* permissions and roles come before the grants.
LEMMA Granted ==
    ASSUME C!ListsAreFilled, NEW a \in CatalogArgs, a.call = "seed", SeedOK("find", a), NEW i \in a.todo,
           a.stages[1] = "grants", Progress(Now, "find", a)
    PROVE  C!Grantable(i)
<1>1. /\ a.stages \in Seq(C!Lists) /\ a.stages # <<>> /\ InOrder(a.stages)
      /\ Of(a.stages) \subseteq Of(a.all) /\ a.todo \subseteq C!ListEntries(a.stages[1]) /\ Listed(a.all)
  BY DEF SeedOK
<1>2. /\ "grants" \in Of(a.stages)
      /\ Of(a.stages) \cap {"permissions", "roles"} = {}
  BY <1>1, TailOf
<1>3. {"permissions", "roles"} \subseteq Of(a.all)
  BY <1>1, <1>2 DEF Listed
<1>4. Complete(Now, "permissions") /\ Complete(Now, "roles")
  BY <1>2, <1>3 DEF Progress
<1>5. i \in Roles \X Permissions
  BY <1>1, EntriesAre DEF C!Lists, C!Grants
<1>6. i[1] \in C!ListEntries("roles") /\ i[2] \in C!ListEntries("permissions")
  BY <1>5 DEF C!ListEntries
<1>7. QED BY <1>4, <1>6 DEF Complete, Fixed, In, Now, C!Grantable, Plain

LEMMA FindInv ==
    ASSUME C!ListsAreFilled, CatalogInv, NEW r \in CatalogRequests, NEW i \in catalogArg[r].todo, C!Find(r, i)
    PROVE  CatalogInv'
<1> DEFINE a     == [catalogArg[r] EXCEPT !.item = i]
           stage == catalogArg[r].stages[1]
           next  == C!Rest(a, i)
<1>1. catalogPc[r] = "find" /\ UNCHANGED <<C!rows, asked, torn, settled>>
  BY DEF C!Find, C!history
<1>2. /\ catalogArg[r] \in CatalogArgs /\ catalogArg[r].call = "seed" /\ SeedOK("find", catalogArg[r])
      /\ stage \in C!Lists /\ stage \in Of(catalogArg[r].all) /\ i \in C!ListEntries(stage)
      /\ catalogArg[r].alone => Progress(Now, "find", catalogArg[r])
  BY <1>1, SeedAt
<1>3. i \in Items
  BY <1>2, EntriesAre
<1>4. /\ a \in CatalogArgs /\ a.item = i /\ a.alone = catalogArg[r].alone /\ a.call = "seed"
      /\ a.all = catalogArg[r].all
      /\ a.stages = catalogArg[r].stages /\ a.todo = catalogArg[r].todo
  BY <1>2, <1>3 DEF CatalogArgs
<1>5. \/ /\ stage \in {"trackNames", "tracks"} /\ C!Present(stage, i)
         /\ C!GoTo(r, "update", [a EXCEPT !.track = track[i]])
      \/ /\ stage \notin {"trackNames", "tracks"}
         /\ C!Present(stage, i) \/ (stage = "grants" /\ ~C!Grantable(i))
         /\ C!GoTo(r, IF next.todo = {} THEN "done" ELSE "find", next)
      \/ ~C!Present(stage, i) /\ C!GoTo(r, "insert", a)
  BY <1>4 DEF C!Find
<1> HIDE DEF a, next
<1>6. SeedOK("find", a) /\ (a.alone => Progress(Now, "find", a))
  BY <1>2, <1>4 DEF SeedOK, Progress
<1>7. C!Present(stage, i) <=> In(Now, stage, i)
  BY <1>2, PresentIs
<1>8. CASE stage \in {"trackNames", "tracks"} /\ C!GoTo(r, "update", [a EXCEPT !.track = track[i]])
           /\ C!Present(stage, i)
  <2> DEFINE b == [a EXCEPT !.track = track[i]]
  <2>1. i \in Tracks /\ track[i] # C!NoTrack /\ track[i] \in TrackRows \cup {C!NoTrack}
    BY <1>2, <1>7, <1>8, EntriesAre DEF In, Now, CatalogInv, CatalogShape, TablesOK
  <2>2. /\ b \in CatalogArgs /\ b.item = i /\ b.alone = catalogArg[r].alone /\ b.call = "seed" /\ b.all = a.all
        /\ b.stages = a.stages /\ b.todo = a.todo /\ b.track = track[i]
    BY <1>4, <2>1 DEF CatalogArgs
  <2>3. C!GoTo(r, "update", b)
    BY <1>8
  <2> HIDE DEF b
  <2>4. CatalogLocalsOK("update", b)
    BY <1>4, <1>6, <1>8, <2>1, <2>2 DEF CatalogLocalsOK, SeedOK
  <2>5. CallsOK(catalogPc', catalogArg') /\ Passed(r) /\ catalogPc'[r] = "update" /\ catalogArg'[r] = b
    BY <1>1, <2>2, <2>3, <2>4, MoveShape, MovePasses, Moved DEF CatalogInv, C!Labels
  <2>6. Knows(Now, "update", b)
    BY <1>4, <1>6, <2>2 DEF Knows, Progress, Replacing
  <2>7. Counts(Now, torn, settled', "update", b)
    BY <2>1, <2>2 DEF Counts, Agree, Now
  <2>8. QED BY <1>1, <2>5, <2>6, <2>7, QuietStep
<1>9. CASE stage \notin {"trackNames", "tracks"}
           /\ (C!Present(stage, i) \/ (stage = "grants" /\ ~C!Grantable(i)))
           /\ C!GoTo(r, IF next.todo = {} THEN "done" ELSE "find", next)
  <2> DEFINE label == IF next.todo = {} THEN "done" ELSE "find"
  <2>1. a.alone => Fixed(Now, stage, i)
    BY <1>4, <1>6, <1>7, <1>9, Granted DEF Fixed
  <2>2. /\ next \in CatalogArgs /\ CatalogLocalsOK(label, next) /\ next.alone = a.alone /\ next.call = "seed"
        /\ a.alone => Progress(Now, label, next)
    BY <1>4, <1>6, <2>1, RestOK DEF next, Progress
  <2>3. label \in C!Labels /\ label \in {"done", "find"}
    BY DEF C!Labels
  <2>4. C!GoTo(r, label, next)
    BY <1>9
  <2> HIDE DEF label
  <2>5. CallsOK(catalogPc', catalogArg') /\ Passed(r) /\ catalogPc'[r] = label /\ catalogArg'[r] = next
    BY <1>1, <1>4, <2>2, <2>3, <2>4, MoveShape, MovePasses, Moved DEF CatalogInv
  <2>6. Knows(Now, label, next)
    BY <2>2 DEF Knows, Replacing
  <2>7. Counts(Now, torn, settled', label, next)
    BY <2>3 DEF Counts
  <2>8. QED BY <1>1, <2>5, <2>6, <2>7, QuietStep
<1>10. CASE ~C!Present(stage, i) /\ C!GoTo(r, "insert", a)
  <2>1. CatalogLocalsOK("insert", a)
    BY <1>4, <1>6 DEF CatalogLocalsOK, SeedOK
  <2>2. CallsOK(catalogPc', catalogArg') /\ Passed(r) /\ catalogPc'[r] = "insert" /\ catalogArg'[r] = a
    BY <1>1, <1>4, <1>10, <2>1, MoveShape, MovePasses, Moved DEF CatalogInv, C!Labels
  <2>3. Knows(Now, "insert", a)
    BY <1>4, <1>6 DEF Knows, Progress, Replacing
  <2>4. a.all \notin settled
    BY <1>2, <1>4, <1>7, <1>10 DEF CatalogInv, ThroughOK, Complete, Fixed
  <2>5. Counts(Now, torn, settled', "insert", a)
    BY <1>1, <2>4 DEF Counts
  <2>6. QED BY <1>1, <2>2, <2>3, <2>5, QuietStep
<1>11. QED BY <1>5, <1>8, <1>9, <1>10

\* Rows come in and none is changed.
Filled ==
    /\ \A x \in C!Settings : setting[x] # "none" => setting'[x] = setting[x]
    /\ \A k \in Tracks : track[k] # C!NoTrack => track'[k] = track[k]
    /\ \A m \in Milestones : milestone[m] # C!NoMilestone => milestone'[m] = milestone[m]
    /\ \A t \in Cards : card[t] # "none" => card'[t] = card[t]

Grows == \A list \in C!Lists : \A i \in C!ListEntries(list) : Fixed(Now, list, i) => Fixed(Now', list, i)

LEMMA NowIs ==
    /\ Now.setting = setting /\ Now.track = track /\ Now.milestone = milestone /\ Now.card = card
    /\ Now'.setting = setting' /\ Now'.track = track' /\ Now'.milestone = milestone' /\ Now'.card = card'
  BY DEF Now

LEMMA FilledGrows == ASSUME C!ListsAreFilled, Filled PROVE Grows
<1> SUFFICES ASSUME NEW list \in C!Lists, NEW i \in C!ListEntries(list), Fixed(Now, list, i)
             PROVE  Fixed(Now', list, i)
  BY DEF Grows
<1>1. CASE list \in {"trackNames", "tracks"}
  <2>1. i \in Tracks /\ track[i] # C!NoTrack
    BY <1>1, EntriesAre, NowIs DEF Fixed, In
  <2>2. track'[i] = track[i]
    BY <2>1 DEF Filled
  <2>3. QED BY <1>1, <2>2, NowIs DEF Fixed, In, Plain
<1>2. CASE list = "card"
  BY <1>2, EntriesAre, NowIs DEF Fixed, In, Plain, Filled
<1>3. CASE list = "milestones"
  <2>1. PICK m \in Milestones : milestone[m].threshold = i
    BY <1>3, NowIs DEF Fixed, In
  <2>2. i # NoEntry
    BY <1>3, EntriesAre DEF C!ListsAreFilled
  <2>3. milestone'[m] = milestone[m]
    BY <2>1, <2>2 DEF Filled, C!NoMilestone
  <2>4. QED BY <1>3, <2>1, <2>3, NowIs DEF Fixed, In, Plain
<1>4. CASE list = "rules"
  <2>1. PICK x \in C!RuleRows(i) : setting[x] # "none"
    BY <1>4, NowIs DEF Fixed, In
  <2>2. x \in C!Settings
    BY <1>4, EntriesAre, RuleRowsAre
  <2>3. setting'[x] # "none"
    BY <2>1, <2>2 DEF Filled
  <2>4. QED BY <1>4, <2>1, <2>3, NowIs DEF Fixed, In, Plain
<1>5. CASE list \in Plain
  <2>1. i \in C!Settings
    BY <1>5, EntriesAre
  <2>2. QED BY <1>5, <2>1, NowIs DEF Fixed, In, Plain, Filled
<1>6. QED BY <1>1, <1>2, <1>3, <1>4, <1>5 DEF C!Lists, Plain

LEMMA GrowsThrough ==
    ASSUME CatalogInv, Grows, UNCHANGED settled
    PROVE  ThroughOK(Now', settled')
  BY DEF CatalogInv, ThroughOK, Grows, Complete

\* The row a seed has missed comes in, and the seed goes on.
LEMMA GoOnOK ==
    ASSUME C!ListsAreFilled, CatalogInv, NEW r \in CatalogRequests, catalogPc[r] \in {"insert", "update"},
           C!GoOn(r), Grows,
           Fixed(Now', catalogArg[r].stages[1], catalogArg[r].item)
    PROVE  /\ CallsOK(catalogPc', catalogArg') /\ Passed(r)
           /\ Knows(Now', catalogPc'[r], catalogArg'[r])
           /\ Counts(Now', torn', settled', catalogPc'[r], catalogArg'[r])
<1> DEFINE a == catalogArg[r]
           i == a.item
           b == C!Rest(a, i)
           label == IF b.todo = {} THEN "done" ELSE "find"
<1>1. /\ a \in CatalogArgs /\ a.call = "seed" /\ SeedOK("find", a) /\ i \in a.todo
      /\ a.stages[1] \in C!Lists
      /\ a.alone => Progress(Now, catalogPc[r], a)
  BY SeedAt DEF SeedOK
<1>2. Of(a.all) \subseteq C!Lists
  BY <1>1, TailOf DEF SeedOK, Listed
<1>3. C!GoTo(r, label, b)
  BY DEF C!GoOn
<1>4. /\ b \in CatalogArgs /\ CatalogLocalsOK(label, b) /\ b.alone = a.alone /\ b.call = "seed"
      /\ \A n : /\ \A list \in Of(a.all) : list \in Of(a.stages) \/ Complete(n, list)
                /\ \A x \in C!ListEntries(a.stages[1]) \ a.todo : Fixed(n, a.stages[1], x)
                /\ Fixed(n, a.stages[1], i)
                => Progress(n, label, b)
  BY <1>1, RestOK
<1>5. label \in C!Labels /\ label \in {"done", "find"}
  BY DEF C!Labels
<1>6. a.alone => Progress(Now', label, b)
  <2> SUFFICES ASSUME a.alone PROVE Progress(Now', label, b)
    OBVIOUS
  <2>1. \A list \in Of(a.all) : list \in Of(a.stages) \/ Complete(Now', list)
    BY <1>1, <1>2 DEF Progress, Complete, Grows
  <2>2. \A x \in C!ListEntries(a.stages[1]) \ a.todo : Fixed(Now', a.stages[1], x)
    BY <1>1 DEF Progress, Grows
  <2>3. QED BY <1>4, <2>1, <2>2
<1> HIDE DEF b, label
<1>7. CallsOK(catalogPc', catalogArg') /\ Passed(r) /\ catalogPc'[r] = label /\ catalogArg'[r] = b
  BY <1>3, <1>4, <1>5, MoveShape, MovePasses, Moved DEF CatalogInv
<1>8. Knows(Now', label, b)
  BY <1>4, <1>6 DEF Knows, Replacing
<1>9. Counts(Now', torn', settled', label, b)
  BY <1>5 DEF Counts
<1>10. QED BY <1>7, <1>8, <1>9

LEMMA FilledInv ==
    ASSUME C!ListsAreFilled, CatalogInv, NEW r \in CatalogRequests, catalogPc[r] = "insert", C!GoOn(r), Filled,
           TablesOK',
           Fixed(Now', catalogArg[r].stages[1], catalogArg[r].item), UNCHANGED C!history
    PROVE  CatalogInv'
<1>1. UNCHANGED <<asked, torn, settled>>
  BY DEF C!history
<1>2. Grows
  BY FilledGrows
<1>3. /\ CallsOK(catalogPc', catalogArg') /\ Passed(r)
      /\ Knows(Now', catalogPc'[r], catalogArg'[r])
      /\ Counts(Now', torn', settled', catalogPc'[r], catalogArg'[r])
  BY <1>2, GoOnOK
<1>4. Kept(r)
  <2>1. ASSUME NEW q \in CatalogRequests PROVE Counts(Now, torn, settled, catalogPc[q], catalogArg[q])
    BY DEF CatalogInv
  <2>2. ASSUME NEW q \in CatalogRequests \ {r}, catalogPc[q] = "update" PROVE catalogArg[q].item \in Tracks
    <3>1. SeedOK(catalogPc[q], catalogArg[q]) /\ catalogArg[q].stages[1] \in C!Lists
      BY <2>2, SeedAt
    <3>2. QED BY <2>2, <3>1, EntriesAre DEF SeedOK
  <2>3. QED BY <1>1, <2>1, <2>2, NowIs DEF Kept, Counts, Agree, Filled
<1>5. AskedOK(Now', asked', torn')
  <2>1. AskedOK(Now, asked, torn)
    BY DEF CatalogInv
  <2>2. QED BY <1>1, <2>1, NowIs DEF AskedOK, Filled
<1>6. ThroughOK(Now', settled')
  BY <1>1, <1>2, GrowsThrough
<1>7. QED BY <1>3, <1>4, <1>5, <1>6, InvStep

LEMMA ReturnInv ==
    ASSUME CatalogInv, NEW r \in CatalogRequests, catalogPc[r] # "idle", C!Return(r),
           UNCHANGED <<C!rows, C!history>>
    PROVE  CatalogInv'
<1>1. C!GoTo(r, "idle", C!NoArg) /\ UNCHANGED <<C!rows, asked, torn, settled>>
  BY DEF C!Return, C!history
<1>2. CallsOK(catalogPc', catalogArg') /\ Passed(r) /\ catalogPc'[r] = "idle"
  BY <1>1, NoArgType, NoArgOK, MoveShape, MovePasses, Moved DEF CatalogInv, C!Labels
<1>3. Counts(Now, torn, settled', catalogPc'[r], catalogArg'[r])
  BY <1>2 DEF Counts
<1>4. QED BY <1>1, <1>2, <1>3, QuietStep

LEMMA TrackRowsAre ==
    /\ C!SeedTrack \in TrackRows /\ [C!SeedTrack EXCEPT !.texts = "none"] \in TrackRows
    /\ C!SeedTrack.names = "seeded" /\ C!SeedTrack.texts = "seeded" /\ C!SeedTrack.enabled = TRUE
    /\ C!SeedTrack.status = "active"
    /\ [C!SeedTrack EXCEPT !.texts = "none"].names = "seeded"
    /\ C!NoTrack \notin TrackRows
  BY DEF C!SeedTrack, TrackRows, C!NoTrack

LEMMA InsertInv ==
    ASSUME C!ListsAreFilled, CatalogInv, NEW r \in CatalogRequests, C!Insert(r)
    PROVE  CatalogInv'
<1> DEFINE i     == catalogArg[r].item
           stage == catalogArg[r].stages[1]
<1>1. catalogPc[r] = "insert" /\ UNCHANGED C!history
  BY DEF C!Insert
<1>2. stage \in C!Lists /\ i \in C!ListEntries(stage)
  BY <1>1, SeedAt DEF SeedOK
<1>3. /\ setting \in [C!Settings -> C!Switches] /\ track \in [Tracks -> TrackRows \cup {C!NoTrack}]
      /\ milestone \in [Milestones -> MilestoneRows] /\ card \in [Cards -> C!CardStatus \cup {"none"}]
  BY DEF CatalogInv, CatalogShape, TablesOK
<1>4. CASE C!Throw(r) /\ UNCHANGED C!rows
  BY <1>1, <1>4, ReturnInv DEF C!Throw
<1>5. ASSUME C!GoOn(r), Filled, TablesOK', Fixed(Now', stage, i) PROVE CatalogInv'
  BY <1>1, <1>5, FilledInv
<1>6. C!Present(stage, i) <=> In(Now, stage, i)
  BY <1>2, PresentIs
<1> HIDE DEF i, stage
<1>7. CASE C!GoOn(r) /\ stage \in {"trackNames", "tracks"} /\ ~C!Present(stage, i)
           /\ track' = [track EXCEPT ![i] =
                  IF stage = "tracks" THEN C!SeedTrack ELSE [C!SeedTrack EXCEPT !.texts = "none"]]
           /\ UNCHANGED <<setting, milestone, card>>
  <2>1. i \in Tracks /\ track[i] = C!NoTrack
    BY <1>2, <1>6, <1>7, EntriesAre, NowIs DEF In, Plain
  <2>2. track' \in [Tracks -> TrackRows \cup {C!NoTrack}]
    BY <1>3, <1>7, TrackRowsAre
  <2>3. /\ \A k \in Tracks \ {i} : track'[k] = track[k]
        /\ track'[i] = IF stage = "tracks" THEN C!SeedTrack ELSE [C!SeedTrack EXCEPT !.texts = "none"]
    BY <1>3, <1>7, <2>1
  <2>4. Filled
    BY <1>7, <2>1, <2>3 DEF Filled
  <2>5. Fixed(Now', stage, i)
    <3>1. CASE stage = "tracks"
      <4>1. track'[i] = C!SeedTrack /\ C!SeedTrack # C!NoTrack
        BY <2>3, <3>1, TrackRowsAre
      <4>2. QED BY <3>1, <4>1, TrackRowsAre, NowIs DEF Fixed, In, Plain
    <3>2. CASE stage = "trackNames"
      <4>1. track'[i] # C!NoTrack /\ track'[i].names = "seeded"
        BY <2>3, <3>2, TrackRowsAre
      <4>2. QED BY <3>2, <4>1, NowIs DEF Fixed, In, Plain
    <3>3. QED BY <1>7, <3>1, <3>2
  <2>6. TablesOK'
    BY <1>3, <1>7, <2>2 DEF TablesOK
  <2>7. QED BY <1>5, <1>7, <2>4, <2>5, <2>6
<1>8. CASE C!GoOn(r) /\ stage = "card" /\ ~C!Present(stage, i)
           /\ card' = [card EXCEPT ![i] = "active"] /\ UNCHANGED <<setting, track, milestone>>
  <2>1. i \in Cards /\ card[i] = "none"
    BY <1>2, <1>6, <1>8, EntriesAre, NowIs DEF In, Plain
  <2>2. /\ card' \in [Cards -> C!CardStatus \cup {"none"}] /\ card'[i] = "active"
        /\ \A t \in Cards \ {i} : card'[t] = card[t]
    BY <1>3, <1>8, <2>1 DEF C!CardStatus
  <2>3. Filled /\ TablesOK'
    BY <1>3, <1>8, <2>1, <2>2 DEF Filled, TablesOK
  <2>4. Fixed(Now', stage, i)
    BY <1>8, <2>2, NowIs DEF Fixed, In, Plain
  <2>5. QED BY <1>5, <1>8, <2>3, <2>4
<1>9. CASE C!GoOn(r) /\ stage = "milestones"
           /\ (\E m \in Milestones :
                 /\ milestone[m] = C!NoMilestone
                 /\ milestone' = [milestone EXCEPT ![m] = [threshold |-> i, on |-> TRUE]])
           /\ UNCHANGED <<setting, track, card>>
  <2>1. i \in Thresholds
    BY <1>2, <1>9, EntriesAre
  <2>2. PICK m \in Milestones :
           /\ milestone[m] = C!NoMilestone
           /\ milestone' = [milestone EXCEPT ![m] = [threshold |-> i, on |-> TRUE]]
    BY <1>9
  <2>3. [threshold |-> i, on |-> TRUE] \in MilestoneRows
    BY <2>1 DEF MilestoneRows
  <2>4. /\ milestone' \in [Milestones -> MilestoneRows] /\ milestone'[m].threshold = i
        /\ \A n \in Milestones \ {m} : milestone'[n] = milestone[n]
    BY <1>3, <2>2, <2>3
  <2>5. Filled /\ TablesOK'
    BY <1>3, <1>9, <2>2, <2>4 DEF Filled, TablesOK
  <2>6. Fixed(Now', stage, i)
    BY <1>9, <2>4, NowIs DEF Fixed, In, Plain
  <2>7. QED BY <1>5, <1>9, <2>5, <2>6
<1>10. CASE C!GoOn(r) /\ stage = "rules"
            /\ (\E x \in C!RuleRows(i) : setting[x] = "none" /\ setting' = [setting EXCEPT ![x] = "on"])
            /\ UNCHANGED <<track, milestone, card>>
  <2>1. PICK x \in C!RuleRows(i) : setting[x] = "none" /\ setting' = [setting EXCEPT ![x] = "on"]
    BY <1>10
  <2>2. x \in C!Settings
    BY <1>2, <1>10, EntriesAre, RuleRowsAre
  <2>3. /\ setting' \in [C!Settings -> C!Switches] /\ setting'[x] = "on"
        /\ \A y \in C!Settings \ {x} : setting'[y] = setting[y]
    BY <1>3, <2>1, <2>2 DEF C!Switches
  <2>4. Filled /\ TablesOK'
    BY <1>3, <1>10, <2>1, <2>3 DEF Filled, TablesOK
  <2>5. Fixed(Now', stage, i)
    BY <1>10, <2>3, NowIs DEF Fixed, In, Plain
  <2>6. QED BY <1>5, <1>10, <2>4, <2>5
<1>11. CASE C!GoOn(r) /\ stage \in Plain /\ ~C!Present(stage, i)
            /\ setting' = [setting EXCEPT ![i] = "on"] /\ UNCHANGED <<track, milestone, card>>
  <2>1. i \in C!Settings /\ setting[i] = "none"
    BY <1>2, <1>6, <1>11, EntriesAre, NowIs DEF In, Plain
  <2>2. /\ setting' \in [C!Settings -> C!Switches] /\ setting'[i] = "on"
        /\ \A y \in C!Settings \ {i} : setting'[y] = setting[y]
    BY <1>3, <1>11, <2>1 DEF C!Switches
  <2>3. Filled /\ TablesOK'
    BY <1>3, <1>11, <2>1, <2>2 DEF Filled, TablesOK
  <2>4. Fixed(Now', stage, i)
    BY <1>11, <2>2, NowIs DEF Fixed, In, Plain
  <2>5. QED BY <1>5, <1>11, <2>3, <2>4
<1>12. stage \in {"trackNames", "tracks", "card", "milestones", "rules"} \cup Plain
  BY <1>2 DEF C!Lists, Plain
<1>13. QED
  BY <1>4, <1>7, <1>8, <1>9, <1>10, <1>11, <1>12 DEF C!Insert, i, stage, Plain

LEMMA UpdateInv ==
    ASSUME C!ListsAreFilled, CatalogInv, NEW r \in CatalogRequests, C!Update(r)
    PROVE  CatalogInv'
<1> DEFINE i     == catalogArg[r].item
           stage == catalogArg[r].stages[1]
           read  == catalogArg[r].track
           row   == C!Reseeded(stage, track[i], read)
<1>1. /\ catalogPc[r] = "update" /\ C!GoOn(r) /\ UNCHANGED <<setting, milestone, card>>
      /\ UNCHANGED <<asked, torn, settled>>
      /\ track' = [track EXCEPT ![i] = row]
  BY DEF C!Update, C!history
<1>2. /\ stage \in {"trackNames", "tracks"} /\ i \in C!ListEntries(stage) /\ read \in TrackRows
      /\ Counts(Now, torn, settled, "update", catalogArg[r])
  BY <1>1, SeedAt DEF SeedOK, CatalogArgs
<1>3. i \in Tracks /\ track[i] # C!NoTrack
  BY <1>2, EntriesAre, NowIs DEF Counts, C!Lists
<1>4. /\ setting \in [C!Settings -> C!Switches] /\ track \in [Tracks -> TrackRows \cup {C!NoTrack}]
      /\ milestone \in [Milestones -> MilestoneRows] /\ card \in [Cards -> C!CardStatus \cup {"none"}]
  BY DEF CatalogInv, CatalogShape, TablesOK
<1>5. track[i] \in TrackRows
  BY <1>3, <1>4
<1>7. /\ row \in TrackRows /\ row.names = "seeded" /\ row # C!NoTrack
      /\ stage = "trackNames" => /\ row.texts = track[i].texts /\ row.status = track[i].status
                                 /\ row.enabled = track[i].enabled /\ row.open = track[i].open
      /\ stage = "tracks" => /\ row.texts = "seeded" /\ row.enabled = TRUE /\ row.open = read.open
                             /\ row.status = IF read.status = "archived" THEN "archived" ELSE "active"
  <2>1. CASE stage = "trackNames"
    <3>1. row = [track[i] EXCEPT !.names = "seeded"]
      BY <2>1 DEF C!Reseeded
    <3>2. QED BY <1>5, <2>1, <3>1, TrackRowsAre DEF TrackRows
  <2>2. CASE stage = "tracks"
    <3>1. row = [names |-> "seeded", texts |-> "seeded", enabled |-> TRUE, open |-> read.open,
                 status |-> IF read.status = "archived" THEN "archived" ELSE "active"]
      BY <2>2 DEF C!Reseeded
    <3> DEFINE status == IF read.status = "archived" THEN "archived" ELSE "active"
    <3>2. status \in {"active", "suspended", "archived"} /\ read.open \in BOOLEAN
      BY <1>2 DEF TrackRows
    <3>3. row = [names |-> "seeded", texts |-> "seeded", enabled |-> TRUE, open |-> read.open,
                 status |-> status]
      BY <3>1
    <3>4. row.status = status
      BY <3>3
    <3> HIDE DEF status
    <3>5. row \in TrackRows
      BY <3>2, <3>3 DEF TrackRows
    <3>6. /\ row.names = "seeded" /\ row.texts = "seeded" /\ row.enabled = TRUE /\ row.open = read.open
      BY <3>3
    <3>7. row.status = IF read.status = "archived" THEN "archived" ELSE "active"
      BY <3>4 DEF status
    <3> HIDE DEF row
    <3>8. QED BY <2>2, <3>5, <3>6, <3>7, TrackRowsAre
  <2>3. QED BY <1>2, <2>1, <2>2
<1>8. i \notin torn \/ settled # {} => Agree(track[i], row)
  BY <1>2, <1>7, NowIs DEF Counts, Agree
<1> HIDE DEF row
<1>9. /\ track' \in [Tracks -> TrackRows \cup {C!NoTrack}] /\ track'[i] = row
      /\ \A k \in Tracks \ {i} : track'[k] = track[k]
  BY <1>1, <1>3, <1>4, <1>7
<1>10. TablesOK'
  BY <1>1, <1>4, <1>9 DEF TablesOK
<1>11. Grows
  <2> SUFFICES ASSUME NEW list \in C!Lists, NEW x \in C!ListEntries(list), Fixed(Now, list, x)
               PROVE  Fixed(Now', list, x)
    BY DEF Grows
  <2>1. CASE list \notin {"trackNames", "tracks"}
    BY <1>1, <2>1, NowIs DEF Fixed, In
  <2>2. CASE list \in {"trackNames", "tracks"} /\ x # i
    <3>1. track'[x] = track[x]
      BY <1>9, <2>2, EntriesAre
    <3>2. QED BY <2>2, <3>1, NowIs DEF Fixed, In, Plain
  <2>3. CASE list \in {"trackNames", "tracks"} /\ x = i
    BY <1>2, <1>7, <1>9, <2>3, NowIs DEF Fixed, In, Plain
  <2>4. QED BY <2>1, <2>2, <2>3
<1>12. Fixed(Now', stage, i)
  BY <1>2, <1>7, <1>9, NowIs DEF Fixed, In, Plain
<1>13. /\ CallsOK(catalogPc', catalogArg') /\ Passed(r)
       /\ Knows(Now', catalogPc'[r], catalogArg'[r])
       /\ Counts(Now', torn', settled', catalogPc'[r], catalogArg'[r])
  BY <1>1, <1>11, <1>12, GoOnOK
<1>14. Kept(r)
  <2>1. ASSUME NEW q \in CatalogRequests, catalogPc[q] = "update" PROVE catalogArg[q].item \in Tracks
    <3>1. SeedOK(catalogPc[q], catalogArg[q]) /\ catalogArg[q].stages[1] \in C!Lists
      BY <2>1, SeedAt
    <3>2. QED BY <2>1, <3>1, EntriesAre DEF SeedOK
  <2>2. ASSUME NEW q \in CatalogRequests PROVE Counts(Now, torn, settled, catalogPc[q], catalogArg[q])
    BY DEF CatalogInv
  <2>3. QED BY <1>1, <1>7, <1>8, <1>9, <2>1, <2>2, NowIs DEF Kept, Counts, Agree
<1>15. AskedOK(Now', asked', torn')
  <2>1. AskedOK(Now, asked, torn)
    BY DEF CatalogInv
  <2>2. QED BY <1>1, <1>7, <1>8, <1>9, <2>1, NowIs DEF AskedOK, Agree
<1>16. ThroughOK(Now', settled')
  BY <1>1, <1>11, GrowsThrough
<1>17. QED BY <1>10, <1>13, <1>14, <1>15, <1>16, InvStep

\* A seed that nothing has overlapped leaves its lists complete.
LEMMA SeedDone ==
    ASSUME CatalogInv, NEW r \in CatalogRequests, catalogPc[r] = "done", catalogArg[r].alone,
           catalogArg[r].call = "seed"
    PROVE  \A list \in Of(catalogArg[r].all) : list \in C!Lists /\ Complete(Now, list)
<1> DEFINE a == catalogArg[r]
<1>1. SeedOK("done", a) /\ Progress(Now, "done", a)
  BY DEF CatalogInv, CatalogShape, CallsOK, CatalogLocalsOK, Knows
<1>2. Of(a.stages) = {a.stages[1]} \cup Of(<<>>) /\ Of(a.all) \subseteq C!Lists /\ a.todo = {}
  BY <1>1, TailOf DEF SeedOK, Listed
<1>3. Of(<<>>) = {}
  BY DEF Of
<1>4. Complete(Now, a.stages[1])
  BY <1>1, <1>2 DEF Progress, Complete
<1>5. QED BY <1>1, <1>2, <1>3, <1>4 DEF Progress

LEMMA FinishInv ==
    ASSUME CatalogInv, NEW r \in CatalogRequests, C!Finish(r)
    PROVE  CatalogInv'
<1>1. /\ catalogPc[r] = "done" /\ C!GoTo(r, "idle", C!NoArg) /\ UNCHANGED <<C!rows, asked, torn>>
      /\ settled' = IF catalogArg[r].alone /\ catalogArg[r].call = "seed"
                    THEN settled \cup {catalogArg[r].all}
                    ELSE settled
  BY DEF C!Finish, C!Return
<1>2. CallsOK(catalogPc', catalogArg') /\ Passed(r) /\ catalogPc'[r] = "idle"
  BY <1>1, NoArgType, NoArgOK, MoveShape, MovePasses, Moved DEF CatalogInv, C!Labels
<1>3. Counts(Now', torn', settled', catalogPc'[r], catalogArg'[r])
  BY <1>2 DEF Counts
<1>4. CASE ~(catalogArg[r].alone /\ catalogArg[r].call = "seed")
  <2>1. UNCHANGED C!history
    BY <1>1, <1>4 DEF C!history
  <2>2. QED BY <1>1, <2>1, ReturnInv DEF C!Return
<1>5. CASE catalogArg[r].alone /\ catalogArg[r].call = "seed"
  <2>1. Now' = Now /\ TablesOK' /\ UNCHANGED <<asked, torn>>
    BY <1>1 DEF C!rows, Now, CatalogInv, CatalogShape, TablesOK
  <2>2. AskedOK(Now', asked', torn')
    BY <2>1 DEF CatalogInv
  <2>3. ThroughOK(Now', settled')
    BY <1>1, <1>5, <2>1, SeedDone DEF CatalogInv, ThroughOK
  <2>4. Kept(r)
    BY <1>1, <1>5 DEF CatalogInv, CatalogShape, CallsOK, Lonely, Kept
  <2>5. QED BY <1>2, <1>3, <2>1, <2>2, <2>3, <2>4, InvStep
<1>6. QED BY <1>4, <1>5

-----------------------------------------------------------------------------
(* Edits *)

LEMMA AskedSetting ==
    ASSUME C!ListsAreFilled, CatalogInv, NEW x \in C!Settings, NEW to \in {"on", "off"},
           setting' = [setting EXCEPT ![x] = to], asked' = [asked EXCEPT ![x] = to],
           UNCHANGED <<track, milestone, card, torn>>
    PROVE  TablesOK' /\ AskedOK(Now', asked', torn')
<1>1. /\ setting \in [C!Settings -> C!Switches]
      /\ asked = [y \in C!Settings \cup Tracks |-> asked[y]] /\ AskedOK(Now, asked, torn)
  BY DEF CatalogInv, CatalogShape, TablesOK, AskedOK
<1>2. /\ setting' \in [C!Settings -> C!Switches] /\ setting'[x] = to
      /\ \A y \in C!Settings \ {x} : setting'[y] = setting[y]
  BY <1>1 DEF C!Switches
<1>3. /\ asked' = [y \in C!Settings \cup Tracks |-> asked'[y]] /\ asked'[x] = to
      /\ \A y \in (C!Settings \cup Tracks) \ {x} : asked'[y] = asked[y]
  BY <1>1
<1>4. x \notin Tracks
  BY DEF C!ListsAreFilled
<1>5. TablesOK'
  BY <1>2 DEF CatalogInv, CatalogShape, TablesOK
<1>6. AskedOK(Now', asked', torn')
  <2>1. \A y \in C!Settings : asked'[y] # NoEntry => asked'[y] \in {"on", "off"} /\ setting'[y] = asked'[y]
    BY <1>1, <1>2, <1>3, NowIs DEF AskedOK
  <2>2. \A k \in Tracks : asked'[k] = asked[k]
    BY <1>3, <1>4
  <2>3. \A k \in Tracks : asked'[k] # NoEntry =>
           /\ track'[k] # C!NoTrack
           /\ k \notin torn' => /\ track'[k].open = asked'[k].open
                                /\ asked'[k].status = "archived" => track'[k].status = "archived"
    <3>1. UNCHANGED <<track, torn>>
      OBVIOUS
    <3>2. ASSUME NEW k \in Tracks, asked[k] # NoEntry
          PROVE  /\ track[k] # C!NoTrack
                 /\ k \notin torn => /\ track[k].open = asked[k].open
                                     /\ asked[k].status = "archived" => track[k].status = "archived"
      BY <1>1, <3>2, NowIs DEF AskedOK
    <3>3. QED BY <2>2, <3>1, <3>2
  <2>4. QED BY <1>3, <2>1, <2>3, NowIs DEF AskedOK
<1>7. QED BY <1>5, <1>6

LEMMA EditInv ==
    ASSUME CatalogInv, NEW r \in CatalogRequests, C!Edit(r), TablesOK', AskedOK(Now', asked', torn'), Kept(r)
    PROVE  CatalogInv'
<1>1. CallsOK(catalogPc', catalogArg') /\ Passed(r) /\ catalogPc'[r] = "idle" /\ settled' = {}
  BY EditShape DEF CatalogInv
<1>2. Counts(Now', torn', settled', catalogPc'[r], catalogArg'[r]) /\ ThroughOK(Now', settled')
  BY <1>1 DEF Counts, ThroughOK
<1>3. QED BY <1>1, <1>2, InvStep

LEMMA UpdateSettingInv ==
    ASSUME C!ListsAreFilled, CatalogInv, NEW r \in CatalogRequests, NEW x \in C!Settings,
           NEW to \in {"on", "off"},
           C!UpdateSetting(r, x, to)
    PROVE  CatalogInv'
<1>1. TablesOK' /\ AskedOK(Now', asked', torn')
  BY AskedSetting DEF C!UpdateSetting
<1>2. Kept(r)
  <2>1. UNCHANGED <<track, torn>> /\ settled' = {}
    BY DEF C!UpdateSetting, C!Edit
  <2>2. ASSUME NEW q \in CatalogRequests PROVE Counts(Now, torn, settled, catalogPc[q], catalogArg[q])
    BY DEF CatalogInv
  <2>3. QED BY <2>1, <2>2, NowIs DEF Kept, Counts, Agree
<1>3. QED BY <1>1, <1>2, EditInv DEF C!UpdateSetting

LEMMA EditTrackInv ==
    ASSUME C!ListsAreFilled, CatalogInv, NEW r \in CatalogRequests, NEW k \in Tracks,
           NEW row \in TrackRows, C!EditTrack(r, k, row)
    PROVE  CatalogInv'
<1>1. /\ C!Edit(r) /\ settled' = {} /\ track' = [track EXCEPT ![k] = row] /\ asked' = [asked EXCEPT ![k] = row]
      /\ torn' = IF \E q \in CatalogRequests : catalogPc[q] = "update" /\ catalogArg[q].item = k
                 THEN torn \cup {k}
                 ELSE torn \ {k}
      /\ UNCHANGED <<setting, milestone, card>>
  BY DEF C!EditTrack, C!Edit
<1>2. /\ track \in [Tracks -> TrackRows \cup {C!NoTrack}]
      /\ asked = [y \in C!Settings \cup Tracks |-> asked[y]] /\ AskedOK(Now, asked, torn)
  BY DEF CatalogInv, CatalogShape, TablesOK, AskedOK
<1>3. /\ track' \in [Tracks -> TrackRows \cup {C!NoTrack}] /\ track'[k] = row /\ row # C!NoTrack
      /\ \A j \in Tracks \ {k} : track'[j] = track[j]
  BY <1>1, <1>2, TrackRowsAre
<1>4. /\ asked' = [y \in C!Settings \cup Tracks |-> asked'[y]] /\ asked'[k] = row
      /\ \A y \in (C!Settings \cup Tracks) \ {k} : asked'[y] = asked[y]
  BY <1>1, <1>2
<1>5. k \notin C!Settings
  BY DEF C!ListsAreFilled
<1>6. TablesOK'
  BY <1>1, <1>3 DEF CatalogInv, CatalogShape, TablesOK
<1>7. AskedOK(Now', asked', torn')
  <2>1. \A x \in C!Settings : asked'[x] = asked[x] /\ setting'[x] = setting[x]
    BY <1>1, <1>4, <1>5
  <2>2. \A j \in Tracks \ {k} : asked'[j] = asked[j] /\ track'[j] = track[j] /\ (j \in torn' <=> j \in torn)
    BY <1>1, <1>3, <1>4
  <2>3. \A x \in C!Settings : asked'[x] # NoEntry => asked'[x] \in {"on", "off"} /\ setting'[x] = asked'[x]
    BY <1>2, <2>1, NowIs DEF AskedOK
  <2>4. ASSUME NEW j \in Tracks, asked'[j] # NoEntry
        PROVE  /\ track'[j] # C!NoTrack
               /\ j \notin torn' => /\ track'[j].open = asked'[j].open
                                    /\ asked'[j].status = "archived" => track'[j].status = "archived"
    <3>1. CASE j = k
      BY <1>3, <1>4, <3>1
    <3>2. CASE j # k
      BY <1>2, <2>2, <2>4, <3>2, NowIs DEF AskedOK
    <3>3. QED BY <3>1, <3>2
  <2>5. QED BY <1>4, <2>3, <2>4, NowIs DEF AskedOK
<1>8. Kept(r)
  <2>1. ASSUME NEW q \in CatalogRequests PROVE Counts(Now, torn, settled, catalogPc[q], catalogArg[q])
    BY DEF CatalogInv
  <2>2. ASSUME NEW q \in CatalogRequests, catalogPc[q] = "update" PROVE catalogArg[q].item \in Tracks
    <3>1. SeedOK(catalogPc[q], catalogArg[q]) /\ catalogArg[q].stages[1] \in C!Lists
      BY <2>2, SeedAt
    <3>2. QED BY <2>2, <3>1, EntriesAre DEF SeedOK
  <2>3. ASSUME NEW q \in CatalogRequests, catalogPc[q] = "update", catalogArg[q].item = k PROVE k \in torn'
    BY <1>1, <2>3
  <2>4. \A j \in Tracks \ {k} : j \in torn' <=> j \in torn
    BY <1>1
  <2>5. QED BY <1>1, <1>3, <2>1, <2>2, <2>3, <2>4, NowIs DEF Kept, Counts, Agree
<1>9. QED BY <1>1, <1>6, <1>7, <1>8, EditInv

\* A call of several steps writes a row, not of a track.
LEMMA WriteInv ==
    ASSUME CatalogInv, NEW r \in CatalogRequests, catalogPc[r] # "idle",
           NEW label \in C!Labels \ {"idle", "insert", "update"},
           NEW a \in CatalogArgs, C!GoTo(r, label, a), CatalogLocalsOK(label, a), a.alone = catalogArg[r].alone,
           UNCHANGED <<track, torn>>, settled' = {},
           TablesOK', AskedOK(Now', asked', torn'), Knows(Now', label, a)
    PROVE  CatalogInv'
<1>1. CallsOK(catalogPc', catalogArg') /\ Passed(r) /\ catalogPc'[r] = label /\ catalogArg'[r] = a
  BY MoveShape, MovePasses, Moved DEF CatalogInv
<1>2. Kept(r)
  <2>1. ASSUME NEW q \in CatalogRequests PROVE Counts(Now, torn, settled, catalogPc[q], catalogArg[q])
    BY DEF CatalogInv
  <2>2. QED BY <2>1, NowIs DEF Kept, Counts, Agree
<1>3. Counts(Now', torn', settled', catalogPc'[r], catalogArg'[r]) /\ ThroughOK(Now', settled')
  BY <1>1 DEF Counts, ThroughOK
<1>4. QED BY <1>1, <1>2, <1>3, InvStep

\* A call of several steps begins: it has no tables of its own yet.
LEMMA BeginInv ==
    ASSUME CatalogInv, NEW r \in CatalogRequests, NEW label \in C!Labels \ {"idle", "insert", "update"},
           NEW a \in CatalogArgs,
           C!Begin(r, label, a), CatalogLocalsOK(label, a), a.call # "seed", label # "done",
           Replacing(Now, label, a), UNCHANGED <<C!rows, C!history>>
    PROVE  CatalogInv'
<1>1. CallsOK(catalogPc', catalogArg') /\ Passed(r) /\ catalogPc'[r] = label /\ Same(catalogArg'[r], a)
  BY CatalogBeginShape DEF CatalogInv
<1>2. Knows(Now, label, catalogArg'[r])
  BY <1>1 DEF Knows, Progress, Replacing, Same
<1>3. Counts(Now, torn, settled', label, catalogArg'[r])
  BY DEF Counts
<1>4. UNCHANGED <<C!rows, asked, torn, settled>>
  BY DEF C!history
<1>5. QED BY <1>1, <1>2, <1>3, <1>4, QuietStep

LEMMA UpdateSystemSettingInv ==
    ASSUME C!ListsAreFilled, CatalogInv, NEW r \in CatalogRequests, NEW x \in Preferences,
           NEW to \in {"on", "off"},
           C!UpdateSystemSetting(r, x, to)
    PROVE  CatalogInv'
<1> DEFINE a == [C!NoArg EXCEPT !.call = "setting", !.item = x, !.status = to]
<1>1. x \in C!Settings
  BY DEF C!Settings, C!PlatformRows
<1>2. CASE C!UpdateSetting(r, x, to)
  BY <1>1, <1>2, UpdateSettingInv
<1>3. CASE C!Begin(r, "putSetting", a) /\ UNCHANGED <<C!rows, C!history>>
  <2>1. a \in CatalogArgs /\ a.call = "setting" /\ a.item = x /\ a.status = to
    BY <1>1, NoArgType DEF CatalogArgs, Items, C!NoArg
  <2> HIDE DEF a
  <2>2. CatalogLocalsOK("putSetting", a) /\ Replacing(Now, "putSetting", a)
    BY <2>1 DEF CatalogLocalsOK, Replacing
  <2>3. QED BY <1>3, <2>1, <2>2, BeginInv DEF C!Labels
<1>4. QED BY <1>2, <1>3 DEF C!UpdateSystemSetting

LEMMA InsertSettingInv ==
    ASSUME C!ListsAreFilled, CatalogInv, NEW r \in CatalogRequests, C!InsertSetting(r)
    PROVE  CatalogInv'
<1> DEFINE a == catalogArg[r]
<1>1. catalogPc[r] = "putSetting" /\ UNCHANGED <<track, milestone, card, torn>>
  BY DEF C!InsertSetting
<1>2. /\ a \in CatalogArgs /\ a.call = "setting" /\ a.item \in Preferences /\ a.status \in {"on", "off"}
      /\ a.item \in C!Settings
  BY <1>1 DEF CatalogInv, CatalogShape, CallsOK, CatalogLocalsOK, C!Settings, C!PlatformRows
<1>3. CASE setting[a.item] # "none"
  <2>1. C!Return(r) /\ UNCHANGED <<C!rows, C!history>>
    BY <1>3 DEF C!InsertSetting, C!Throw, C!rows, C!history
  <2>2. QED BY <1>1, <2>1, ReturnInv
<1>4. CASE setting[a.item] = "none"
  <2>1. /\ setting' = [setting EXCEPT ![a.item] = a.status] /\ asked' = [asked EXCEPT ![a.item] = a.status]
        /\ settled' = {} /\ C!GoTo(r, "done", a)
    BY <1>4 DEF C!InsertSetting, C!Step
  <2>2. TablesOK' /\ AskedOK(Now', asked', torn')
    BY <1>1, <1>2, <2>1, AskedSetting
  <2>3. CatalogLocalsOK("done", a) /\ Knows(Now', "done", a)
    BY <1>2 DEF CatalogLocalsOK, Knows, Progress, Replacing
  <2>4. QED BY <1>1, <1>2, <2>1, <2>2, <2>3, WriteInv DEF C!Labels
<1>5. QED BY <1>3, <1>4

LEMMA UpdateTrackInv ==
    ASSUME C!ListsAreFilled, CatalogInv, NEW r \in CatalogRequests, NEW k \in Tracks, NEW on \in BOOLEAN,
           C!UpdateTrack(r, k, on)
    PROVE  CatalogInv'
<1>1. track[k] \in TrackRows
  BY DEF C!UpdateTrack, C!EditTrack, CatalogInv, CatalogShape, TablesOK
<1>2. [track[k] EXCEPT !.names = "edited", !.texts = "edited", !.enabled = on] \in TrackRows
  BY <1>1 DEF TrackRows
<1>3. QED BY <1>2, EditTrackInv DEF C!UpdateTrack

LEMMA ConfigureTrackInv ==
    ASSUME C!ListsAreFilled, CatalogInv, NEW r \in CatalogRequests, NEW k \in Tracks, C!ConfigureTrack(r, k)
    PROVE  CatalogInv'
<1>1. track[k] \in TrackRows
  BY DEF C!ConfigureTrack, C!EditTrack, CatalogInv, CatalogShape, TablesOK
<1>2. ASSUME NEW open \in BOOLEAN, C!EditTrack(r, k, [track[k] EXCEPT !.open = open]) PROVE CatalogInv'
  <2>1. [track[k] EXCEPT !.open = open] \in TrackRows
    BY <1>1 DEF TrackRows
  <2>2. QED BY <1>2, <2>1, EditTrackInv
<1>3. ASSUME NEW status \in {"active", "suspended", "archived"},
             C!EditTrack(r, k, [track[k] EXCEPT !.status = status])
      PROVE  CatalogInv'
  <2>1. [track[k] EXCEPT !.status = status] \in TrackRows
    BY <1>1 DEF TrackRows
  <2>2. QED BY <1>3, <2>1, EditTrackInv
<1>4. QED BY <1>2, <1>3 DEF C!ConfigureTrack

LEMMA UpdateMilestoneInv ==
    ASSUME CatalogInv, NEW r \in CatalogRequests, NEW m \in Milestones, NEW patch \in C!MilestonePatches(m),
           C!UpdateMilestone(r, m, patch[1], patch[2])
    PROVE  CatalogInv'
<1> DEFINE to == [threshold |-> patch[1], on |-> patch[2]]
           a  == [C!NoArg EXCEPT !.call = "milestone", !.item = m, !.to = to]
<1>1. milestone[m] \in MilestoneRows
  BY DEF CatalogInv, CatalogShape, TablesOK
<1>2. patch[1] \in Thresholds \cup AllThresholds \cup {NoEntry} /\ patch[2] \in BOOLEAN
  BY <1>1 DEF C!MilestonePatches, MilestoneRows
<1>3. to \in MilestoneRows
  BY <1>2 DEF MilestoneRows
<1> HIDE DEF to
<1>4. a \in CatalogArgs /\ a.call = "milestone" /\ a.item = m
  BY <1>3, NoArgType DEF CatalogArgs, Items, C!NoArg
<1>5. PICK label \in {"setMilestone", "check"} : C!Begin(r, label, a) /\ UNCHANGED <<C!rows, C!history>>
  BY DEF C!UpdateMilestone, to
<1> HIDE DEF a
<1>6. CatalogLocalsOK(label, a) /\ Replacing(Now, label, a)
  BY <1>4, <1>5 DEF CatalogLocalsOK, Replacing
<1>7. QED BY <1>4, <1>5, <1>6, BeginInv DEF C!Labels

\* What a call that goes on without a write has to show.
LEMMA StepInv ==
    ASSUME CatalogInv, NEW r \in CatalogRequests, catalogPc[r] # "idle",
           NEW label \in C!Labels \ {"idle", "insert", "update"},
           C!Step(r, label), CatalogLocalsOK(label, catalogArg[r]), Knows(Now, label, catalogArg[r]),
           UNCHANGED <<C!rows, C!history>>
    PROVE  CatalogInv'
<1>1. /\ catalogArg[r] \in CatalogArgs /\ C!GoTo(r, label, catalogArg[r])
      /\ UNCHANGED <<C!rows, asked, torn, settled>>
  BY DEF CatalogInv, CatalogShape, CallsOK, C!Step, C!history
<1>2. CallsOK(catalogPc', catalogArg') /\ Passed(r) /\ catalogPc'[r] = label /\ catalogArg'[r] = catalogArg[r]
  BY <1>1, MoveShape, MovePasses, Moved DEF CatalogInv
<1>3. Counts(Now, torn, settled', label, catalogArg[r])
  BY DEF Counts
<1>4. QED BY <1>1, <1>2, <1>3, QuietStep

LEMMA CheckThresholdInv ==
    ASSUME CatalogInv, NEW r \in CatalogRequests, C!CheckThreshold(r)
    PROVE  CatalogInv'
<1>1. catalogPc[r] = "check" /\ UNCHANGED <<C!rows, C!history>>
  BY DEF C!CheckThreshold
<1>2. CASE C!Throw(r)
  BY <1>1, <1>2, ReturnInv DEF C!Throw
<1>3. CASE C!Step(r, "setMilestone")
  <2>1. catalogArg[r].call = "milestone" /\ catalogArg[r].item \in Milestones
    BY <1>1 DEF CatalogInv, CatalogShape, CallsOK, CatalogLocalsOK
  <2>2. CatalogLocalsOK("setMilestone", catalogArg[r]) /\ Knows(Now, "setMilestone", catalogArg[r])
    BY <2>1 DEF CatalogLocalsOK, Knows, Progress, Replacing
  <2>3. QED BY <1>1, <1>3, <2>2, StepInv DEF C!Labels
<1>4. QED BY <1>2, <1>3 DEF C!CheckThreshold

LEMMA SetMilestoneInv ==
    ASSUME CatalogInv, NEW r \in CatalogRequests, C!SetMilestone(r)
    PROVE  CatalogInv'
<1> DEFINE a == catalogArg[r]
<1>1. catalogPc[r] = "setMilestone" /\ UNCHANGED <<setting, track, card, asked, torn>>
  BY DEF C!SetMilestone
<1>2. a \in CatalogArgs /\ a.call = "milestone" /\ a.item \in Milestones /\ a.to \in MilestoneRows
  BY <1>1 DEF CatalogInv, CatalogShape, CallsOK, CatalogLocalsOK, CatalogArgs
<1>3. CASE C!Throw(r) /\ UNCHANGED <<milestone, settled>>
  <2>1. UNCHANGED <<C!rows, C!history>>
    BY <1>1, <1>3 DEF C!rows, C!history
  <2>2. QED BY <1>1, <1>3, <2>1, ReturnInv DEF C!Throw
<1>4. CASE C!Step(r, "done") /\ milestone' = [milestone EXCEPT ![a.item] = a.to] /\ settled' = {}
  <2>1. /\ milestone \in [Milestones -> MilestoneRows] /\ AskedOK(Now, asked, torn)
    BY DEF CatalogInv, CatalogShape, TablesOK
  <2>2. milestone' \in [Milestones -> MilestoneRows] /\ milestone'[a.item] = a.to
    BY <1>2, <1>4, <2>1
  <2>3. TablesOK'
    BY <1>1, <2>2 DEF CatalogInv, CatalogShape, TablesOK
  <2>4. AskedOK(Now', asked', torn')
    BY <1>1, <2>1, NowIs DEF AskedOK
  <2>5. CatalogLocalsOK("done", a) /\ Knows(Now', "done", a)
    BY <1>2, <2>2, NowIs DEF CatalogLocalsOK, Knows, Progress, Replacing
  <2>6. C!GoTo(r, "done", a)
    BY <1>4 DEF C!Step
  <2>7. QED BY <1>1, <1>2, <1>4, <2>3, <2>4, <2>5, <2>6, WriteInv DEF C!Labels
<1>5. QED BY <1>3, <1>4 DEF C!SetMilestone

LEMMA SaveCardInv ==
    ASSUME CatalogInv, NEW r \in CatalogRequests, NEW t \in Cards, NEW status \in C!CardStatus,
           C!SaveCard(r, t, status)
    PROVE  CatalogInv'
<1> DEFINE others == IF status = "active" THEN {u \in Cards \ {t} : card[u] = "active"} ELSE {}
           a      == [C!NoArg EXCEPT !.call = "card", !.item = t, !.cards = others, !.status = status]
           label  == IF others = {} THEN "saveCard" ELSE "archive"
<1>1. C!Begin(r, label, a) /\ UNCHANGED <<C!rows, C!history>>
  BY DEF C!SaveCard
<1>2. /\ others \subseteq Cards
      /\ status = "active" => others = Active(Now) \ {t}
  BY NowIs DEF Active
<1>3. label = "saveCard" => others = {}
  OBVIOUS
<1>4. label \in {"archive", "saveCard"}
  OBVIOUS
<1> HIDE DEF others, label
<1>5. a \in CatalogArgs /\ a.call = "card" /\ a.item = t /\ a.status = status /\ a.cards = others
  BY <1>2, NoArgType DEF CatalogArgs, Items, C!NoArg
<1> HIDE DEF a
<1>6. CatalogLocalsOK(label, a)
  BY <1>4, <1>5 DEF CatalogLocalsOK
<1>7. Replacing(Now, label, a)
  BY <1>2, <1>3, <1>4, <1>5 DEF Replacing
<1>8. QED BY <1>1, <1>4, <1>5, <1>6, <1>7, BeginInv DEF C!Labels

\* The tables of the cards are written.
LEMMA CardInv ==
    ASSUME CatalogInv, NEW r \in CatalogRequests, catalogPc[r] \in {"archive", "saveCard"}, NEW t \in Cards,
           NEW status \in C!CardStatus,
           card' = [card EXCEPT ![t] = status], UNCHANGED <<setting, track, milestone, asked, torn>>
    PROVE  /\ TablesOK' /\ AskedOK(Now', asked', torn')
           /\ catalogArg[r] \in CatalogArgs /\ catalogArg[r].call = "card"
           /\ catalogArg[r].item \in Cards /\ catalogArg[r].status \in C!CardStatus
           /\ catalogArg[r].alone => Replacing(Now, catalogPc[r], catalogArg[r])
           /\ status = "active" => Active(Now') = Active(Now) \cup {t}
           /\ status # "active" => Active(Now') = Active(Now) \ {t}
<1>1. card \in [Cards -> C!CardStatus \cup {"none"}] /\ AskedOK(Now, asked, torn)
  BY DEF CatalogInv, CatalogShape, TablesOK
<1>2. /\ card' \in [Cards -> C!CardStatus \cup {"none"}] /\ card'[t] = status
      /\ \A u \in Cards \ {t} : card'[u] = card[u]
  BY <1>1
<1>3. TablesOK'
  BY <1>2 DEF CatalogInv, CatalogShape, TablesOK
<1>4. AskedOK(Now', asked', torn')
  BY <1>1, NowIs DEF AskedOK
<1>5. /\ catalogArg[r] \in CatalogArgs /\ catalogArg[r].call = "card"
      /\ catalogArg[r].item \in Cards /\ catalogArg[r].status \in C!CardStatus
  BY DEF CatalogInv, CatalogShape, CallsOK, CatalogLocalsOK
<1>6. catalogArg[r].alone => Replacing(Now, catalogPc[r], catalogArg[r])
  BY DEF CatalogInv, Knows
<1>7. Active(Now) = {u \in Cards : card[u] = "active"} /\ Active(Now') = {u \in Cards : card'[u] = "active"}
  BY NowIs DEF Active
<1>8. QED BY <1>2, <1>3, <1>4, <1>5, <1>6, <1>7

LEMMA ArchiveCardInv ==
    ASSUME CatalogInv, NEW r \in CatalogRequests, NEW u \in Cards, C!ArchiveCard(r, u)
    PROVE  CatalogInv'
<1> DEFINE left  == catalogArg[r].cards \ {u}
           a     == [catalogArg[r] EXCEPT !.cards = left]
           label == IF left = {} THEN "saveCard" ELSE "archive"
<1>1. /\ catalogPc[r] = "archive" /\ card' = [card EXCEPT ![u] = "archived"] /\ settled' = {}
      /\ UNCHANGED <<setting, track, milestone, asked, torn>> /\ C!GoTo(r, label, a)
  BY DEF C!ArchiveCard
<1>2. "archived" \in C!CardStatus /\ "archived" # "active"
  BY DEF C!CardStatus
<1>3. /\ TablesOK' /\ AskedOK(Now', asked', torn')
      /\ catalogArg[r] \in CatalogArgs /\ catalogArg[r].call = "card"
      /\ catalogArg[r].item \in Cards /\ catalogArg[r].status \in C!CardStatus
      /\ catalogArg[r].alone => Replacing(Now, "archive", catalogArg[r])
      /\ Active(Now') = Active(Now) \ {u}
  BY <1>1, <1>2, CardInv
<1>4. /\ a \in CatalogArgs /\ a.call = "card" /\ a.item = catalogArg[r].item
      /\ a.status = catalogArg[r].status /\ a.cards = left
      /\ a.alone = catalogArg[r].alone
  BY <1>3 DEF CatalogArgs
<1>5. label \in {"archive", "saveCard"} /\ (label = "saveCard" => left = {})
  OBVIOUS
<1>6. catalogArg[r].alone => Replacing(Now', label, a)
  <2>1. ASSUME catalogArg[r].alone, a.status = "active"
        PROVE  Active(Now') \ {a.item} \subseteq left
    BY <1>3, <1>4, <2>1 DEF Replacing
  <2> HIDE DEF a, label, left
  <2>2. QED BY <1>4, <1>5, <2>1 DEF Replacing
<1> HIDE DEF a, label, left
<1>7. CatalogLocalsOK(label, a) /\ Knows(Now', label, a)
  BY <1>3, <1>4, <1>5, <1>6 DEF CatalogLocalsOK, Knows, Progress
<1>8. QED BY <1>1, <1>3, <1>4, <1>5, <1>7, WriteInv DEF C!Labels

LEMMA WriteCardInv ==
    ASSUME CatalogInv, NEW r \in CatalogRequests, C!WriteCard(r)
    PROVE  CatalogInv'
<1> DEFINE a == catalogArg[r]
<1>1. /\ catalogPc[r] = "saveCard" /\ card' = [card EXCEPT ![a.item] = a.status] /\ settled' = {}
      /\ UNCHANGED <<setting, track, milestone, asked, torn>> /\ C!GoTo(r, "done", a)
  BY DEF C!WriteCard, C!Step
<1>2. a.item \in Cards /\ a.status \in C!CardStatus
  BY <1>1 DEF CatalogInv, CatalogShape, CallsOK, CatalogLocalsOK
<1>3. /\ TablesOK' /\ AskedOK(Now', asked', torn')
      /\ a \in CatalogArgs /\ a.call = "card"
      /\ a.alone => Replacing(Now, "saveCard", a)
      /\ a.status = "active" => Active(Now') = Active(Now) \cup {a.item}
  BY <1>1, <1>2, CardInv
<1>4. a.alone => Replacing(Now', "done", a)
  BY <1>3 DEF Replacing
<1>5. CatalogLocalsOK("done", a) /\ Knows(Now', "done", a)
  BY <1>2, <1>3, <1>4 DEF CatalogLocalsOK, Knows, Progress
<1>6. QED BY <1>1, <1>3, <1>5, WriteInv DEF C!Labels

-----------------------------------------------------------------------------
(* The invariant of the catalogs *)

LEMMA CatalogInitInv == C!Init => CatalogInv
<1> SUFFICES ASSUME C!Init PROVE CatalogInv
  OBVIOUS
<1>1. TablesOK
  <2>1. setting \in [C!Settings -> C!Switches]
    BY DEF C!Init, C!MigratedSettings, C!Switches
  <2>2. track \in [Tracks -> TrackRows \cup {C!NoTrack}]
    BY TrackRowsAre DEF C!Init, C!MigratedTracks
  <2>3. milestone \in [Milestones -> MilestoneRows]
    BY DEF C!Init, C!NoMilestone, MilestoneRows
  <2>4. card \in [Cards -> C!CardStatus \cup {"none"}]
    BY DEF C!Init
  <2>5. QED BY <2>1, <2>2, <2>3, <2>4 DEF TablesOK
<1>2. /\ catalogPc \in [CatalogRequests -> C!Labels] /\ \A r \in CatalogRequests : catalogPc[r] = "idle"
  BY DEF C!Init, C!Labels
<1>3. /\ catalogArg \in [CatalogRequests -> CatalogArgs] /\ \A r \in CatalogRequests : catalogArg[r] = C!NoArg
  BY NoArgType DEF C!Init
<1>4. CallsOK(catalogPc, catalogArg)
  BY <1>2, <1>3, NoArgOK DEF CallsOK, Lonely
<1>5. /\ asked = [x \in C!Settings \cup Tracks |-> asked[x]]
      /\ \A x \in C!Settings \cup Tracks : asked[x] = NoEntry
  BY DEF C!Init
<1>6. settled = {}
  BY DEF C!Init
<1>7. AskedOK(Now, asked, torn) /\ ThroughOK(Now, settled)
  BY <1>5, <1>6 DEF AskedOK, ThroughOK
<1>8. QED BY <1>1, <1>2, <1>4, <1>7 DEF CatalogInv, CatalogShape, Counts

LEMMA SeedCallsAre ==
    ASSUME NEW r \in CatalogRequests, C!SeedCalls(r)
    PROVE  \E s \in SeedLists : C!Seed(r, s)
  BY DEF C!SeedCalls, C!SeedMembershipCatalog, C!SeedTracksOperatingCatalog, C!SeedRecognitionCatalog,
         C!SeedVolunteerCatalog, C!SeedRbacCatalog, C!SeedSystemSettings, SeedLists

LEMMA CatalogCallInv ==
    ASSUME C!ListsAreFilled, CatalogInv, NEW r \in CatalogRequests,
           C!SeedCalls(r) \/ C!EditCalls(r) \/ C!SettingCalls(r)
    PROVE  CatalogInv'
<1>1. CASE C!SeedCalls(r)
  BY <1>1, SeedCallsAre, SeedInv
<1>2. ASSUME NEW x \in SeededTypes \cup UNION {C!RuleRows(y) : y \in ImpactRules}, NEW to \in {"on", "off"},
             C!UpdateSetting(r, x, to)
      PROVE  CatalogInv'
  <2>1. x \in C!Settings
    BY DEF C!Settings
  <2>2. QED BY <1>2, <2>1, UpdateSettingInv
<1>3. ASSUME NEW k \in Tracks, C!ConfigureTrack(r, k) PROVE CatalogInv'
  BY <1>3, ConfigureTrackInv
<1>4. ASSUME NEW k \in Tracks, NEW on \in BOOLEAN, C!UpdateTrack(r, k, on) PROVE CatalogInv'
  BY <1>4, UpdateTrackInv
<1>5. ASSUME NEW m \in Milestones, NEW patch \in C!MilestonePatches(m),
             C!UpdateMilestone(r, m, patch[1], patch[2])
      PROVE  CatalogInv'
  BY <1>5, UpdateMilestoneInv
<1>6. ASSUME NEW t \in Cards, NEW status \in C!CardStatus, C!SaveCard(r, t, status) PROVE CatalogInv'
  BY <1>6, SaveCardInv
<1>7. CASE C!EditCalls(r)
  BY <1>2, <1>3, <1>4, <1>5, <1>6, <1>7 DEF C!EditCalls
<1>8. ASSUME NEW to \in {"on", "off"}, NEW x \in Preferences,
             C!UpdateSystemSetting(r, x, to) PROVE CatalogInv'
  BY <1>8, UpdateSystemSettingInv
<1>9. ASSUME NEW to \in {"on", "off"}, NEW x \in Flags, C!UpdateFeatureFlag(r, x, to) PROVE CatalogInv'
  <2>1. x \in C!Settings
    BY DEF C!Settings, C!PlatformRows
  <2>2. QED BY <1>9, <2>1, UpdateSettingInv DEF C!UpdateFeatureFlag
<1>10. CASE C!SettingCalls(r)
  BY <1>8, <1>9, <1>10 DEF C!SettingCalls
<1>11. QED BY <1>1, <1>7, <1>10

LEMMA CatalogContinueInv ==
    ASSUME C!ListsAreFilled, CatalogInv, NEW r \in CatalogRequests, C!Continue(r)
    PROVE  CatalogInv'
  BY FindInv, InsertInv, UpdateInv, InsertSettingInv, CheckThresholdInv, SetMilestoneInv, ArchiveCardInv,
     WriteCardInv, FinishInv DEF C!Continue

LEMMA CatalogNextInv ==
    ASSUME C!ListsAreFilled, CatalogInv, [C!Next]_C!vars
    PROVE  CatalogInv'
<1>1. CASE \E r \in CatalogRequests : C!SeedCalls(r) \/ C!EditCalls(r) \/ C!SettingCalls(r)
  BY <1>1, CatalogCallInv
<1>2. CASE \E r \in CatalogRequests : C!Continue(r)
  BY <1>2, CatalogContinueInv
<1>3. CASE \E r \in CatalogRequests : C!Crash(r)
  BY <1>3, ReturnInv DEF C!Crash
<1>4. CASE UNCHANGED C!vars
  <2>1. UNCHANGED <<setting, track, milestone, card, catalogPc, catalogArg, asked, torn, settled>>
    BY <1>4 DEF C!vars, C!rows, C!callVars, C!history
  <2>2. Now' = Now
    BY <2>1 DEF Now
  <2>3. QED BY <2>1, <2>2 DEF CatalogInv, CatalogShape, TablesOK
<1>5. QED BY <1>1, <1>2, <1>3, <1>4 DEF C!Next

-----------------------------------------------------------------------------
(* What the catalogs promise *)

LEMMA SeedsFill == ASSUME C!ListsAreFilled, CatalogInv PROVE C!SeedsAreComplete
<1> SUFFICES ASSUME NEW r \in CatalogRequests, catalogPc[r] = "done", catalogArg[r].alone,
                    catalogArg[r].call = "seed",
                    NEW s \in 1..Len(catalogArg[r].all), NEW i \in C!ListEntries(catalogArg[r].all[s])
             PROVE  C!Present(catalogArg[r].all[s], i)
  BY DEF C!SeedsAreComplete
<1>1. catalogArg[r].all[s] \in Of(catalogArg[r].all)
  BY DEF Of
<1>2. catalogArg[r].all[s] \in C!Lists /\ Complete(Now, catalogArg[r].all[s])
  BY <1>1, SeedDone
<1>3. QED BY <1>2, PresentIs DEF Complete, Fixed

LEMMA EditsKept == ASSUME CatalogInv PROVE C!EditsStand
<1>1. AskedOK(Now, asked, torn) /\ Now.setting = setting /\ Now.track = track
  BY NowIs DEF CatalogInv
<1>2. \A x \in C!Settings : asked[x] # NoEntry => setting[x] = asked[x]
  BY <1>1 DEF AskedOK
<1>3. \A k \in Tracks \ torn : asked[k] # NoEntry =>
         track[k].open = asked[k].open /\ (asked[k].status = "archived" => track[k].status = "archived")
  BY <1>1 DEF AskedOK
<1>4. ASSUME NEW r \in CatalogRequests, catalogPc[r] = "done", catalogArg[r].alone
      PROVE  /\ catalogArg[r].call = "milestone" => milestone[catalogArg[r].item] = catalogArg[r].to
             /\ catalogArg[r].call = "card" /\ catalogArg[r].status = "active" =>
                   {t \in Cards : card[t] = "active"} = {catalogArg[r].item}
  <2>1. Knows(Now, "done", catalogArg[r])
    BY <1>4 DEF CatalogInv
  <2>2. QED BY <1>4, <2>1, NowIs DEF Knows, Replacing, Active
<1>5. QED BY <1>2, <1>3, <1>4 DEF C!EditsStand

LEMMA UpdateQuiet ==
    ASSUME C!ListsAreFilled, CatalogInv, NEW r \in CatalogRequests, C!Update(r), catalogArg[r].all \in settled
    PROVE  UNCHANGED C!rows
<1> DEFINE i     == catalogArg[r].item
           stage == catalogArg[r].stages[1]
           read  == catalogArg[r].track
           row   == track[i]
<1>1. /\ catalogPc[r] = "update" /\ UNCHANGED <<setting, milestone, card>>
      /\ track' = [track EXCEPT ![i] = C!Reseeded(stage, row, read)]
  BY DEF C!Update
<1>2. /\ stage \in {"trackNames", "tracks"} /\ i \in C!ListEntries(stage) /\ stage \in Of(catalogArg[r].all)
      /\ Counts(Now, torn, settled, "update", catalogArg[r])
  BY <1>1, SeedAt DEF SeedOK
<1>3. Fixed(Now, stage, i)
  BY <1>2 DEF CatalogInv, ThroughOK, Complete
<1>4. i \in Tracks /\ row \in TrackRows /\ Agree(read, row)
  BY <1>2, EntriesAre, NowIs DEF Counts, C!Lists, CatalogInv, CatalogShape, TablesOK
<1>5. C!Reseeded(stage, row, read) = row
  <2>1. CASE stage = "trackNames"
    <3>1. row.names = "seeded"
      BY <1>3, <2>1, NowIs DEF Fixed
    <3>2. QED BY <1>4, <2>1, <3>1 DEF C!Reseeded, TrackRows
  <2>2. CASE stage = "tracks"
    <3>1. /\ row.names = "seeded" /\ row.texts = "seeded" /\ row.enabled = TRUE
          /\ row.status \in {"active", "archived"}
      BY <1>3, <2>2, NowIs DEF Fixed
    <3>2. row.status = IF read.status = "archived" THEN "archived" ELSE "active"
      BY <1>4, <3>1 DEF Agree
    <3>3. row = [names |-> row.names, texts |-> row.texts, status |-> row.status, enabled |-> row.enabled,
                 open |-> row.open]
      BY <1>4 DEF TrackRows
    <3>4. row.open = read.open
      BY <1>4 DEF Agree
    <3> HIDE DEF row
    <3>5. C!Reseeded(stage, row, read) =
             [names |-> "seeded", texts |-> "seeded", enabled |-> TRUE, open |-> read.open,
              status |-> IF read.status = "archived" THEN "archived" ELSE "active"]
      BY <2>2 DEF C!Reseeded
    <3>6. QED BY <3>1, <3>2, <3>3, <3>4, <3>5
  <2>3. QED BY <1>2, <2>1, <2>2
<1>6. track' = track
  BY <1>1, <1>4, <1>5 DEF CatalogInv, CatalogShape, TablesOK
<1>7. QED BY <1>1, <1>6 DEF C!rows

\* A step is of one call: no other one goes on.
LEMMA OneMoves ==
    ASSUME catalogPc \in [CatalogRequests -> C!Labels], [C!Next]_C!vars, NEW r \in CatalogRequests,
           catalogPc'[r] # catalogPc[r],
           catalogPc[r] \in {"insert", "update"}
    PROVE  C!Insert(r) \/ C!Update(r) \/ C!Crash(r)
<1>1. ASSUME NEW q \in CatalogRequests, NEW label, NEW a, C!Begin(q, label, a) PROVE FALSE
  BY <1>1 DEF C!Begin
<1>2. ASSUME NEW q \in CatalogRequests, C!Edit(q) PROVE FALSE
  BY <1>2 DEF C!Edit
<1>3. ASSUME NEW q \in CatalogRequests, NEW label, NEW a, C!GoTo(q, label, a) PROVE q = r
  BY <1>3 DEF C!GoTo
<1>4. ASSUME NEW q \in CatalogRequests, C!SeedCalls(q) \/ C!EditCalls(q) \/ C!SettingCalls(q) PROVE FALSE
  <2>1. CASE C!SeedCalls(q)
    BY <1>1, <2>1, SeedCallsAre DEF C!Seed
  <2>2. CASE C!EditCalls(q) \/ C!SettingCalls(q)
    BY <1>1, <1>2, <2>2 DEF C!EditCalls, C!SettingCalls, C!UpdateSetting, C!ConfigureTrack,
       C!UpdateTrack, C!EditTrack, C!UpdateMilestone, C!SaveCard, C!UpdateSystemSetting, C!UpdateFeatureFlag
  <2>3. QED BY <1>4, <2>1, <2>2
<1>5. ASSUME NEW q \in CatalogRequests, C!Continue(q) PROVE C!Insert(r) \/ C!Update(r)
  <2>1. CASE \E i \in catalogArg[q].todo : C!Find(q, i)
    BY <1>3, <2>1 DEF C!Find
  <2>2. CASE C!Insert(q) \/ C!Update(q)
    BY <1>3, <2>2 DEF C!Insert, C!Update, C!GoOn, C!Throw, C!Return
  <2>3. CASE C!InsertSetting(q) \/ C!CheckThreshold(q) \/ C!SetMilestone(q) \/ C!WriteCard(q) \/ C!Finish(q)
    BY <1>3, <2>3 DEF C!InsertSetting, C!CheckThreshold, C!SetMilestone, C!WriteCard, C!Finish,
       C!Throw, C!Return, C!Step
  <2>4. CASE \E u \in Cards : C!ArchiveCard(q, u)
    BY <1>3, <2>4 DEF C!ArchiveCard
  <2>5. QED BY <1>5, <2>1, <2>2, <2>3, <2>4 DEF C!Continue
<1>6. ASSUME NEW q \in CatalogRequests, C!Crash(q) PROVE C!Crash(r)
  BY <1>3, <1>6 DEF C!Crash, C!Return
<1>7. ~UNCHANGED C!vars
  BY DEF C!vars, C!callVars
<1>8. QED BY <1>4, <1>5, <1>6, <1>7 DEF C!Next

LEMMA CatalogInvariant == CatalogsSpec => []CatalogInv
<1>1. CatalogInv /\ [C!Next]_C!vars => CatalogInv'
  BY CatalogNextInv, SeedsHaveEntries
<1>2. QED BY <1>1, CatalogInitInv, PTL DEF CatalogsSpec, C!Spec

\* seed-membership.ts, seed-tracks.ts, seed-rbac.ts and the other scripts: a seed
\* that nothing overlapped and that came to its end has left every entry of its
\* lists in the catalog, whatever was there before, also where a list rests on
\* another (the grants on roles and permissions).
THEOREM CatalogsAreSeeded == CatalogsSpec => []CatalogSeedsAreComplete
<1>1. CatalogInv => CatalogSeedsAreComplete
  BY SeedsFill, SeedsHaveEntries DEF CatalogSeedsAreComplete
<1>2. QED BY <1>1, CatalogInvariant, PTL

\* updateMembershipType, updateSystemSetting, updateFeatureFlag, updateImpactWeight,
\* updateTrack, configureTrack, updateMilestoneDefinition and saveCardTemplate:
\* what administrators set stands, however many seeds run: a type, a setting, a
\* flag or a rule's row; whether a track takes applications and that it is archived,
\* unless a seed had just read it; a milestone and the one active card when the
\* edit was alone.
THEOREM CatalogsKeepEdits == CatalogsSpec => []CatalogEditsStand
<1>1. CatalogInv => CatalogEditsStand
  BY EditsKept DEF CatalogEditsStand
<1>2. QED BY <1>1, CatalogInvariant, PTL

\* db-migrate.ts and the seed scripts count on it at every deployment: once a seed
\* has gone through, the same seed changes no row until something is edited, also
\* while other seeds run.
THEOREM CatalogsSeedOnce == CatalogsSpec => CatalogSeedingIsIdempotent
<1>1. ASSUME CatalogInv, [C!Next]_C!vars, NEW r \in CatalogRequests,
             catalogPc[r] \in {"insert", "update"}, catalogPc'[r] # catalogPc[r], catalogArg[r].all \in settled
      PROVE  UNCHANGED C!rows
  <2>1. C!Insert(r) \/ C!Update(r) \/ C!Crash(r)
    BY <1>1, OneMoves DEF CatalogInv, CatalogShape, CallsOK
  <2>2. CASE C!Insert(r)
    BY <1>1, <2>2 DEF C!Insert, CatalogInv, Counts
  <2>3. CASE C!Update(r)
    BY <1>1, <2>3, UpdateQuiet, SeedsHaveEntries
  <2>4. CASE C!Crash(r)
    BY <2>4 DEF C!Crash
  <2>5. QED BY <2>1, <2>2, <2>3, <2>4
<1>2. CatalogInv /\ [C!Next]_C!vars =>
          [\A r \in CatalogRequests :
               catalogPc[r] \in {"insert", "update"} /\ catalogPc'[r] # catalogPc[r]
                 /\ catalogArg[r].all \in settled => UNCHANGED C!rows]_C!vars
  BY <1>1
<1>3. QED
  BY <1>2, CatalogInvariant, PTL DEF CatalogsSpec, C!Spec, CatalogSeedingIsIdempotent, C!SeedingIsIdempotent
=============================================================================
