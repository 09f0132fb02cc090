-------------------------- MODULE VolunteeringProofs --------------------------
(***************************************************************************)
(* Proofs of the safety properties of Volunteering, for any number of      *)
(* opportunities, places, volunteers and concurrent calls.                 *)
(*                                                                         *)
(* Shape says that a call's locals are rows and statuses its next          *)
(* statement can take; RowLock that lock and transaction agree.  With      *)
(* RowLock only one call counts and inserts participations of an           *)
(* opportunity at a time, which is why the count stays true (Room).        *)
(***************************************************************************)
EXTENDS Volunteering, FiniteSetTheorems, TLAPS

InTransaction == {"count", "accept"}

LocalsOK(label, a) ==
    /\ label # "idle" => a.opp \in Opportunities
    /\ label \notin {"idle", "writeOpportunity"} => a.user \in Users
    /\ label = "writeOpportunity" => a.to \in OpportunityStatus
    /\ label \in {"moveToReview", "reread", "lockOpportunity", "count", "accept"}
          => a.to \in Decisions
    /\ label = "withdraw" => a.to = "withdrawn"
    /\ label = "decide" => a.to \in {"rejected", "waitlisted"}
    /\ label = "attend" => a.to \in ParticipationStatus

Shape ==
    /\ TypeOK
    /\ \A r \in Requests : LocalsOK(pc[r], arg[r])

\* A transaction past its SELECT ... FOR UPDATE has the row.
TransactionHoldsLock ==
    \A r \in Requests : pc[r] \in InTransaction => lock[arg[r].opp] = r

RowLock == Shape /\ TransactionHoldsLock /\ LockHeldInTransaction

\* An attendance is of a participation that exists.
AttendsPlace ==
    \A r \in Requests : pc[r] = "attend" => partStatus[Key(r)] # "none"

Room == CountStillTrue /\ PlacesNeverExceeded

-----------------------------------------------------------------------------
(* Shape *)

LEMMA InitShape == Init => Shape
  BY DEF Init, Shape, TypeOK, Args, NoArg, LocalsOK, Labels

\* What GoTo does to the call it moves and to the others.
LEMMA GoToStep ==
    ASSUME Shape, NEW r \in Requests, NEW label \in Labels, NEW a \in Args,
           GoTo(r, label, a)
    PROVE  /\ pc' \in [Requests -> Labels]
           /\ arg' \in [Requests -> Args]
           /\ pc'[r] = label /\ arg'[r] = a
           /\ \A q \in Requests : q # r => pc'[q] = pc[q] /\ arg'[q] = arg[q]
  BY DEF GoTo, Shape, TypeOK

LEMMA NoArgIsArg == NoArg \in Args /\ LocalsOK("idle", NoArg) /\ "idle" \in Labels
  BY DEF NoArg, Args, LocalsOK, Labels

\* A step that keeps the tables' types and moves one call keeps the shape.
LEMMA MoveShape ==
    ASSUME Shape, NEW r \in Requests, NEW label \in Labels, NEW a \in Args,
           GoTo(r, label, a), LocalsOK(label, a),
           oppStatus'  \in [Opportunities -> OpportunityStatus \cup {"none"}],
           appStatus'  \in [Keys -> ApplicationStatus \cup {"none"}],
           partStatus' \in [Keys -> ParticipationStatus \cup {"none"}],
           lock' \in [Opportunities -> Requests \cup {None}]
    PROVE  Shape'
<1>1. TypeOK'
  BY GoToStep DEF TypeOK
<1>2. \A q \in Requests : LocalsOK(pc'[q], arg'[q])
  <2>1. LocalsOK(pc'[r], arg'[r])
    BY GoToStep
  <2>2. \A q \in Requests : q # r => LocalsOK(pc'[q], arg'[q])
    BY GoToStep DEF Shape
  <2>3. QED BY <2>1, <2>2
<1>3. QED BY <1>1, <1>2 DEF Shape, LocalsOK

LEMMA ReleaseLockTyped ==
    ASSUME Shape, NEW r \in Requests, ReleaseLock(r)
    PROVE  lock' \in [Opportunities -> Requests \cup {None}]
  BY DEF ReleaseLock, Shape, TypeOK

LEMMA ReturnShape ==
    ASSUME Shape, NEW r \in Requests, Return(r),
           oppStatus'  \in [Opportunities -> OpportunityStatus \cup {"none"}],
           appStatus'  \in [Keys -> ApplicationStatus \cup {"none"}],
           partStatus' \in [Keys -> ParticipationStatus \cup {"none"}],
           lock' \in [Opportunities -> Requests \cup {None}]
    PROVE  Shape'
  BY NoArgIsArg, MoveShape DEF Return

LEMMA BeginShape ==
    ASSUME Shape, NEW r \in Requests, NEW o \in Opportunities, NEW u, NEW to,
           NEW label \in Labels, Begin(r, label, o, u, to),
           [opp |-> o, user |-> u, to |-> to] \in Args,
           LocalsOK(label, [opp |-> o, user |-> u, to |-> to])
    PROVE  Shape'
  BY MoveShape DEF Begin, tables, Shape, TypeOK

LEMMA CallShape ==
    ASSUME Shape, NEW r \in Requests, Call(r)
    PROVE  Shape'
<1> PICK o \in Opportunities :
        \/ CreateOpportunity(r, o)
        \/ \E to \in OpportunityStatus : TransitionOpportunity(r, o, to)
        \/ \E u \in Users :
               \/ ApplyToOpportunity(r, o, u)
               \/ WithdrawApplication(r, o, u)
               \/ \E decision \in Decisions : ReviewApplication(r, o, u, decision)
               \/ \E attended \in BOOLEAN : RecordAttendance(r, o, u, attended)
  BY DEF Call, OrganizerCalls, VolunteerCalls, ReviewerCalls, AttendanceCalls,
             OrganizerCalls, VolunteerCalls, ReviewerCalls, AttendanceCalls
<1>1. CASE CreateOpportunity(r, o)
  BY <1>1 DEF CreateOpportunity, Shape, TypeOK, callVars, OpportunityStatus, LocalsOK
<1>2. ASSUME NEW to \in OpportunityStatus, TransitionOpportunity(r, o, to)
      PROVE  Shape'
  <2> DEFINE a == [opp |-> o, user |-> None, to |-> to]
  <2>1. a \in Args /\ LocalsOK("writeOpportunity", a) /\ "writeOpportunity" \in Labels
    BY DEF Args, LocalsOK, Labels
  <2>2. QED BY <1>2, <2>1, BeginShape DEF TransitionOpportunity
<1>3. ASSUME NEW u \in Users, ApplyToOpportunity(r, o, u)
      PROVE  Shape'
  <2> DEFINE a == [opp |-> o, user |-> u, to |-> None]
  <2>1. a \in Args /\ LocalsOK("checkDuplicate", a) /\ "checkDuplicate" \in Labels
    BY DEF Args, LocalsOK, Labels
  <2>2. QED BY <1>3, <2>1, BeginShape DEF ApplyToOpportunity
<1>4. ASSUME NEW u \in Users, WithdrawApplication(r, o, u)
      PROVE  Shape'
  <2> DEFINE a == [opp |-> o, user |-> u, to |-> "withdrawn"]
  <2>1. a \in Args /\ LocalsOK("withdraw", a) /\ "withdraw" \in Labels
    BY DEF Args, LocalsOK, Labels, ApplicationStatus
  <2>2. QED BY <1>4, <2>1, BeginShape DEF WithdrawApplication
<1>5. ASSUME NEW u \in Users, NEW decision \in Decisions, ReviewApplication(r, o, u, decision)
      PROVE  Shape'
  <2> DEFINE a == [opp |-> o, user |-> u, to |-> decision]
             label == IF appStatus[<<o, u>>] = "submitted" THEN "moveToReview" ELSE "reread"
  <2>1. a \in Args
    BY DEF Args, Decisions, ApplicationStatus
  <2>2. label \in Labels /\ LocalsOK(label, a)
    BY DEF LocalsOK, Labels
  <2>3. Begin(r, label, o, u, decision)
    BY <1>5 DEF ReviewApplication
  <2>4. QED BY <2>1, <2>2, <2>3, BeginShape
<1>6. ASSUME NEW u \in Users, NEW attended \in BOOLEAN, RecordAttendance(r, o, u, attended)
      PROVE  Shape'
  <2> DEFINE to == IF attended THEN "active" ELSE partStatus[<<o, u>>]
             a == [opp |-> o, user |-> u, to |-> to]
  <2>1. to \in ParticipationStatus
    BY <1>6 DEF RecordAttendance, Shape, TypeOK, Keys, ParticipationStatus
  <2>2. a \in Args /\ LocalsOK("attend", a) /\ "attend" \in Labels
    BY <2>1 DEF Args, LocalsOK, Labels
  <2>3. Begin(r, "attend", o, u, to)
    BY <1>6 DEF RecordAttendance
  <2>4. QED BY <2>2, <2>3, BeginShape
<1>7. QED BY <1>1, <1>2, <1>3, <1>4, <1>5, <1>6

\* What a call's locals are, where its statement needs them.
LEMMA LocalsTyped ==
    ASSUME Shape, NEW r \in Requests, pc[r] # "idle"
    PROVE  /\ arg[r] \in Args /\ LocalsOK(pc[r], arg[r])
           /\ arg[r].opp \in Opportunities
           /\ pc[r] # "writeOpportunity" => arg[r].user \in Users /\ Key(r) \in Keys
  BY DEF Shape, TypeOK, LocalsOK, Keys, Key

LEMMA ContinueShape ==
    ASSUME Shape, NEW r \in Requests, Continue(r)
    PROVE  Shape'
<1> USE DEF tables
<1>0. TypeOK
  BY DEF Shape
<1>1. CASE WriteOpportunity(r)
  <2>1. arg[r].to \in OpportunityStatus /\ arg[r].opp \in Opportunities
    BY <1>1, LocalsTyped DEF WriteOpportunity, LocalsOK
  <2>2. oppStatus' \in [Opportunities -> OpportunityStatus \cup {"none"}]
    BY <1>0, <1>1, <2>1 DEF WriteOpportunity, TypeOK
  <2>3. QED BY <1>0, <1>1, <2>2, ReturnShape DEF WriteOpportunity, TypeOK
<1>2. CASE CheckDuplicate(r)
  <2>1. CASE Return(r)
    BY <1>0, <1>2, <2>1, ReturnShape DEF CheckDuplicate, TypeOK
  <2>2. CASE GoTo(r, "insertApplication", arg[r])
    <3>1. arg[r] \in Args /\ LocalsOK("insertApplication", arg[r])
      BY <1>2, LocalsTyped DEF CheckDuplicate, LocalsOK
    <3>2. QED BY <1>0, <1>2, <2>2, <3>1, MoveShape DEF CheckDuplicate, TypeOK, Labels
  <2>3. QED BY <1>2, <2>1, <2>2 DEF CheckDuplicate
<1>3. CASE InsertApplication(r)
  <2>1. appStatus' \in [Keys -> ApplicationStatus \cup {"none"}]
    BY <1>0, <1>3 DEF InsertApplication, TypeOK, ApplicationStatus
  <2>2. QED BY <1>0, <1>3, <2>1, ReturnShape DEF InsertApplication, TypeOK
<1>4. CASE MoveToReview(r)
  <2>1. arg[r] \in Args /\ LocalsOK("reread", arg[r])
    BY <1>4, LocalsTyped DEF MoveToReview, LocalsOK
  <2>2. appStatus' \in [Keys -> ApplicationStatus \cup {"none"}]
    BY <1>0, <1>4 DEF MoveToReview, TypeOK, ApplicationStatus
  <2>3. QED BY <1>0, <1>4, <2>1, <2>2, MoveShape DEF MoveToReview, TypeOK, Labels
<1>5. CASE Reread(r)
  <2>1. CASE Return(r)
    BY <1>0, <1>5, <2>1, ReturnShape DEF Reread, TypeOK
  <2>2. ASSUME NEW label \in {"lockOpportunity", "decide"}, GoTo(r, label, arg[r]),
               label = IF arg[r].to = "accepted" THEN "lockOpportunity" ELSE "decide"
        PROVE  Shape'
    <3>1. arg[r] \in Args /\ LocalsOK(label, arg[r]) /\ label \in Labels
      BY <1>5, <2>2, LocalsTyped DEF Reread, LocalsOK, Decisions, Labels
    <3>2. QED BY <1>0, <1>5, <2>2, <3>1, MoveShape DEF Reread, TypeOK
  <2>3. QED BY <1>5, <2>1, <2>2 DEF Reread
<1>6. CASE Decide(r)
  <2>1. arg[r].to \in ApplicationStatus
    BY <1>6, LocalsTyped DEF Decide, LocalsOK, ApplicationStatus
  <2>2. appStatus' \in [Keys -> ApplicationStatus \cup {"none"}]
    BY <1>0, <1>6, <2>1 DEF Decide, TypeOK
  <2>3. QED BY <1>0, <1>6, <2>2, ReturnShape DEF Decide, TypeOK
<1>7. CASE LockOpportunity(r)
  <2>1. arg[r] \in Args /\ LocalsOK("count", arg[r])
    BY <1>7, LocalsTyped DEF LockOpportunity, LocalsOK
  <2>2. lock' \in [Opportunities -> Requests \cup {None}]
    BY <1>0, <1>7 DEF LockOpportunity, TypeOK
  <2>3. QED BY <1>0, <1>7, <2>1, <2>2, MoveShape DEF LockOpportunity, TypeOK, Labels
<1>8. CASE Count(r)
  <2>1. CASE ReleaseLock(r) /\ Return(r)
    BY <1>0, <1>8, <2>1, ReturnShape, ReleaseLockTyped DEF Count, TypeOK
  <2>2. CASE GoTo(r, "accept", arg[r]) /\ UNCHANGED lock
    <3>1. arg[r] \in Args /\ LocalsOK("accept", arg[r])
      BY <1>8, LocalsTyped DEF Count, LocalsOK
    <3>2. QED BY <1>0, <1>8, <2>2, <3>1, MoveShape DEF Count, TypeOK, Labels
  <2>3. QED BY <1>8, <2>1, <2>2 DEF Count
<1>9. CASE Accept(r)
  <2>1. appStatus' \in [Keys -> ApplicationStatus \cup {"none"}]
    BY <1>0, <1>9 DEF Accept, TypeOK, ApplicationStatus
  <2>2. partStatus' \in [Keys -> ParticipationStatus \cup {"none"}]
    BY <1>0, <1>9 DEF Accept, TypeOK, ParticipationStatus
  <2>3. QED BY <1>0, <1>9, <2>1, <2>2, ReturnShape, ReleaseLockTyped DEF Accept, TypeOK
<1>10. CASE Attend(r)
  <2>1. arg[r].to \in ParticipationStatus
    BY <1>10, LocalsTyped DEF Attend, LocalsOK
  <2>2. partStatus' \in [Keys -> ParticipationStatus \cup {"none"}]
    BY <1>0, <1>10, <2>1 DEF Attend, TypeOK
  <2>3. QED BY <1>0, <1>10, <2>2, ReturnShape DEF Attend, TypeOK
<1>11. QED
  BY <1>1, <1>2, <1>3, <1>4, <1>5, <1>6, <1>7, <1>8, <1>9, <1>10 DEF Continue

LEMMA CrashShape ==
    ASSUME Shape, NEW r \in Requests, Crash(r)
    PROVE  Shape'
  BY ReturnShape, ReleaseLockTyped DEF Crash, Shape, TypeOK, tables

LEMMA NextShape == Shape /\ [Next]_vars => Shape'
<1> SUFFICES ASSUME Shape, [Next]_vars PROVE Shape'
  OBVIOUS
<1>1. CASE Next
  BY <1>1, CallShape, ContinueShape, CrashShape DEF Next
<1>2. CASE UNCHANGED vars
  BY <1>2 DEF vars, tables, callVars, Shape, TypeOK, LocalsOK
<1>3. QED BY <1>1, <1>2

\* Every variable keeps its type, and every call's locals are what its next
\* statement needs.
THEOREM TypeCorrect == Spec => []TypeOK
<1>1. Spec => []Shape
  BY InitShape, NextShape, PTL DEF Spec
<1>2. Shape => TypeOK
  BY DEF Shape
<1>3. QED BY <1>1, <1>2, PTL

-----------------------------------------------------------------------------
(* RowLock *)

LEMMA StepOfOne ==
    ASSUME Shape, NEW r \in Requests, Call(r) \/ Continue(r) \/ Crash(r)
    PROVE  /\ \A q \in Requests : q # r => pc'[q] = pc[q] /\ arg'[q] = arg[q]
           /\ pc' \in [Requests -> Labels] /\ arg' \in [Requests -> Args]
<1>1. \A q \in Requests : q # r => pc'[q] = pc[q] /\ arg'[q] = arg[q]
  BY DEF Call, OrganizerCalls, VolunteerCalls, ReviewerCalls, AttendanceCalls,
             Continue, Crash, CreateOpportunity, TransitionOpportunity, WriteOpportunity,
         ApplyToOpportunity, CheckDuplicate, InsertApplication, WithdrawApplication,
         ReviewApplication, MoveToReview, Reread, Decide, LockOpportunity, Count, Accept,
         RecordAttendance, Attend, Begin, Return, GoTo, Shape, TypeOK, callVars
<1>2. pc' \in [Requests -> Labels] /\ arg' \in [Requests -> Args]
  BY CallShape, ContinueShape, CrashShape DEF Shape, TypeOK
<1>3. QED BY <1>1, <1>2

\* A step outside transactions leaves lock and transactions as they are.
LEMMA LockLeftAlone ==
    ASSUME RowLock, NEW r \in Requests, UNCHANGED lock,
           pc[r] \notin InTransaction, pc'[r] \notin InTransaction,
           \A q \in Requests : q # r => pc'[q] = pc[q] /\ arg'[q] = arg[q]
    PROVE  TransactionHoldsLock' /\ LockHeldInTransaction'
<1>1. TransactionHoldsLock'
  BY DEF RowLock, TransactionHoldsLock
<1>2. LockHeldInTransaction'
  BY DEF RowLock, LockHeldInTransaction, InTransaction, Shape, TypeOK
<1>3. QED BY <1>1, <1>2

\* The end of a call releases what its transaction held, and nothing else.
LEMMA LockReleased ==
    ASSUME RowLock, NEW r \in Requests, ReleaseLock(r), Return(r)
    PROVE  TransactionHoldsLock' /\ LockHeldInTransaction'
<1>1. /\ pc'[r] = "idle"
      /\ \A q \in Requests : q # r => pc'[q] = pc[q] /\ arg'[q] = arg[q]
  BY DEF Return, GoTo, RowLock, Shape, TypeOK
<1>2. \A o \in Opportunities : lock'[o] = IF lock[o] = r THEN None ELSE lock[o]
  BY DEF ReleaseLock
<1>3. TransactionHoldsLock'
  <2> SUFFICES ASSUME NEW q \in Requests, pc'[q] \in InTransaction
               PROVE  lock'[arg'[q].opp] = q
    BY DEF TransactionHoldsLock
  <2>1. q # r /\ pc[q] \in InTransaction /\ arg'[q] = arg[q]
    BY <1>1 DEF InTransaction
  <2>2. lock[arg[q].opp] = q /\ arg[q].opp \in Opportunities
    BY <2>1, LocalsTyped DEF RowLock, TransactionHoldsLock, InTransaction
  <2>3. QED BY <1>2, <2>1, <2>2
<1>4. LockHeldInTransaction'
  BY <1>1, <1>2 DEF RowLock, LockHeldInTransaction, Shape, TypeOK
<1>5. QED BY <1>3, <1>4

LEMMA CallLocks ==
    ASSUME RowLock, NEW r \in Requests, Call(r)
    PROVE  TransactionHoldsLock' /\ LockHeldInTransaction'
<1>0. Shape
  BY DEF RowLock
<1>1. /\ UNCHANGED lock
      /\ pc[r] \notin InTransaction /\ pc'[r] \notin InTransaction
  BY <1>0 DEF Call, OrganizerCalls, VolunteerCalls, ReviewerCalls, AttendanceCalls,
             CreateOpportunity, TransitionOpportunity, ApplyToOpportunity,
         WithdrawApplication, ReviewApplication, RecordAttendance, Begin, GoTo,
         InTransaction, Shape, TypeOK, callVars
<1>2. QED BY <1>0, <1>1, StepOfOne, LockLeftAlone

LEMMA ContinueLocks ==
    ASSUME RowLock, NEW r \in Requests, Continue(r)
    PROVE  TransactionHoldsLock' /\ LockHeldInTransaction'
<1>0. Shape /\ TypeOK
  BY DEF RowLock, Shape
<1>1. CASE \/ WriteOpportunity(r) \/ CheckDuplicate(r) \/ InsertApplication(r)
           \/ MoveToReview(r) \/ Reread(r) \/ Decide(r) \/ Attend(r)
  <2>1. /\ UNCHANGED lock
        /\ pc[r] \notin InTransaction /\ pc'[r] \notin InTransaction
    BY <1>0, <1>1 DEF WriteOpportunity, CheckDuplicate, InsertApplication, MoveToReview,
           Reread, Decide, Attend, Return, GoTo, InTransaction, TypeOK
  <2>2. QED BY <1>0, <2>1, StepOfOne, LockLeftAlone
<1>2. CASE LockOpportunity(r)
  <2>1. /\ pc[r] = "lockOpportunity" /\ pc'[r] = "count" /\ arg'[r] = arg[r]
        /\ \A q \in Requests : q # r => pc'[q] = pc[q] /\ arg'[q] = arg[q]
    BY <1>0, <1>2 DEF LockOpportunity, GoTo, TypeOK
  <2>2. arg[r].opp \in Opportunities
    BY <1>0, <2>1, LocalsTyped
  <2>3. /\ lock[arg[r].opp] = None /\ lock'[arg[r].opp] = r
        /\ \A o \in Opportunities : o # arg[r].opp => lock'[o] = lock[o]
    BY <1>0, <1>2, <2>2 DEF LockOpportunity, TypeOK
  <2>4. TransactionHoldsLock'
    <3> SUFFICES ASSUME NEW q \in Requests, pc'[q] \in InTransaction
                 PROVE  lock'[arg'[q].opp] = q
      BY DEF TransactionHoldsLock
    <3>1. CASE q = r
      BY <2>1, <2>3, <3>1
    <3>2. CASE q # r
      <4>1. pc[q] \in InTransaction /\ arg'[q] = arg[q]
        BY <2>1, <3>2
      <4>2. lock[arg[q].opp] = q /\ arg[q].opp \in Opportunities
        BY <1>0, <4>1, LocalsTyped DEF RowLock, TransactionHoldsLock, InTransaction
      <4>3. QED BY <2>3, <4>1, <4>2, NoneIsNoRequest
    <3>3. QED BY <3>1, <3>2
  <2>5. LockHeldInTransaction'
    BY <1>0, <2>1, <2>3 DEF RowLock, LockHeldInTransaction, TypeOK
  <2>6. QED BY <2>4, <2>5
<1>3. CASE Count(r)
  <2>1. CASE ReleaseLock(r) /\ Return(r)
    BY <2>1, LockReleased
  <2>2. CASE GoTo(r, "accept", arg[r]) /\ UNCHANGED lock
    <3>1. /\ pc[r] = "count" /\ pc'[r] = "accept" /\ arg' = arg
          /\ \A q \in Requests : q # r => pc'[q] = pc[q]
      BY <1>0, <1>3, <2>2 DEF Count, GoTo, TypeOK
    <3>2. QED BY <1>0, <2>2, <3>1 DEF RowLock, TransactionHoldsLock, LockHeldInTransaction,
                 InTransaction, TypeOK
  <2>3. QED BY <1>3, <2>1, <2>2 DEF Count
<1>4. CASE Accept(r)
  BY <1>4, LockReleased DEF Accept
<1>5. QED BY <1>1, <1>2, <1>3, <1>4 DEF Continue

LEMMA RowLockStep == RowLock /\ [Next]_vars => RowLock'
<1> SUFFICES ASSUME RowLock, [Next]_vars PROVE RowLock'
  OBVIOUS
<1>1. Shape'
  BY NextShape DEF RowLock
<1>2. TransactionHoldsLock' /\ LockHeldInTransaction'
  <2>1. CASE Next
    BY <2>1, CallLocks, ContinueLocks, LockReleased DEF Next, Crash
  <2>2. CASE UNCHANGED vars
    BY <2>2 DEF vars, callVars, RowLock, TransactionHoldsLock, LockHeldInTransaction
  <2>3. QED BY <2>1, <2>2
<1>3. QED BY <1>1, <1>2 DEF RowLock

LEMMA InitRowLock == Init => RowLock
  BY InitShape DEF Init, RowLock, TransactionHoldsLock, LockHeldInTransaction, InTransaction

\* The row of an opportunity is locked by a transaction that goes on.
THEOREM LockHeld == Spec => []LockHeldInTransaction
<1>1. Spec => []RowLock
  BY InitRowLock, RowLockStep, PTL DEF Spec
<1>2. RowLock => LockHeldInTransaction
  BY DEF RowLock
<1>3. QED BY <1>1, <1>2, PTL

-----------------------------------------------------------------------------
(* Participations are inserted by acceptances and never taken away *)

Insertion(r) == Accept(r) /\ partStatus[Key(r)] = "none"

Attending == RowLock /\ AttendsPlace

LEMMA PlacesAsBefore ==
    ASSUME Attending, NEW r \in Requests, Call(r) \/ Continue(r) \/ Crash(r), ~Insertion(r)
    PROVE  \A k \in Keys : partStatus'[k] = "none" <=> partStatus[k] = "none"
<1>0. Shape /\ TypeOK
  BY DEF Attending, RowLock, Shape
<1>1. CASE Attend(r)
  <2>1. pc[r] = "attend" /\ Key(r) \in Keys /\ arg[r].to \in ParticipationStatus
    BY <1>0, <1>1, LocalsTyped DEF Attend, LocalsOK
  <2>2. partStatus[Key(r)] # "none"
    BY <2>1 DEF Attending, AttendsPlace
  <2>3. \A k \in Keys : partStatus'[k] = IF k = Key(r) THEN arg[r].to ELSE partStatus[k]
    BY <1>0, <1>1 DEF Attend, TypeOK
  <2>4. arg[r].to # "none"
    BY <2>1 DEF ParticipationStatus
  <2>5. QED BY <2>2, <2>3, <2>4
<1>2. CASE ~Attend(r)
  <2>1. UNCHANGED partStatus
    BY <1>2 DEF Insertion, Call, OrganizerCalls, VolunteerCalls, ReviewerCalls, AttendanceCalls,
             Continue, Crash, CreateOpportunity, TransitionOpportunity,
           WriteOpportunity, ApplyToOpportunity, CheckDuplicate, InsertApplication,
           WithdrawApplication, ReviewApplication, MoveToReview, Reread, Decide,
           LockOpportunity, Count, Accept, RecordAttendance, Begin, tables
  <2>2. QED BY <2>1
<1>3. QED BY <1>1, <1>2

LEMMA InsertionStep ==
    ASSUME Attending, NEW r \in Requests, Insertion(r)
    PROVE  /\ Key(r) \in Keys
           /\ partStatus'[Key(r)] = "accepted" /\ appStatus'[Key(r)] = "accepted"
           /\ \A k \in Keys : k # Key(r) => /\ partStatus'[k] = partStatus[k]
                                            /\ appStatus'[k] = appStatus[k]
<1>0. Shape /\ TypeOK
  BY DEF Attending, RowLock, Shape
<1>1. Key(r) \in Keys
  BY <1>0, LocalsTyped DEF Insertion, Accept
<1>2. QED BY <1>0, <1>1 DEF Insertion, Accept, TypeOK

LEMMA AttendingStep == Attending /\ [Next]_vars => Attending'
<1> SUFFICES ASSUME Attending, [Next]_vars PROVE Attending'
  OBVIOUS
<1>0. RowLock /\ Shape /\ TypeOK
  BY DEF Attending, RowLock, Shape
<1>1. RowLock'
  BY <1>0, RowLockStep
<1>2. AttendsPlace'
  <2>1. ASSUME NEW r \in Requests, Call(r) \/ Continue(r) \/ Crash(r),
               NEW q \in Requests, pc'[q] = "attend"
        PROVE  partStatus'[Key(q)'] # "none"
    <3>1. \A k \in Keys : partStatus[k] # "none" => partStatus'[k] # "none"
      <4>1. CASE Insertion(r)
        BY <4>1, InsertionStep
      <4>2. CASE ~Insertion(r)
        BY <2>1, <4>2, PlacesAsBefore
      <4>3. QED BY <4>1, <4>2
    <3>2. CASE q # r \/ pc[q] = "attend"
      <4>1. pc[q] = "attend" /\ arg'[q] = arg[q]
        <5>1. CASE q # r
          BY <1>0, <2>1, <5>1, StepOfOne
        <5>2. CASE q = r /\ pc[r] = "attend"
          BY <1>0, <2>1, <5>2 DEF Call, OrganizerCalls, VolunteerCalls, ReviewerCalls, AttendanceCalls,
             Continue, Crash, CreateOpportunity,
                 TransitionOpportunity, WriteOpportunity, ApplyToOpportunity,
                 CheckDuplicate, InsertApplication, WithdrawApplication, ReviewApplication,
                 MoveToReview, Reread, Decide, LockOpportunity, Count, Accept,
                 RecordAttendance, Attend, Begin, Return, GoTo, TypeOK, callVars
        <5>3. QED BY <3>2, <5>1, <5>2
      <4>2. Key(q)' = Key(q) /\ Key(q) \in Keys
        BY <1>0, <4>1, LocalsTyped DEF Key
      <4>3. QED BY <3>1, <4>1, <4>2 DEF Attending, AttendsPlace
    <3>3. CASE q = r /\ pc[r] # "attend"
      <4>1. \E o \in Opportunities, u \in Users, b \in BOOLEAN : RecordAttendance(r, o, u, b)
        BY <1>0, <2>1, <3>3 DEF Call, OrganizerCalls, VolunteerCalls, ReviewerCalls, AttendanceCalls,
             Continue, Crash, CreateOpportunity,
               TransitionOpportunity, WriteOpportunity, ApplyToOpportunity,
               CheckDuplicate, InsertApplication, WithdrawApplication, ReviewApplication,
               MoveToReview, Reread, Decide, LockOpportunity, Count, Accept,
               Attend, Begin, Return, GoTo, TypeOK, callVars
      <4>2. PICK o \in Opportunities, u \in Users, b \in BOOLEAN : RecordAttendance(r, o, u, b)
        BY <4>1
      <4>3. partStatus[<<o, u>>] # "none" /\ Key(r)' = <<o, u>> /\ <<o, u>> \in Keys
        BY <1>0, <4>2 DEF RecordAttendance, Begin, GoTo, TypeOK, Key, Keys
      <4>4. QED BY <3>1, <3>3, <4>3
    <3>4. QED BY <3>2, <3>3
  <2>2. CASE Next
    BY <2>1, <2>2 DEF Next, AttendsPlace
  <2>3. CASE UNCHANGED vars
    BY <2>3 DEF vars, tables, callVars, Attending, AttendsPlace, Key
  <2>4. QED BY <2>2, <2>3
<1>3. QED BY <1>1, <1>2 DEF Attending

LEMMA InitAttending == Init => Attending
  BY InitRowLock DEF Init, Attending, AttendsPlace

-----------------------------------------------------------------------------
(* The places *)

LEMMA SomeParticipants ==
    ASSUME NEW o \in Opportunities
    PROVE  IsFiniteSet(Participants(o)) /\ Cardinality(Participants(o)) \in Nat
  BY UsersFinite, FS_Subset, FS_CardinalityType DEF Participants

\* A participant is one who has a participation.
LEMMA ParticipantsAre ==
    ASSUME TypeOK, NEW o \in Opportunities
    PROVE  Participants(o) = {u \in Users : partStatus[<<o, u>>] # "none"}
  BY DEF Participants, TypeOK, Keys, ParticipationStatus

LEMMA SameParticipants ==
    ASSUME TypeOK, TypeOK', NEW o \in Opportunities,
           \A u \in Users : partStatus'[<<o, u>>] = "none" <=> partStatus[<<o, u>>] = "none"
    PROVE  Participants(o)' = Participants(o)
<1>1. Participants(o)' = {u \in Users : partStatus'[<<o, u>>] # "none"}
  BY DEF Participants, TypeOK, Keys, ParticipationStatus
<1>2. QED BY <1>1, ParticipantsAre

\* An insertion adds the one volunteer, to that opportunity only.
LEMMA OneMore ==
    ASSUME Attending, TypeOK', NEW r \in Requests, Insertion(r),
           NEW o \in Opportunities, o = arg[r].opp
    PROVE  /\ Participants(o)' = Participants(o) \cup {arg[r].user}
           /\ \A p \in Opportunities : p # o => Participants(p)' = Participants(p)
<1>0. TypeOK /\ Shape
  BY DEF Attending, RowLock, Shape
<1>1. arg[r].user \in Users
  BY <1>0, LocalsTyped DEF Insertion, Accept
<1>2. Participants(o)' = {u \in Users : partStatus'[<<o, u>>] # "none"}
  BY DEF Participants, TypeOK, Keys, ParticipationStatus
<1>3. \A u \in Users : partStatus'[<<o, u>>] # "none"
                         <=> u = arg[r].user \/ partStatus[<<o, u>>] # "none"
  BY <1>1, InsertionStep DEF Key, Keys
<1>4. Participants(o)' = Participants(o) \cup {arg[r].user}
  BY <1>0, <1>1, <1>2, <1>3, ParticipantsAre
<1>5. ASSUME NEW p \in Opportunities, p # o
      PROVE  Participants(p)' = Participants(p)
  <2>1. \A u \in Users : partStatus'[<<p, u>>] = partStatus[<<p, u>>]
    BY <1>5, InsertionStep DEF Key, Keys
  <2>2. QED BY <1>0, <2>1, SameParticipants
<1>6. QED BY <1>4, <1>5

LEMMA InsertionRoom ==
    ASSUME Attending, TypeOK', Room, NEW r \in Requests, Insertion(r)
    PROVE  Room'
<1>0. TypeOK /\ Shape
  BY DEF Attending, RowLock, Shape
<1>1. arg[r].opp \in Opportunities /\ pc[r] = "accept"
  BY <1>0, LocalsTyped DEF Insertion, Accept
<1> PICK o \in Opportunities : o = arg[r].opp
  BY <1>1
<1>2. PlacesNeverExceeded'
  <2>1. ASSUME MaxParticipants[o] # Unlimited
        PROVE  Cardinality(Participants(o)') <= MaxParticipants[o]
    <3>1. MaxParticipants[o] \in Nat
      BY <2>1, MaxParticipantsType
    <3>2. ~(Cardinality(Participants(o)) >= MaxParticipants[o])
      BY <1>1, <2>1 DEF Room, CountStillTrue, Full
    <3>3. /\ Cardinality(Participants(o)') \in Nat
          /\ Cardinality(Participants(o)') <= Cardinality(Participants(o)) + 1
      <4>1. /\ IsFiniteSet(Participants(o)) /\ Cardinality(Participants(o)) \in Nat
            /\ Participants(o)' = Participants(o) \cup {arg[r].user}
        BY OneMore, SomeParticipants
      <4>2. \/ Cardinality(Participants(o)') = Cardinality(Participants(o))
            \/ Cardinality(Participants(o)') = Cardinality(Participants(o)) + 1
        BY <4>1, FS_AddElement
      <4>3. QED BY <4>1, <4>2
    <3>4. QED BY <3>1, <3>2, <3>3, SomeParticipants
  <2>2. \A p \in Opportunities : p # o /\ MaxParticipants[p] # Unlimited =>
            Cardinality(Participants(p)') <= MaxParticipants[p]
    BY OneMore DEF Room, PlacesNeverExceeded
  <2>3. QED BY <2>1, <2>2 DEF PlacesNeverExceeded
<1>3. CountStillTrue'
  <2> SUFFICES ASSUME NEW q \in Requests, pc'[q] = "accept"
               PROVE  ~Full(arg[q].opp)'
    BY DEF CountStillTrue
  <2>1. pc'[r] = "idle"
    BY <1>0 DEF Insertion, Accept, Return, GoTo, TypeOK
  <2>2. q # r /\ pc[q] = "accept" /\ arg'[q] = arg[q]
    BY <1>0, <2>1, StepOfOne DEF Insertion, Continue
  <2>3. lock[arg[q].opp] = q /\ lock[o] = r /\ arg[q].opp \in Opportunities
    BY <1>0, <1>1, <2>2, LocalsTyped DEF Attending, RowLock, TransactionHoldsLock, InTransaction
  <2> PICK p \in Opportunities : p = arg[q].opp
    BY <2>3
  <2>4. Participants(p)' = Participants(p)
    BY <2>2, <2>3, OneMore
  <2>5. ~Full(p)
    BY <2>2 DEF Room, CountStillTrue
  <2>6. ~Full(p)'
    BY <2>4, <2>5 DEF Full
  <2>7. QED BY <2>2, <2>6 DEF Full, Participants
<1>4. QED BY <1>2, <1>3 DEF Room

LEMMA OtherRoom ==
    ASSUME Attending, TypeOK', Room, NEW r \in Requests,
           Call(r) \/ Continue(r) \/ Crash(r), ~Insertion(r)
    PROVE  Room'
<1>0. TypeOK /\ Shape
  BY DEF Attending, RowLock, Shape
<1>1. \A o \in Opportunities : Participants(o)' = Participants(o)
  BY <1>0, PlacesAsBefore, SameParticipants DEF Keys
<1>2. PlacesNeverExceeded'
  BY <1>1 DEF Room, PlacesNeverExceeded
<1>3. CountStillTrue'
  <2> SUFFICES ASSUME NEW q \in Requests, pc'[q] = "accept"
               PROVE  ~Full(arg[q].opp)'
    BY DEF CountStillTrue
  <2>1. /\ pc[q] \in InTransaction /\ ~Full(arg[q].opp) /\ arg'[q] = arg[q]
    <3>1. CASE q # r
      BY <1>0, <3>1, StepOfOne DEF Room, CountStillTrue, InTransaction
    <3>2. CASE q = r
      <4>1. Count(r)
        BY <1>0, <3>2 DEF Call, OrganizerCalls, VolunteerCalls, ReviewerCalls, AttendanceCalls,
             Continue, Crash, CreateOpportunity,
               TransitionOpportunity, WriteOpportunity, ApplyToOpportunity,
               CheckDuplicate, InsertApplication, WithdrawApplication, ReviewApplication,
               MoveToReview, Reread, Decide, LockOpportunity, Accept,
               RecordAttendance, Attend, Begin, Return, GoTo, TypeOK, callVars
      <4>2. pc[r] = "count" /\ ~Full(arg[r].opp) /\ arg'[r] = arg[r]
        BY <1>0, <3>2, <4>1 DEF Count, Return, GoTo, TypeOK
      <4>3. QED BY <3>2, <4>2 DEF InTransaction
    <3>3. QED BY <3>1, <3>2
  <2>2. arg[q].opp \in Opportunities
    BY <1>0, <2>1, LocalsTyped DEF InTransaction
  <2>3. QED BY <1>1, <2>1, <2>2 DEF Full, Participants
<1>4. QED BY <1>2, <1>3 DEF Room

LEMMA RoomStep == Attending /\ Room /\ [Next]_vars => Room'
<1> SUFFICES ASSUME Attending, Room, [Next]_vars PROVE Room'
  OBVIOUS
<1>1. TypeOK'
  BY AttendingStep DEF Attending, RowLock, Shape
<1>2. CASE Next
  BY <1>1, <1>2, InsertionRoom, OtherRoom DEF Next
<1>3. CASE UNCHANGED vars
  BY <1>3 DEF vars, tables, callVars, Room, CountStillTrue, PlacesNeverExceeded, Full, Participants
<1>4. QED BY <1>2, <1>3

LEMMA InitRoom == Init => Room
<1> SUFFICES ASSUME Init PROVE Room
  OBVIOUS
<1>1. \A o \in Opportunities : Participants(o) = {}
  BY DEF Init, Participants, Keys, ParticipationStatus
<1>2. QED BY <1>1, FS_EmptySet, MaxParticipantsType DEF Room, Init, CountStillTrue, PlacesNeverExceeded

\* However many reviewers accept at once, an opportunity never has more
\* participants than places.
THEOREM PlacesKept == Spec => []PlacesNeverExceeded
<1>1. Spec => [](Attending /\ Room)
  BY InitAttending, AttendingStep, InitRoom, RoomStep, PTL DEF Spec
<1>2. Attending /\ Room => PlacesNeverExceeded
  BY DEF Room
<1>3. QED BY <1>1, <1>2, PTL

\* The place that a transaction counted is still free when it commits.
THEOREM CountKept == Spec => []CountStillTrue
<1>1. Spec => [](Attending /\ Room)
  BY InitAttending, AttendingStep, InitRoom, RoomStep, PTL DEF Spec
<1>2. Attending /\ Room => CountStillTrue
  BY DEF Room
<1>3. QED BY <1>1, <1>2, PTL

-----------------------------------------------------------------------------
(* Accepted applications *)

LEMMA AcceptedStep == Attending /\ AcceptedHasPlace /\ [Next]_vars => AcceptedHasPlace'
<1> SUFFICES ASSUME Attending, AcceptedHasPlace, [Next]_vars PROVE AcceptedHasPlace'
  OBVIOUS
<1>0. TypeOK /\ Shape
  BY DEF Attending, RowLock, Shape
<1>1. ASSUME NEW r \in Requests, Call(r) \/ Continue(r) \/ Crash(r), ~Insertion(r)
      PROVE  AcceptedHasPlace'
  <2>1. \A k \in Keys : appStatus'[k] = "accepted" => appStatus[k] = "accepted"
    <3>1. CASE Decide(r)
      <4>1. arg[r].to # "accepted" /\ Key(r) \in Keys
        BY <1>0, <3>1, LocalsTyped DEF Decide, LocalsOK
      <4>2. QED BY <1>0, <3>1, <4>1 DEF Decide, TypeOK
    <3>2. CASE MoveToReview(r) \/ InsertApplication(r)
      BY <1>0, <3>2 DEF MoveToReview, InsertApplication, TypeOK
    <3>3. CASE ~Decide(r) /\ ~MoveToReview(r) /\ ~InsertApplication(r)
      <4>1. UNCHANGED appStatus
        BY <1>1, <3>3 DEF Insertion, Call, OrganizerCalls, VolunteerCalls, ReviewerCalls, AttendanceCalls,
             Continue, Crash, CreateOpportunity,
               TransitionOpportunity, WriteOpportunity, ApplyToOpportunity, CheckDuplicate,
               WithdrawApplication, ReviewApplication, Reread, LockOpportunity, Count,
               Accept, RecordAttendance, Attend, Begin, tables
      <4>2. QED BY <4>1
    <3>4. QED BY <3>1, <3>2, <3>3
  <2>2. QED BY <1>1, <2>1, PlacesAsBefore DEF AcceptedHasPlace
<1>2. ASSUME NEW r \in Requests, Insertion(r)
      PROVE  AcceptedHasPlace'
  BY <1>2, InsertionStep DEF AcceptedHasPlace
<1>3. CASE Next
  BY <1>1, <1>2, <1>3 DEF Next
<1>4. CASE UNCHANGED vars
  BY <1>4 DEF vars, tables, AcceptedHasPlace
<1>5. QED BY <1>3, <1>4

\* An accepted application has its participation.
THEOREM Accepted == Spec => []AcceptedHasPlace
<1>1. Init => AcceptedHasPlace
  BY DEF Init, AcceptedHasPlace
<1>2. Spec => [](Attending /\ AcceptedHasPlace)
  BY <1>1, InitAttending, AttendingStep, AcceptedStep, PTL DEF Spec
<1>3. Attending /\ AcceptedHasPlace => AcceptedHasPlace
  OBVIOUS
<1>4. QED BY <1>2, <1>3, PTL
=============================================================================
