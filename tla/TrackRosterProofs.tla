------------------------- MODULE TrackRosterProofs -------------------------
(***************************************************************************)
(* Proofs about TrackRoster, for any number of members, tracks, calls and  *)
(* crashes: the types, the two implementations of Seats, and that a quiet  *)
(* call settles its member's badges.                                       *)
(*                                                                         *)
(* Shape says that a call's locals are values its next statement can use.  *)
(* OneHolder is what the unique indexes keep.  Settling says how far a     *)
(* quiet call has come with the two badges.                                *)
(***************************************************************************)
EXTENDS TrackRoster, TLAPS

Rows        == Tracks \X Users
Leaderships == [status : {"none", "active", "suspended", "revoked"}, track : Tracks \cup {None},
                user : Users \cup {None}, role : {"primary", "deputy", None}]
Requested   == [status : {"none", "submitted", "approved", "rejected"},
                track : Tracks \cup {None}, user : Users \cup {None}, primary : BOOLEAN]

Args ==
    [track : Tracks \cup {None}, user : Users \cup {None},
     actor : Users \cup {Admin, None}, app : Applications \cup {None}, primary : BOOLEAN,
     role : {"primary", "deputy", None}, assignment : Assignments \cup {None},
     decision : {"approved", "rejected", None}, found : BOOLEAN,
     kind : Kinds, wanted : Source \cup {None}, seen : Source \cup {None},
     ref : {"none", "live", "gone"}, syncs : {1, 2}]

\* The labels of a call that is at one user, and of one that is at a track too.
OfUser  == {"revokeLeader", "suspendMembers", "suspendLeaders", "sync", "award",
            "writeBadge", "done"}
OfTrack == Labels \ (OfUser \cup {"idle"})

LocalsOK(label, a) ==
    /\ label \in OfUser \cup OfTrack => a.user \in Users
    /\ label \in OfTrack => a.track \in Tracks
    /\ label \in {"scope", "decide"} =>
          /\ a.decision \in {"approved", "rejected"}
          /\ a.app \in Applications /\ application[a.app].status # "none"
    /\ label = "revokeLeader" =>
          a.assignment \in Assignments /\ assignment[a.assignment] # NoAssignment
    /\ label = "done" => a.kind = "leader"

\* A row that is there has its columns.
RowsOK ==
    /\ \A a \in Applications :
        application[a].status # "none" =>
            application[a].track \in Tracks /\ application[a].user \in Users
    /\ \A l \in Assignments :
        assignment[l] # NoAssignment =>
            assignment[l].track \in Tracks /\ assignment[l].user \in Users

TablesOK ==
    /\ clinic \subseteq Users /\ open \subseteq Tracks /\ over \subseteq Assignments
    /\ application \in [Applications -> Requested]
    /\ member \in [Rows -> {"none", "active", "suspended"}]
    /\ primary \subseteq {x \in Rows : member[x] # "none"}
    /\ assignment \in [Assignments -> Leaderships]
    /\ badge \in [Kinds -> [Users -> Source \cup {None}]]
    /\ RowsOK

\* Rows are never deleted.
RowsStay ==
    /\ \A a \in Applications :
          application[a].status # "none" => application'[a].status # "none"
    /\ \A l \in Assignments :
          assignment[l] # NoAssignment => assignment'[l] # NoAssignment

TablesKept == TablesOK' /\ RowsStay

Shape ==
    /\ TypeOK
    /\ arg \in [Requests -> Args]
    /\ RowsOK
    /\ \A r \in Requests : LocalsOK(pc[r], arg[r])

OneHolder ==
    /\ \A t \in Tracks : \A k, l \in PrimaryLeaders(t) : k = l
    /\ \A u \in Users : \A s, t \in PrimaryTracks(u) : s = t

\* The primary badge a user is due has been given and no other.
PrimarySettled(u) == {badge["primary"][u]} \ {None} = PrimaryTracks(u)
LeaderSettled(u)  == badge["leader"][u] # None <=> LedBy(u) # {}

\* The source a sync is to write is one of those the user holds.
Due(a) ==
    LET held == Holdings(a.kind, a.user) IN
    IF held = {} THEN a.wanted = None ELSE a.wanted \in held

AwardAsRead(a) ==
    /\ a.seen = badge[a.kind][a.user]
    /\ a.ref = IF a.seen = None THEN "none" ELSE "live"

SettlingAt(label, a) ==
    /\ label \in {"award", "writeBadge"} => Due(a)
    /\ label = "writeBadge" => AwardAsRead(a)
    /\ label \in {"sync", "award", "writeBadge", "done"} /\ a.kind = "leader"
          => PrimarySettled(a.user)
    /\ label = "done" => LeaderSettled(a.user)

Settling == \A r \in Requests : quiet[r] => SettlingAt(pc[r], arg[r])

-----------------------------------------------------------------------------
(* Shape: how a call moves *)

LEMMA ShapeSplit ==
    Shape <=> /\ TablesOK
              /\ pc \in [Requests -> Labels]
              /\ arg \in [Requests -> Args]
              /\ \A r \in Requests : LocalsOK(pc[r], arg[r])
  BY DEF Shape, TypeOK, TablesOK, Rows, Leaderships, Requested

LEMMA NoArgIsArg == NoArg \in Args /\ "idle" \in Labels /\ LocalsOK("idle", NoArg)
  BY DEF NoArg, Args, Kinds, Labels, LocalsOK, OfUser, OfTrack

LEMMA InitShape == Init => Shape
<1> SUFFICES ASSUME Init PROVE Shape
  OBVIOUS
<1>1. TablesOK
  BY DEF Init, TablesOK, NoApplication, NoAssignment, Requested, Leaderships, Rows, RowsOK, Kinds
<1>2. QED BY <1>1, NoArgIsArg, ShapeSplit DEF Init

\* A call's locals, where its statement needs them.
LEMMA LocalsTyped ==
    ASSUME Shape, NEW r \in Requests
    PROVE  /\ arg[r] \in Args
           /\ pc[r] \in OfTrack => arg[r].track \in Tracks /\ arg[r].user \in Users
           /\ pc[r] \in OfUser => arg[r].user \in Users
           /\ pc[r] \in {"scope", "decide"} =>
                  /\ arg[r].decision \in {"approved", "rejected"}
                  /\ arg[r].app \in Applications /\ application[arg[r].app].status # "none"
           /\ pc[r] = "revokeLeader" =>
                  /\ arg[r].assignment \in Assignments
                  /\ assignment[arg[r].assignment] # NoAssignment
           /\ pc[r] = "done" => arg[r].kind = "leader"
  BY DEF Shape, LocalsOK

\* What GoTo does to the call it moves and to the others.
LEMMA GoToStep ==
    ASSUME Shape, NEW r \in Requests, NEW label, NEW a, GoTo(r, label, a)
    PROVE  /\ pc'[r] = label /\ arg'[r] = a
           /\ \A q \in Requests : q # r => pc'[q] = pc[q] /\ arg'[q] = arg[q]
  BY DEF GoTo, Shape, TypeOK

\* A step that keeps the tables' types and moves one call keeps the shape.
LEMMA MoveShape ==
    ASSUME Shape, NEW r \in Requests, NEW label \in Labels, NEW a \in Args,
           GoTo(r, label, a), LocalsOK(label, a), TablesKept
    PROVE  Shape'
<1>1. pc' \in [Requests -> Labels] /\ arg' \in [Requests -> Args]
  BY DEF GoTo, Shape, TypeOK
<1>2. ASSUME NEW q \in Requests PROVE LocalsOK(pc[q], arg[q])'
  <2>1. LocalsOK(pc'[q], arg'[q])
    BY GoToStep DEF Shape
  <2>2. QED BY <2>1 DEF LocalsOK, TablesKept, RowsStay
<1>3. TypeOK' /\ RowsOK'
  BY <1>1 DEF TypeOK, TablesOK, Rows, Leaderships, Requested, TablesKept
<1>4. QED BY <1>1, <1>2, <1>3 DEF Shape

LEMMA ReturnShape ==
    ASSUME Shape, NEW r \in Requests, Return(r), TablesKept
    PROVE  Shape'
  BY NoArgIsArg, MoveShape DEF Return

LEMMA SyncShape ==
    ASSUME Shape, NEW r \in Requests, NEW x \in Args, x.user \in Users, Sync(r, x), TablesKept
    PROVE  Shape'
<1> DEFINE a == [NoArg EXCEPT !.user = x.user, !.syncs = x.syncs]
<1>0. x.syncs \in {1, 2}
  BY DEF Args
<1>1. a \in Args
  BY <1>0, NoArgIsArg DEF Args
<1>2. "sync" \in Labels /\ LocalsOK("sync", a)
  BY <1>1 DEF Labels, LocalsOK, OfTrack, OfUser
<1>3. QED BY <1>1, <1>2, MoveShape DEF Sync

LEMMA ActivateShape ==
    ASSUME Shape, NEW r \in Requests, NEW x \in Args, x.user \in Users, x.track \in Tracks,
           Activate(r, x), TablesKept
    PROVE  Shape'
<1> DEFINE a == [NoArg EXCEPT !.track = x.track, !.user = x.user, !.primary = x.primary,
                              !.syncs = x.syncs]
           label == IF x.primary THEN "clear" ELSE "find"
<1>0. x.syncs \in {1, 2} /\ x.primary \in BOOLEAN
  BY DEF Args
<1>1. a \in Args
  BY <1>0, NoArgIsArg DEF Args
<1>2. label \in Labels /\ LocalsOK(label, a)
  BY <1>1 DEF Labels, LocalsOK, OfTrack, OfUser
<1>3. QED BY <1>1, <1>2, MoveShape DEF Activate

\* A call goes on with the locals it has.
LEMMA KeepGoing ==
    ASSUME Shape, NEW r \in Requests, pc[r] \in OfTrack, NEW label \in OfTrack \ {"scope", "decide"},
           GoTo(r, label, arg[r]), TablesKept
    PROVE  Shape'
<1>1. arg[r] \in Args /\ LocalsOK(label, arg[r]) /\ label \in Labels
  BY LocalsTyped DEF LocalsOK, OfTrack, OfUser
<1>2. QED BY <1>1, MoveShape

LEMMA KeptTables ==
    ASSUME Shape, UNCHANGED <<clinic, open, over>>, UNCHANGED rows
    PROVE  TablesKept
  BY ShapeSplit DEF TablesOK, RowsOK, rows, TablesKept, RowsStay

-----------------------------------------------------------------------------
(* Shape: the first step of a call *)

LEMMA MemberCallsShape ==
    ASSUME Shape, NEW r \in Requests, MemberCalls(r), UNCHANGED <<clinic, open, over>>
    PROVE  Shape'
<1> PICK u \in Users, t \in Tracks, p \in BOOLEAN : Apply(r, u, t, p)
  BY DEF MemberCalls
<1> DEFINE a == [NoArg EXCEPT !.user = u, !.track = t, !.primary = p]
<1>1. a \in Args /\ a.user = u /\ a.track = t
  BY NoArgIsArg DEF Args
<1>2. "applyTrack" \in Labels /\ LocalsOK("applyTrack", a)
  BY <1>1 DEF Labels, LocalsOK
<1>3. QED BY <1>1, <1>2, KeptTables, MoveShape DEF Apply

LEMMA ReviewArg ==
    ASSUME NEW actor \in Users \cup {Admin}, NEW app \in Applications,
           NEW d \in {"approved", "rejected"}, NEW f \in BOOLEAN, NEW t \in Tracks,
           NEW u \in Users, NEW p \in BOOLEAN
    PROVE  [NoArg EXCEPT !.actor = actor, !.app = app, !.decision = d, !.found = f,
                         !.track = t, !.user = u, !.primary = p] \in Args
  BY NoArgIsArg DEF Args

LEMMA ReviewCallsShape ==
    ASSUME Shape, NEW r \in Requests, ReviewCalls(r), UNCHANGED <<clinic, open, over>>
    PROVE  Shape'
<1> PICK actor \in Users \cup {Admin}, app \in Applications, d \in {"approved", "rejected"} :
        Review(r, actor, app, d)
  BY DEF ReviewCalls
<1> DEFINE row == application[app]
           a == [NoArg EXCEPT !.actor = actor, !.app = app, !.decision = d,
                              !.found = row.status = "submitted",
                              !.track = row.track, !.user = row.user, !.primary = row.primary]
<1>1. row.track \in Tracks /\ row.user \in Users /\ row.primary \in BOOLEAN
  BY ShapeSplit DEF Review, TablesOK, RowsOK, Requested
<1>2. a \in Args
  <2>1. (row.status = "submitted") \in BOOLEAN OBVIOUS
  <2>2. app \in Applications /\ actor \in Users \cup {Admin} /\ d \in {"approved", "rejected"}
    OBVIOUS
  <2>3. QED BY <1>1, <2>1, <2>2, ReviewArg, ZenonT(30)
<1>3. a.user = row.user /\ a.track = row.track
  <2>1. a.user = row.user BY NoArgIsArg, SMTT(60) DEF Args
  <2>2. a.track = row.track BY NoArgIsArg, SMTT(60) DEF Args
  <2>3. QED BY <2>1, <2>2
<1>4. "scope" \in Labels /\ LocalsOK("scope", a)
  BY <1>1, <1>3 DEF Labels, LocalsOK, OfTrack, OfUser, Review
<1>5. QED BY <1>2, <1>4, KeptTables, MoveShape DEF Review

LEMMA AdminCallsShape ==
    ASSUME Shape, NEW r \in Requests, AdminCalls(r), UNCHANGED <<clinic, open, over>>
    PROVE  Shape'
<1>1. ASSUME NEW t \in Tracks, NEW u \in Users, NEW p \in BOOLEAN, Assign(r, t, u, p)
      PROVE  Shape'
  <2> DEFINE a == [NoArg EXCEPT !.track = t, !.user = u, !.primary = p]
  <2>1. a \in Args /\ a.user = u /\ a.track = t
    BY NoArgIsArg DEF Args
  <2>2. QED BY <1>1, <2>1, KeptTables, ActivateShape DEF Assign
<1>2. ASSUME NEW t \in Tracks, NEW u \in Users, NEW role \in {"primary", "deputy"},
             Appoint(r, t, u, role)
      PROVE  Shape'
  <2> DEFINE a == [NoArg EXCEPT !.track = t, !.user = u, !.role = role, !.syncs = 2]
  <2>1. a \in Args /\ a.user = u /\ a.track = t
    BY NoArgIsArg DEF Args
  <2>2. "insertLeader" \in Labels /\ LocalsOK("insertLeader", a)
    BY <2>1 DEF Labels, LocalsOK
  <2>3. /\ assignment' \in [Assignments -> Leaderships]
        /\ \A l \in Assignments :
            /\ assignment[l] # NoAssignment => assignment'[l] # NoAssignment
            /\ assignment'[l] # NoAssignment =>
                  assignment'[l].track \in Tracks /\ assignment'[l].user \in Users
    <3>1. CASE UNCHANGED assignment
      BY <3>1, ShapeSplit DEF TablesOK, RowsOK
    <3>2. CASE assignment' = [l \in Assignments |->
                 IF l \in PrimaryLeaders(t)
                 THEN [assignment[l] EXCEPT !.status = "revoked"] ELSE assignment[l]]
      BY <3>2, ShapeSplit, NoneIsNothing
      DEF TablesOK, RowsOK, Leaderships, NoAssignment, PrimaryLeaders, ActiveAs
    <3>3. QED BY <1>2, <3>1, <3>2 DEF Appoint
  <2>4. TablesKept
    BY <1>2, <2>3, ShapeSplit DEF Appoint, TablesOK, RowsOK, TablesKept, RowsStay
  <2>5. QED BY <1>2, <2>1, <2>2, <2>4, MoveShape DEF Appoint
<1>3. ASSUME NEW l \in Assignments, Revoke(r, l)
      PROVE  Shape'
  <2> DEFINE u == assignment[l].user
             a == [NoArg EXCEPT !.assignment = l, !.user = u]
  <2>1. u \in Users
    BY <1>3, ShapeSplit DEF Revoke, TablesOK, RowsOK
  <2>2. a \in Args /\ a.user = u /\ a.assignment = l
    BY <2>1, NoArgIsArg DEF Args
  <2>3. "revokeLeader" \in Labels /\ LocalsOK("revokeLeader", a)
    BY <1>3, <2>1, <2>2 DEF Revoke, Labels, LocalsOK, OfTrack, OfUser
  <2>4. QED BY <1>3, <2>2, <2>3, KeptTables, MoveShape DEF Revoke
<1>4. QED BY <1>1, <1>2, <1>3 DEF AdminCalls

LEMMA LoseMembershipShape ==
    ASSUME Shape, NEW r \in Requests, NEW u \in Users, LoseMembership(r, u),
           UNCHANGED <<open, over>>
    PROVE  Shape'
<1> DEFINE a == [NoArg EXCEPT !.user = u]
<1>1. a \in Args /\ a.user = u
  BY NoArgIsArg DEF Args
<1>2. "suspendMembers" \in Labels /\ LocalsOK("suspendMembers", a)
  BY <1>1 DEF Labels, LocalsOK, OfTrack, OfUser
<1>3. TablesKept
  BY ShapeSplit DEF LoseMembership, TablesOK, RowsOK, rows, TablesKept, RowsStay
<1>4. QED BY <1>1, <1>2, <1>3, MoveShape DEF LoseMembership

-----------------------------------------------------------------------------
(* Shape: the further steps of a call *)

LEMMA ApplyShape ==
    ASSUME Shape, NEW r \in Requests, UNCHANGED <<clinic, open, over>>,
           \/ ApplyTrack(r) \/ ApplyMember(r) \/ ApplyPending(r)
           \/ \E a \in Applications : ApplyInsert(r, a)
    PROVE  Shape'
<1>1. CASE ApplyTrack(r)
  BY <1>1, KeptTables, KeepGoing, ReturnShape DEF ApplyTrack, Throw, OfTrack, OfUser, Labels
<1>2. CASE ApplyMember(r)
  BY <1>2, KeptTables, KeepGoing, ReturnShape DEF ApplyMember, Throw, OfTrack, OfUser, Labels
<1>3. CASE ApplyPending(r)
  BY <1>3, KeptTables, KeepGoing, ReturnShape DEF ApplyPending, Throw, OfTrack, OfUser, Labels
<1>4. ASSUME NEW a \in Applications, ApplyInsert(r, a)
      PROVE  Shape'
  <2> DEFINE row == [status |-> "submitted", track |-> arg[r].track, user |-> arg[r].user,
                     primary |-> arg[r].primary]
  <2>1. arg[r].track \in Tracks /\ arg[r].user \in Users
    BY <1>4, LocalsTyped DEF ApplyInsert, OfTrack, OfUser, Labels
  <2>2. arg[r].primary \in BOOLEAN
    BY LocalsTyped DEF Args
  <2>3. row \in Requested
    BY <2>1, <2>2 DEF Requested
  <2>4. TablesKept
    BY <1>4, <2>1, <2>3, ShapeSplit DEF ApplyInsert, TablesOK, RowsOK, TablesKept, RowsStay
  <2>5. QED BY <1>4, <2>4, ReturnShape DEF ApplyInsert
<1>5. QED BY <1>1, <1>2, <1>3, <1>4

LEMMA ReviewShape ==
    ASSUME Shape, NEW r \in Requests, UNCHANGED <<clinic, open, over>>,
           ReviewScope(r) \/ Decide(r) \/ ReviewClinic(r)
    PROVE  Shape'
<1>0. arg[r] \in Args
  BY LocalsTyped
<1>1. CASE ReviewScope(r)
  <2>1. CASE Return(r)
    BY <1>1, <2>1, KeptTables, ReturnShape DEF ReviewScope
  <2>2. CASE GoTo(r, "decide", arg[r])
    <3>1. LocalsOK("decide", arg[r]) /\ "decide" \in Labels
      BY <1>1, LocalsTyped DEF ReviewScope, LocalsOK, OfTrack, OfUser, Labels
    <3>2. QED BY <1>0, <1>1, <2>2, <3>1, KeptTables, MoveShape DEF ReviewScope
  <2>3. QED BY <1>1, <2>1, <2>2 DEF ReviewScope, Throw
<1>2. CASE Decide(r)
  <2> DEFINE app == arg[r].app
             to == arg[r].decision
  <2>1. app \in Applications /\ application[app].status # "none" /\ to \in {"approved", "rejected"}
    BY <1>2, LocalsTyped DEF Decide
  <2>2. application' = [application EXCEPT ![app].status = to]
    BY <1>2 DEF Decide
  <2>3. TablesKept
    <3>1. application' \in [Applications -> Requested]
      BY <2>1, <2>2, ShapeSplit DEF TablesOK, Requested
    <3>2. \A a \in Applications :
              /\ application'[a].track = application[a].track
              /\ application'[a].user = application[a].user
              /\ application'[a].status # "none" <=> application[a].status # "none"
      BY <2>1, <2>2, ShapeSplit DEF TablesOK, Requested
    <3>3. QED
      BY <1>2, <3>1, <3>2, ShapeSplit DEF Decide, TablesOK, RowsOK, TablesKept, RowsStay
  <2>4. CASE GoTo(r, "reviewClinic", arg[r])
    BY <1>2, <2>3, <2>4, KeepGoing DEF Decide, OfTrack, OfUser, Labels
  <2>5. CASE Return(r)
    BY <2>3, <2>5, ReturnShape
  <2>6. QED BY <1>2, <2>4, <2>5 DEF Decide
<1>3. CASE ReviewClinic(r)
  <2>1. arg[r].track \in Tracks /\ arg[r].user \in Users
    BY <1>3, LocalsTyped DEF ReviewClinic, OfTrack, OfUser, Labels
  <2>2. QED
    BY <1>0, <1>3, <2>1, KeptTables, ActivateShape, ReturnShape DEF ReviewClinic, Throw
<1>4. QED BY <1>1, <1>2, <1>3

LEMMA SetFound ==
    ASSUME NEW x \in Args, NEW f \in BOOLEAN
    PROVE  /\ [x EXCEPT !.found = f] \in Args
           /\ [x EXCEPT !.found = f].track = x.track
           /\ [x EXCEPT !.found = f].user = x.user
  BY DEF Args

LEMMA SetPrimary ==
    ASSUME NEW x \in Args, NEW p \in BOOLEAN
    PROVE  /\ [x EXCEPT !.primary = p] \in Args
           /\ [x EXCEPT !.primary = p].track = x.track
           /\ [x EXCEPT !.primary = p].user = x.user
  BY DEF Args

LEMMA ActivationShape ==
    ASSUME Shape, NEW r \in Requests, UNCHANGED <<clinic, open, over>>,
           Clear(r) \/ Find(r) \/ Put(r)
    PROVE  Shape'
<1>0. arg[r] \in Args
  BY LocalsTyped
<1>1. CASE Clear(r)
  <2>1. TablesKept
    BY <1>1, ShapeSplit DEF Clear, TablesOK, RowsOK, TablesKept, RowsStay
  <2>2. QED BY <1>1, <2>1, KeepGoing DEF Clear, OfTrack, OfUser, Labels
<1>2. CASE Find(r)
  <2> DEFINE f == member[<<arg[r].track, arg[r].user>>] # "none"
             a == [arg[r] EXCEPT !.found = f]
  <2>1. arg[r].track \in Tracks /\ arg[r].user \in Users
    BY <1>2, LocalsTyped DEF Find, OfTrack, OfUser, Labels
  <2>2. f \in BOOLEAN
    OBVIOUS
  <2>3. a \in Args /\ a.track = arg[r].track /\ a.user = arg[r].user
    BY <1>0, <2>2, SetFound
  <2>4. LocalsOK("put", a) /\ "put" \in Labels
    BY <2>1, <2>3 DEF LocalsOK, OfTrack, OfUser, Labels
  <2>5. QED BY <1>2, <2>3, <2>4, KeptTables, MoveShape DEF Find
<1>3. CASE Put(r)
  <2> DEFINE row == <<arg[r].track, arg[r].user>>
  <2>1. arg[r].user \in Users /\ row \in Rows
    BY <1>3, LocalsTyped DEF Put, OfTrack, OfUser, Labels, Rows
  <2>2. CASE Return(r) /\ UNCHANGED <<member, primary>>
    <3>1. TablesKept
      BY <1>3, <2>2, ShapeSplit DEF Put, TablesOK, RowsOK, TablesKept, RowsStay
    <3>2. QED BY <2>2, <3>1, ReturnShape
  <2>3. CASE /\ member'  = [member EXCEPT ![row] = "active"]
             /\ primary' = IF arg[r].primary THEN primary \cup {row} ELSE primary \ {row}
             /\ Sync(r, arg[r])
    <3>1. member' \in [Rows -> {"none", "active", "suspended"}]
      BY <2>1, <2>3, ShapeSplit DEF TablesOK
    <3>2. \A x \in Rows : member'[x] # "none" <=> member[x] # "none" \/ x = row
      BY <2>1, <2>3, ShapeSplit DEF TablesOK
    <3>3. primary' \subseteq {x \in Rows : member'[x] # "none"}
      BY <2>1, <2>3, <3>2, ShapeSplit DEF TablesOK
    <3>4. TablesKept
      BY <1>3, <3>1, <3>3, ShapeSplit DEF Put, TablesOK, RowsOK, TablesKept, RowsStay
    <3>5. QED BY <1>0, <2>1, <2>3, <3>4, SyncShape
  <2>4. QED BY <1>3, <2>2, <2>3 DEF Put, Throw
<1>4. QED BY <1>1, <1>2, <1>3

LEMMA LeaderShape ==
    ASSUME Shape, NEW r \in Requests, UNCHANGED <<clinic, open, over>>,
           (\E l \in Assignments : InsertLeader(r, l)) \/ ReadMember(r) \/ RevokeLeader(r)
    PROVE  Shape'
<1>0. arg[r] \in Args
  BY LocalsTyped
<1>1. ASSUME NEW l \in Assignments, InsertLeader(r, l)
      PROVE  Shape'
  <2>1. arg[r].track \in Tracks /\ arg[r].user \in Users
    BY <1>1, LocalsTyped DEF InsertLeader, OfTrack, OfUser, Labels
  <2>2. CASE Return(r) /\ UNCHANGED assignment
    <3>1. TablesKept
      BY <1>1, <2>2, ShapeSplit DEF InsertLeader, TablesOK, RowsOK, TablesKept, RowsStay
    <3>2. QED BY <2>2, <3>1, ReturnShape
  <2>3. CASE /\ assignment' = [assignment EXCEPT ![l] =
                    [status |-> "active", track |-> arg[r].track, user |-> arg[r].user,
                     role |-> arg[r].role]]
             /\ GoTo(r, "readMember", arg[r])
    <3> DEFINE row == [status |-> "active", track |-> arg[r].track, user |-> arg[r].user,
                       role |-> arg[r].role]
    <3>1. arg[r].role \in {"primary", "deputy", None}
      BY <1>0 DEF Args
    <3>2. row \in Leaderships /\ row # NoAssignment
      BY <2>1, <3>1 DEF Leaderships, NoAssignment
    <3>3. row.track \in Tracks /\ row.user \in Users
      BY <2>1
    <3>4. assignment' = [assignment EXCEPT ![l] = row]
      BY <2>3
    <3>5. TablesKept
      BY <1>1, <3>2, <3>3, <3>4, ShapeSplit
      DEF InsertLeader, TablesOK, RowsOK, TablesKept, RowsStay
    <3>6. QED BY <1>1, <2>3, <3>5, KeepGoing DEF InsertLeader, OfTrack, OfUser, Labels
  <2>4. QED BY <1>1, <2>2, <2>3 DEF InsertLeader, Throw
<1>2. CASE ReadMember(r)
  <2> DEFINE row == <<arg[r].track, arg[r].user>>
             p == member[row] = "active" /\ row \in primary
             a == [arg[r] EXCEPT !.primary = p]
  <2>1. arg[r].track \in Tracks /\ arg[r].user \in Users
    BY <1>2, LocalsTyped DEF ReadMember, OfTrack, OfUser, Labels
  <2>2. p \in BOOLEAN
    OBVIOUS
  <2>3. a \in Args /\ a.track = arg[r].track /\ a.user = arg[r].user
    BY <1>0, <2>2, SetPrimary
  <2>4. QED BY <1>2, <2>1, <2>3, KeptTables, ActivateShape DEF ReadMember
<1>3. CASE RevokeLeader(r)
  <2> DEFINE l == arg[r].assignment
  <2>1. l \in Assignments /\ assignment[l] # NoAssignment /\ arg[r].user \in Users
    BY <1>3, LocalsTyped DEF RevokeLeader, OfUser
  <2>2. assignment' = [assignment EXCEPT ![l].status = "revoked"]
    BY <1>3 DEF RevokeLeader
  <2>3. TablesKept
    <3>1. assignment' \in [Assignments -> Leaderships]
      BY <2>1, <2>2, ShapeSplit DEF TablesOK, Leaderships
    <3>2. \A k \in Assignments :
              /\ assignment[k] # NoAssignment => assignment'[k] # NoAssignment
              /\ assignment'[k] # NoAssignment =>
                    assignment'[k].track \in Tracks /\ assignment'[k].user \in Users
      BY <2>1, <2>2, ShapeSplit, NoneIsNothing DEF TablesOK, RowsOK, Leaderships, NoAssignment
    <3>3. QED
      BY <1>3, <3>1, <3>2, ShapeSplit DEF RevokeLeader, TablesOK, RowsOK, TablesKept, RowsStay
  <2>4. QED BY <1>0, <1>3, <2>1, <2>3, SyncShape DEF RevokeLeader
<1>4. QED BY <1>1, <1>2, <1>3

\* A call goes on with the badges of the user it has.
LEMMA KeepSyncing ==
    ASSUME Shape, NEW r \in Requests, NEW a \in Args, a.user \in Users,
           NEW label \in {"suspendLeaders", "sync", "award", "writeBadge"},
           GoTo(r, label, a), TablesKept
    PROVE  Shape'
<1>1. label \in Labels /\ LocalsOK(label, a)
  BY DEF Labels, LocalsOK, OfTrack, OfUser
<1>2. QED BY <1>1, MoveShape

LEMMA SuspendShape ==
    ASSUME Shape, NEW r \in Requests, UNCHANGED <<clinic, open, over>>,
           SuspendMembers(r) \/ SuspendLeaders(r)
    PROVE  Shape'
<1>0. arg[r] \in Args
  BY LocalsTyped
<1>1. CASE SuspendMembers(r)
  <2>1. arg[r].user \in Users
    BY <1>1, LocalsTyped DEF SuspendMembers, OfUser
  <2>2. /\ member' \in [Rows -> {"none", "active", "suspended"}]
        /\ \A x \in Rows : member'[x] # "none" <=> member[x] # "none"
    BY <1>1, ShapeSplit DEF SuspendMembers, TablesOK, Rows
  <2>3. TablesKept
    BY <1>1, <2>2, ShapeSplit DEF SuspendMembers, TablesOK, RowsOK, TablesKept, RowsStay
  <2>4. QED BY <1>0, <1>1, <2>1, <2>3, KeepSyncing DEF SuspendMembers
<1>2. CASE SuspendLeaders(r)
  <2>1. arg[r].user \in Users
    BY <1>2, LocalsTyped DEF SuspendLeaders, OfUser
  <2>2. assignment' = [l \in Assignments |->
           IF assignment[l].status = "active" /\ assignment[l].user = arg[r].user
           THEN [assignment[l] EXCEPT !.status = "suspended"] ELSE assignment[l]]
    BY <1>2 DEF SuspendLeaders
  <2>3. /\ assignment' \in [Assignments -> Leaderships]
        /\ \A l \in Assignments :
            /\ assignment[l] # NoAssignment => assignment'[l] # NoAssignment
            /\ assignment'[l] # NoAssignment =>
                  assignment'[l].track \in Tracks /\ assignment'[l].user \in Users
    <3>1. ASSUME NEW l \in Assignments
          PROVE  \/ assignment'[l] = assignment[l]
                 \/ /\ assignment[l].status = "active"
                    /\ assignment'[l] = [assignment[l] EXCEPT !.status = "suspended"]
      BY <2>2
    <3>2. ASSUME NEW l \in Assignments, assignment[l].status = "active"
          PROVE  LET row == [assignment[l] EXCEPT !.status = "suspended"] IN
                 /\ row \in Leaderships /\ row # NoAssignment
                 /\ row.track \in Tracks /\ row.user \in Users
      BY <3>2, ShapeSplit DEF TablesOK, RowsOK, Leaderships, NoAssignment
    <3>3. QED BY <2>2, <3>1, <3>2, ShapeSplit DEF TablesOK, RowsOK
  <2>4. TablesKept
    BY <1>2, <2>3, ShapeSplit DEF SuspendLeaders, TablesOK, RowsOK, TablesKept, RowsStay
  <2>5. QED BY <1>0, <1>2, <2>1, <2>4, SyncShape DEF SuspendLeaders
<1>3. QED BY <1>1, <1>2

LEMMA HeldIsSource ==
    ASSUME NEW kind, NEW u PROVE Holdings(kind, u) \subseteq Source
  BY DEF Holdings, PrimaryTracks, LedBy, ActiveAs, Source

\* Where a sync goes after one badge, and with what.
LEMMA SyncedTyped ==
    ASSUME Shape, NEW r \in Requests, pc[r] = "writeBadge"
    PROVE  /\ Synced(r).arg \in Args
           /\ Synced(r).arg.user = arg[r].user
           /\ Synced(r).label \in {"sync", "done"}
           /\ Synced(r).label = "sync" /\ Synced(r).arg.kind = "leader" => arg[r].kind = "primary"
           /\ Synced(r).label = "done" => Synced(r).arg.kind = "leader" /\ arg[r].kind = "leader"
           /\ LocalsOK(Synced(r).label, Synced(r).arg)
<1> DEFINE a == [arg[r] EXCEPT !.wanted = None, !.seen = None, !.ref = "none"]
<1>1. arg[r] \in Args /\ arg[r].user \in Users
  BY LocalsTyped DEF OfUser
<1>2. a \in Args /\ a.user = arg[r].user /\ a.kind = arg[r].kind
  BY <1>1 DEF Args
<1>3. arg[r].kind \in {"primary", "leader"}
  BY <1>1 DEF Args, Kinds
<1>4. CASE arg[r].kind = "primary"
  <2>1. Synced(r).label = "sync" /\ Synced(r).arg = [a EXCEPT !.kind = "leader"]
    BY <1>4 DEF Synced
  <2>2. [a EXCEPT !.kind = "leader"] \in Args /\ [a EXCEPT !.kind = "leader"].user = a.user
    BY <1>2 DEF Args, Kinds
  <2> HIDE DEF a
  <2>3. QED BY <1>1, <1>2, <1>4, <2>1, <2>2 DEF LocalsOK, OfUser, OfTrack, Labels
<1>5. CASE arg[r].kind = "leader" /\ arg[r].syncs = 2
  <2> DEFINE b == [a EXCEPT !.kind = "primary", !.syncs = 1]
  <2>1. Synced(r).label = "sync" /\ Synced(r).arg = b
    BY <1>5 DEF Synced
  <2>2. b \in Args /\ b.user = a.user /\ b.kind = "primary"
    BY <1>2 DEF Args, Kinds
  <2> HIDE DEF a, b
  <2>3. QED BY <1>1, <1>2, <1>5, <2>1, <2>2 DEF LocalsOK, OfUser, OfTrack, Labels
<1>6. CASE arg[r].kind = "leader" /\ arg[r].syncs # 2
  <2>1. Synced(r).label = "done" /\ Synced(r).arg = a
    BY <1>6 DEF Synced
  <2> HIDE DEF a
  <2>2. QED BY <1>1, <1>2, <1>6, <2>1 DEF LocalsOK, OfUser, OfTrack, Labels
<1>7. QED BY <1>3, <1>4, <1>5, <1>6

LEMMA SetAward ==
    ASSUME NEW x \in Args, NEW s \in Source \cup {None}, NEW ref \in {"none", "live", "gone"}
    PROVE  /\ [x EXCEPT !.seen = s, !.ref = ref] \in Args
           /\ [x EXCEPT !.seen = s, !.ref = ref].user = x.user
<1>1. [x EXCEPT !.seen = s, !.ref = ref] \in Args
  BY DEF Args
<1>2. [x EXCEPT !.seen = s, !.ref = ref].user = x.user
  BY DEF Args
<1>3. QED BY <1>1, <1>2

LEMMA SyncStepsShape ==
    ASSUME Shape, NEW r \in Requests, UNCHANGED <<clinic, open, over>>,
           SyncRead(r) \/ SyncAward(r) \/ Finish(r)
    PROVE  Shape'
<1>0. arg[r] \in Args
  BY LocalsTyped
<1>1. CASE SyncRead(r)
  <2>1. arg[r].user \in Users
    BY <1>1, LocalsTyped DEF SyncRead, OfUser
  <2>2. PICK s \in Source \cup {None} : GoTo(r, "award", [arg[r] EXCEPT !.wanted = s])
    <3>1. PICK s \in Holdings(arg[r].kind, arg[r].user) \cup {None} :
              GoTo(r, "award", [arg[r] EXCEPT !.wanted = s])
      BY <1>1 DEF SyncRead
    <3>2. QED BY <3>1, HeldIsSource
  <2>3. [arg[r] EXCEPT !.wanted = s] \in Args /\ [arg[r] EXCEPT !.wanted = s].user = arg[r].user
    BY <1>0 DEF Args
  <2>4. QED BY <1>1, <2>1, <2>2, <2>3, KeptTables, KeepSyncing DEF SyncRead
<1>2. CASE SyncAward(r)
  <2> DEFINE source == badge[arg[r].kind][arg[r].user]
             ref == IF source = None THEN "none" ELSE "live"
             a == [arg[r] EXCEPT !.seen = source, !.ref = ref]
  <2>1. arg[r].user \in Users
    BY <1>2, LocalsTyped DEF SyncAward, OfUser
  <2>2. source \in Source \cup {None}
    BY <1>0, <2>1, ShapeSplit DEF TablesOK, Args
  <2>3. ref \in {"none", "live", "gone"}
    OBVIOUS
  <2>4. a \in Args /\ a.user = arg[r].user
    BY <1>0, <2>2, <2>3, SetAward
  <2>5. QED BY <1>2, <2>1, <2>4, KeptTables, KeepSyncing DEF SyncAward
<1>3. CASE Finish(r)
  BY <1>3, KeptTables, ReturnShape DEF Finish
<1>4. QED BY <1>1, <1>2, <1>3

\* What SyncWrite does: it throws, goes on, or also makes others forget.
LEMMA SyncWriteCases ==
    ASSUME NEW r \in Requests, SyncWrite(r)
    PROVE  \/ Throw(r) /\ UNCHANGED badge
           \/ /\ GoTo(r, Synced(r).label, Synced(r).arg)
              /\ \/ UNCHANGED badge
                 \/ /\ arg[r].wanted # None
                    /\ badge' = [badge EXCEPT ![arg[r].kind][arg[r].user] = arg[r].wanted]
           \/ /\ badge' = [badge EXCEPT ![arg[r].kind][arg[r].user] = None]
              /\ pc' = [pc EXCEPT ![r] = Synced(r).label]
              /\ arg' = Forget(r)
  BY DEF SyncWrite

LEMMA SyncWriteShape ==
    ASSUME Shape, NEW r \in Requests, UNCHANGED <<clinic, open, over>>, SyncWrite(r)
    PROVE  Shape'
<1> DEFINE next == Synced(r)
<1>0. arg[r] \in Args /\ arg[r].user \in Users /\ arg[r].kind \in Kinds
      /\ arg[r].wanted \in Source \cup {None}
  BY LocalsTyped DEF SyncWrite, OfUser, Args
<1>1. next.arg \in Args /\ next.label \in Labels /\ LocalsOK(next.label, next.arg)
  BY SyncedTyped DEF SyncWrite, Labels
<1>2. badge' \in [Kinds -> [Users -> Source \cup {None}]]
  <2>1. badge \in [Kinds -> [Users -> Source \cup {None}]]
    BY ShapeSplit DEF TablesOK
  <2>2. CASE UNCHANGED badge
    BY <2>1, <2>2
  <2>3. ASSUME NEW s \in Source \cup {None},
               badge' = [badge EXCEPT ![arg[r].kind][arg[r].user] = s]
        PROVE  badge' \in [Kinds -> [Users -> Source \cup {None}]]
    BY <1>0, <2>1, <2>3
  <2>4. QED BY <1>0, <2>2, <2>3, SyncWriteCases
<1>3. TablesKept
  BY <1>2, ShapeSplit DEF SyncWrite, TablesOK, RowsOK, TablesKept, RowsStay
<1>4. CASE Return(r)
  BY <1>3, <1>4, ReturnShape
<1>5. CASE GoTo(r, next.label, next.arg)
  BY <1>1, <1>3, <1>5, MoveShape
<1>6. CASE pc' = [pc EXCEPT ![r] = next.label] /\ arg' = Forget(r)
  <2>1. ASSUME NEW q \in Requests, q # r
        PROVE  /\ arg'[q] \in Args
               /\ LocalsOK(pc[q], arg[q]) => LocalsOK(pc'[q], arg'[q])
    <3>1. arg[q] \in Args /\ pc'[q] = pc[q]
      BY <1>6, <2>1, LocalsTyped DEF Shape, TypeOK
    <3>2. arg'[q] \in {arg[q], [arg[q] EXCEPT !.ref = "gone"]}
      BY <1>6, <2>1 DEF Forget
    <3>3. /\ arg'[q] \in Args
          /\ arg'[q].user = arg[q].user /\ arg'[q].track = arg[q].track
          /\ arg'[q].decision = arg[q].decision /\ arg'[q].app = arg[q].app
          /\ arg'[q].assignment = arg[q].assignment /\ arg'[q].kind = arg[q].kind
      BY <3>1, <3>2 DEF Args
    <3>4. QED BY <3>1, <3>3 DEF LocalsOK
  <2>2. arg'[r] = next.arg /\ pc'[r] = next.label
    BY <1>6 DEF Forget, Shape, TypeOK
  <2>3. pc' \in [Requests -> Labels] /\ arg' \in [Requests -> Args]
    <3>1. DOMAIN arg' = Requests /\ arg' = [q \in Requests |-> arg'[q]]
      BY <1>6 DEF Forget
    <3>2. \A q \in Requests : arg'[q] \in Args
      BY <1>1, <2>1, <2>2
    <3>3. pc' \in [Requests -> Labels]
      BY <1>1, <1>6, ShapeSplit
    <3>4. QED BY <3>1, <3>2, <3>3
  <2>4. ASSUME NEW q \in Requests PROVE LocalsOK(pc[q], arg[q])'
    <3>1. LocalsOK(pc'[q], arg'[q])
      BY <1>1, <2>1, <2>2 DEF Shape
    <3>2. QED BY <1>3, <3>1 DEF LocalsOK, TablesKept, RowsStay
  <2>5. TypeOK' /\ RowsOK'
    BY <1>3, <2>3 DEF TypeOK, TablesOK, Rows, Leaderships, Requested, TablesKept
  <2>6. QED BY <2>3, <2>4, <2>5 DEF Shape
<1>7. QED BY <1>4, <1>5, <1>6, SyncWriteCases DEF Throw

-----------------------------------------------------------------------------
(* Shape: every step *)

LEMMA BeginShape ==
    ASSUME Shape, NEW r \in Requests, Begin(r), UNCHANGED <<clinic, open, over>>
    PROVE  Shape'
  BY MemberCallsShape, ReviewCallsShape, AdminCallsShape DEF Begin

LEMMA ContinueShape ==
    ASSUME Shape, NEW r \in Requests, Continue(r), UNCHANGED <<clinic, open, over>>
    PROVE  Shape'
  BY ApplyShape, ReviewShape, ActivationShape, LeaderShape, SuspendShape, SyncStepsShape,
     SyncWriteShape DEF Continue

LEMMA CrashShape ==
    ASSUME Shape, NEW r \in Requests, Crash(r), UNCHANGED <<clinic, open, over>>
    PROVE  Shape'
  BY KeptTables, ReturnShape DEF Crash

\* What changes around the calls.
LEMMA AroundShape ==
    ASSUME Shape, UNCHANGED <<rows, callVars>>,
           clinic' \subseteq Users, open' \subseteq Tracks, over' \subseteq Assignments
    PROVE  Shape'
<1>1. UNCHANGED <<application, member, primary, assignment, badge, pc, arg>>
  BY DEF rows, callVars
<1>2. QED BY <1>1 DEF Shape, TypeOK, RowsOK, LocalsOK

LEMMA NextShape == Shape /\ [Next]_vars => Shape'
<1> SUFFICES ASSUME Shape, [Next]_vars PROVE Shape'
  OBVIOUS
<1>1. ASSUME NEW u \in Users, GainMembership(u) PROVE Shape'
  BY <1>1, AroundShape, ShapeSplit DEF GainMembership, TablesOK
<1>2. ASSUME NEW t \in Tracks, ConfigureTrack(t) PROVE Shape'
  BY <1>2, AroundShape, ShapeSplit DEF ConfigureTrack, TablesOK
<1>3. ASSUME NEW l \in Assignments, EndTerm(l) PROVE Shape'
  BY <1>3, AroundShape, ShapeSplit DEF EndTerm, TablesOK
<1>4. CASE UNCHANGED vars
  BY <1>4, AroundShape, ShapeSplit DEF vars, TablesOK
<1>5. QED
  BY <1>1, <1>2, <1>3, <1>4, BeginShape, LoseMembershipShape, ContinueShape, CrashShape
  DEF Next, Call

LEMMA ShapeInvariant == Spec => []Shape
  BY InitShape, NextShape, PTL DEF Spec

\* Every variable keeps its type.
THEOREM TypeCorrect == Spec => []TypeOK
<1>1. Shape => TypeOK
  BY DEF Shape
<1>2. QED BY <1>1, ShapeInvariant, PTL

-----------------------------------------------------------------------------
(* Seats: what a step may do to the primary leaders and to the primary tracks *)

LeadersMove ==
    \/ \A t \in Tracks : PrimaryLeaders(t)' \in {{}, PrimaryLeaders(t)}
    \/ \E t \in Tracks, l \in Assignments :
        /\ PrimaryLeaders(t) = {}
        /\ \A s \in Tracks : PrimaryLeaders(s)' = IF s = t THEN {l} ELSE PrimaryLeaders(s)

TracksMove ==
    \/ \A u \in Users : PrimaryTracks(u)' \in {{}, PrimaryTracks(u)}
    \/ \E u \in Users, t \in Tracks :
        /\ PrimaryTracks(u) = {}
        /\ \A v \in Users : PrimaryTracks(v)' = IF v = u THEN {t} ELSE PrimaryTracks(v)

\* Of one holder, a statement that only takes away leaves one or none.
LEMMA FewerLeaders ==
    ASSUME OneHolder,
           \A l \in Assignments :
               assignment'[l] = assignment[l] \/ assignment'[l].status # "active"
    PROVE  LeadersMove
<1> SUFFICES ASSUME NEW t \in Tracks
             PROVE  PrimaryLeaders(t)' \in {{}, PrimaryLeaders(t)}
  BY DEF LeadersMove
<1>1. PrimaryLeaders(t)' \subseteq PrimaryLeaders(t)
  BY DEF PrimaryLeaders, ActiveAs
<1>2. \A k, l \in PrimaryLeaders(t) : k = l
  BY DEF OneHolder
<1>3. QED BY <1>1, <1>2

LEMMA FewerTracks ==
    ASSUME OneHolder, \A u \in Users : PrimaryTracks(u)' \subseteq PrimaryTracks(u)
    PROVE  TracksMove
<1> SUFFICES ASSUME NEW u \in Users
             PROVE  PrimaryTracks(u)' \in {{}, PrimaryTracks(u)}
  BY DEF TracksMove
<1>1. \A s, t \in PrimaryTracks(u) : s = t
  BY DEF OneHolder
<1>2. QED BY <1>1

LEMMA InsertLeaderMoves ==
    ASSUME Shape, OneHolder, NEW r \in Requests, NEW l \in Assignments, InsertLeader(r, l)
    PROVE  LeadersMove
<1> DEFINE t == arg[r].track
           row == [status |-> "active", track |-> t, user |-> arg[r].user, role |-> arg[r].role]
<1>1. CASE UNCHANGED assignment
  BY <1>1, FewerLeaders
<1>2. CASE /\ arg[r].role = "primary" => PrimaryLeaders(t) = {}
           /\ assignment[l] = NoAssignment
           /\ assignment' = [assignment EXCEPT ![l] = row]
  <2>1. t \in Tracks
    BY LocalsTyped DEF InsertLeader, OfTrack, OfUser, Labels
  <2>2. \A k \in Assignments : assignment'[k] = IF k = l THEN row ELSE assignment[k]
    BY <1>2, ShapeSplit DEF TablesOK
  <2>3. assignment[l].status # "active"
    BY <1>2 DEF NoAssignment
  <2>4. CASE arg[r].role = "primary"
    <3>1. \A s \in Tracks : PrimaryLeaders(s)' = IF s = t THEN {l} ELSE PrimaryLeaders(s)
      BY <1>2, <2>2, <2>3, <2>4 DEF PrimaryLeaders, ActiveAs
    <3>2. QED BY <1>2, <2>1, <2>4, <3>1 DEF LeadersMove
  <2>5. CASE arg[r].role # "primary"
    <3>1. \A s \in Tracks : PrimaryLeaders(s)' = PrimaryLeaders(s)
      BY <2>2, <2>3, <2>5 DEF PrimaryLeaders, ActiveAs
    <3>2. QED BY <3>1 DEF LeadersMove
  <2>6. QED BY <2>4, <2>5
<1>3. QED BY <1>1, <1>2 DEF InsertLeader

LEMMA PutMoves ==
    ASSUME Shape, OneHolder, NEW r \in Requests, Put(r)
    PROVE  TracksMove
<1> DEFINE t == arg[r].track
           u == arg[r].user
           row == <<t, u>>
<1>1. t \in Tracks /\ u \in Users /\ row \in Rows
  BY LocalsTyped DEF Put, OfTrack, OfUser, Labels, Rows
<1>2. CASE UNCHANGED <<member, primary>>
  BY <1>2, FewerTracks DEF PrimaryTracks
<1>3. CASE /\ ~PutRefused(r)
           /\ member'  = [member EXCEPT ![row] = "active"]
           /\ primary' = IF arg[r].primary THEN primary \cup {row} ELSE primary \ {row}
  <2>1. \A x \in Rows : member'[x] = IF x = row THEN "active" ELSE member[x]
    BY <1>3, ShapeSplit DEF TablesOK
  <2>2. \A v \in Users, s \in Tracks :
            s \in PrimaryTracks(v)' <=>
                IF <<s, v>> = row THEN arg[r].primary ELSE s \in PrimaryTracks(v)
    BY <1>1, <1>3, <2>1 DEF PrimaryTracks, Rows
  <2>3. CASE ~arg[r].primary
    <3>1. \A v \in Users : PrimaryTracks(v)' \subseteq PrimaryTracks(v)
      BY <2>2, <2>3 DEF PrimaryTracks
    <3>2. QED BY <3>1, FewerTracks
  <2>4. CASE arg[r].primary
    <3>1. PrimaryTracks(u) \ {t} = {}
      BY <1>3, <2>4 DEF PutRefused
    <3>2. \A v \in Users : PrimaryTracks(v)' = IF v = u THEN {t} ELSE PrimaryTracks(v)
      <4>1. \A v \in Users, s \in Tracks :
                s \in PrimaryTracks(v)' <=> IF v = u THEN s = t ELSE s \in PrimaryTracks(v)
        BY <1>1, <2>2, <2>4, <3>1
      <4>2. \A v \in Users : PrimaryTracks(v) \subseteq Tracks /\ PrimaryTracks(v)' \subseteq Tracks
        BY DEF PrimaryTracks
      <4>3. QED BY <1>1, <4>1, <4>2
    <3>3. CASE PrimaryTracks(u) = {}
      BY <1>1, <3>2, <3>3 DEF TracksMove
    <3>4. CASE PrimaryTracks(u) = {t}
      BY <3>2, <3>4 DEF TracksMove
    <3>5. QED BY <3>1, <3>3, <3>4
  <2>5. QED BY <2>3, <2>4
<1>4. QED BY <1>2, <1>3 DEF Put

LEMMA NextLeaders ==
    ASSUME Shape, OneHolder, [Next]_vars
    PROVE  LeadersMove
<1>1. ASSUME NEW r \in Requests, NEW t \in Tracks, NEW u \in Users,
             NEW role \in {"primary", "deputy"}, Appoint(r, t, u, role)
      PROVE  LeadersMove
  <2>1. ASSUME NEW l \in Assignments
        PROVE  assignment'[l] = assignment[l] \/ assignment'[l].status # "active"
    <3>1. [assignment[l] EXCEPT !.status = "revoked"].status # "active"
      BY ShapeSplit DEF TablesOK, Leaderships
    <3>2. QED BY <1>1, <3>1 DEF Appoint
  <2>2. QED BY <2>1, FewerLeaders
<1>2. ASSUME NEW r \in Requests, RevokeLeader(r) PROVE LeadersMove
  <2>1. assignment' = [assignment EXCEPT ![arg[r].assignment].status = "revoked"]
    BY <1>2 DEF RevokeLeader
  <2>2. QED BY <2>1, FewerLeaders, ShapeSplit DEF TablesOK, Leaderships
<1>3. ASSUME NEW r \in Requests, SuspendLeaders(r) PROVE LeadersMove
  <2>1. ASSUME NEW l \in Assignments
        PROVE  assignment'[l] = assignment[l] \/ assignment'[l].status # "active"
    <3>1. [assignment[l] EXCEPT !.status = "suspended"].status # "active"
      BY ShapeSplit DEF TablesOK, Leaderships
    <3>2. QED BY <1>3, <3>1 DEF SuspendLeaders
  <2>2. QED BY <2>1, FewerLeaders
<1>4. CASE UNCHANGED assignment
  BY <1>4, FewerLeaders
<1>5. QED
  <2>1. CASE UNCHANGED vars
    BY <1>4, <2>1 DEF vars, rows
  <2>2. CASE Next
    BY <1>1, <1>2, <1>3, <1>4, <2>2, InsertLeaderMoves
    DEF Next, Call, Begin, MemberCalls, ReviewCalls, AdminCalls, Continue, Crash, rows,
        Apply, Review, Assign, Revoke, LoseMembership, GainMembership, ConfigureTrack, EndTerm,
        ApplyTrack, ApplyMember, ApplyPending, ApplyInsert, ReviewScope, Decide, ReviewClinic,
        Clear, Find, Put, ReadMember, SuspendMembers, SyncRead, SyncAward, SyncWrite, Finish
  <2>3. QED BY <2>1, <2>2

LEMMA NextTracks ==
    ASSUME Shape, OneHolder, [Next]_vars
    PROVE  TracksMove
<1>1. ASSUME NEW r \in Requests, Clear(r) PROVE TracksMove
  <2>1. primary' \subseteq primary /\ member' = member
    BY <1>1 DEF Clear
  <2>2. QED BY <2>1, FewerTracks DEF PrimaryTracks
<1>2. ASSUME NEW r \in Requests, SuspendMembers(r) PROVE TracksMove
  <2>1. primary' = primary /\ \A x \in Rows : member'[x] = "active" => member[x] = "active"
    BY <1>2 DEF SuspendMembers, Rows
  <2>2. QED BY <2>1, FewerTracks DEF PrimaryTracks, Rows
<1>3. CASE UNCHANGED <<member, primary>>
  BY <1>3, FewerTracks DEF PrimaryTracks
<1>4. QED
  <2>1. CASE UNCHANGED vars
    BY <1>3, <2>1 DEF vars, rows
  <2>2. CASE Next
    <3>1. CASE Call
      BY <1>3, <3>1
      DEF Call, Begin, MemberCalls, ReviewCalls, AdminCalls, rows, Apply, Review, Assign,
          Appoint, Revoke, LoseMembership, GainMembership, ConfigureTrack, EndTerm
    <3>2. ASSUME NEW r \in Requests, Continue(r) PROVE TracksMove
      BY <1>1, <1>2, <1>3, <3>2, PutMoves
      DEF Continue, rows, ApplyTrack, ApplyMember, ApplyPending, ApplyInsert, ReviewScope,
          Decide, ReviewClinic, Find, InsertLeader, ReadMember, RevokeLeader, SuspendLeaders,
          SyncRead, SyncAward, SyncWrite, Finish
    <3>3. ASSUME NEW r \in Requests, Crash(r) PROVE TracksMove
      BY <1>3, <3>3 DEF Crash, rows
    <3>4. QED BY <2>2, <3>1, <3>2, <3>3 DEF Next
  <2>3. QED BY <2>1, <2>2

LEMMA InitOneHolder == Init => OneHolder
  BY DEF Init, OneHolder, PrimaryLeaders, ActiveAs, PrimaryTracks, NoAssignment

LEMMA NextOneHolder == Shape /\ OneHolder /\ [Next]_vars => OneHolder'
<1> SUFFICES ASSUME Shape, OneHolder, [Next]_vars PROVE OneHolder'
  OBVIOUS
<1>1. \A t \in Tracks : \A k, l \in PrimaryLeaders(t)' : k = l
  <2>1. \A t \in Tracks : \A k, l \in PrimaryLeaders(t) : k = l
    BY DEF OneHolder
  <2>2. QED BY <2>1, NextLeaders DEF LeadersMove
<1>2. \A u \in Users : \A s, t \in PrimaryTracks(u)' : s = t
  <2>1. \A u \in Users : \A s, t \in PrimaryTracks(u) : s = t
    BY DEF OneHolder
  <2>2. QED BY <2>1, NextTracks DEF TracksMove
<1>3. QED BY <1>1, <1>2 DEF OneHolder

LEMMA OneHolderInvariant == Spec => [](Shape /\ OneHolder)
<1>1. Shape /\ OneHolder /\ [Next]_vars => (Shape /\ OneHolder)'
  BY NextShape, NextOneHolder
<1>2. QED BY <1>1, InitShape, InitOneHolder, PTL DEF Spec

\* A primary leader and a primary track implement Seats: never two holders, and
\* none replaced without a vacancy.
THEOREM SeatsKept == Spec => SeatsAreKept
<1> DEFINE leaders == [t \in Tracks |-> PrimaryLeaders(t)]
           tracks  == [u \in Users |-> PrimaryTracks(u)]
<1>1. Init => LeaderSeat!Init /\ PrimarySeat!Init
  BY DEF Init, LeaderSeat!Init, PrimarySeat!Init, PrimaryLeaders, ActiveAs, PrimaryTracks,
         NoAssignment
<1>2. Shape /\ OneHolder /\ [Next]_vars =>
          [LeaderSeat!Next]_[t \in Tracks |-> PrimaryLeaders(t)]
  <2> SUFFICES ASSUME Shape, OneHolder, [Next]_vars PROVE LeaderSeat!Next
    OBVIOUS
  <2>1. \A t \in Tracks : PrimaryLeaders(t)' \subseteq Assignments
    BY DEF PrimaryLeaders, ActiveAs
  <2>2. CASE \A t \in Tracks : PrimaryLeaders(t)' \in {{}, PrimaryLeaders(t)}
    BY <2>1, <2>2 DEF LeaderSeat!Next, LeaderSeat!Vacate
  <2>3. ASSUME NEW t \in Tracks, NEW l \in Assignments, PrimaryLeaders(t) = {},
               \A s \in Tracks : PrimaryLeaders(s)' = IF s = t THEN {l} ELSE PrimaryLeaders(s)
        PROVE  LeaderSeat!Next
    BY <2>3 DEF LeaderSeat!Next, LeaderSeat!Take
  <2>4. QED BY <2>2, <2>3, NextLeaders DEF LeadersMove
<1>3. Shape /\ OneHolder /\ [Next]_vars =>
          [PrimarySeat!Next]_[u \in Users |-> PrimaryTracks(u)]
  <2> SUFFICES ASSUME Shape, OneHolder, [Next]_vars PROVE PrimarySeat!Next
    OBVIOUS
  <2>1. \A u \in Users : PrimaryTracks(u)' \subseteq Tracks
    BY DEF PrimaryTracks
  <2>2. CASE \A u \in Users : PrimaryTracks(u)' \in {{}, PrimaryTracks(u)}
    BY <2>1, <2>2 DEF PrimarySeat!Next, PrimarySeat!Vacate
  <2>3. ASSUME NEW u \in Users, NEW t \in Tracks, PrimaryTracks(u) = {},
               \A v \in Users : PrimaryTracks(v)' = IF v = u THEN {t} ELSE PrimaryTracks(v)
        PROVE  PrimarySeat!Next
    BY <2>3 DEF PrimarySeat!Next, PrimarySeat!Take
  <2>4. QED BY <2>2, <2>3, NextTracks DEF TracksMove
<1>4. Spec => LeaderSeat!Spec
  BY <1>1, <1>2, OneHolderInvariant, PTL DEF Spec, LeaderSeat!Spec
<1>5. Spec => PrimarySeat!Spec
  BY <1>1, <1>3, OneHolderInvariant, PTL DEF Spec, PrimarySeat!Spec
<1>6. QED BY <1>4, <1>5 DEF SeatsAreKept

-----------------------------------------------------------------------------
(* Settling: how a quiet call brings the badges of its user up to date *)

\* The history makes a quiet call of one that nobody disturbs: it is enough to
\* follow the call that moves.
LEMMA RecordSettles ==
    ASSUME NEW r \in Requests, Record(r),
           pc[r] = "idle" \/ quiet[r] => SettlingAt(pc[r], arg[r])'
    PROVE  Settling'
<1> SUFFICES ASSUME NEW q \in Requests, quiet'[q]
             PROVE  SettlingAt(pc[q], arg[q])'
  BY DEF Settling
<1>1. CASE pc'[q] = "idle"
  BY <1>1 DEF SettlingAt
<1>2. CASE pc'[q] # "idle"
  BY <1>2 DEF Record
<1>3. QED BY <1>1, <1>2

\* The labels at which Settling says something.
Badges == {"sync", "award", "writeBadge", "done"}

Elsewhere == Labels \ Badges

\* A call that comes to its badges anew has settled none yet.
LEMMA PlainSettles ==
    ASSUME Shape, NEW r \in Requests, Record(r),
           \/ pc'[r] \notin Badges
           \/ pc'[r] = "sync" /\ arg'[r].kind = "primary"
    PROVE  Settling'
  BY RecordSettles DEF SettlingAt, Badges

LEMMA MoveSettles ==
    ASSUME Shape, NEW r \in Requests, Record(r), NEW label \in Elsewhere, NEW a,
           GoTo(r, label, a)
    PROVE  Settling'
  BY GoToStep, PlainSettles DEF Elsewhere

LEMMA ReturnSettles ==
    ASSUME Shape, NEW r \in Requests, Record(r), Return(r)
    PROVE  Settling'
  BY MoveSettles DEF Return, Elsewhere, Labels, Badges

LEMMA SyncSettles ==
    ASSUME Shape, NEW r \in Requests, Record(r), NEW a \in Args, Sync(r, a)
    PROVE  Settling'
<1>1. [NoArg EXCEPT !.user = a.user, !.syncs = a.syncs].kind = "primary"
  BY DEF NoArg
<1>2. /\ pc'[r] = "sync"
      /\ arg'[r] = [NoArg EXCEPT !.user = a.user, !.syncs = a.syncs]
  BY DEF Sync, GoTo, Shape, TypeOK
<1>3. QED BY <1>1, <1>2, PlainSettles

LEMMA ActivateSettles ==
    ASSUME Shape, NEW r \in Requests, Record(r), NEW a, Activate(r, a)
    PROVE  Settling'
  BY MoveSettles DEF Activate, Elsewhere, Labels, Badges

LEMMA BeginSettles ==
    ASSUME Shape, NEW r \in Requests, Record(r), Begin(r)
    PROVE  Settling'
<1>1. CASE MemberCalls(r)
  BY <1>1, MoveSettles DEF MemberCalls, Apply, Elsewhere, Labels, Badges
<1>2. CASE ReviewCalls(r)
  BY <1>2, MoveSettles DEF ReviewCalls, Review, Elsewhere, Labels, Badges
<1>3. CASE AdminCalls(r)
  BY <1>3, MoveSettles, ActivateSettles DEF AdminCalls, Assign, Appoint, Revoke, Elsewhere, Labels, Badges
<1>4. QED BY <1>1, <1>2, <1>3 DEF Begin

LEMMA LoseSettles ==
    ASSUME Shape, NEW r \in Requests, NEW u \in Users, Record(r), LoseMembership(r, u)
    PROVE  Settling'
  BY MoveSettles DEF LoseMembership, Elsewhere, Labels, Badges

\* The steps of a call before its last part, the badges.
LEMMA WorkSettles ==
    ASSUME Shape, NEW r \in Requests, Record(r), Continue(r),
           ~SyncRead(r), ~SyncAward(r), ~SyncWrite(r)
    PROVE  Settling'
<1>0. arg[r] \in Args
  BY LocalsTyped
<1>1. CASE ApplyTrack(r) \/ ApplyMember(r) \/ ApplyPending(r) \/ \E a \in Applications : ApplyInsert(r, a)
  BY <1>1, MoveSettles, ReturnSettles
  DEF ApplyTrack, ApplyMember, ApplyPending, ApplyInsert, Throw, Elsewhere, Labels, Badges
<1>2. CASE ReviewScope(r) \/ Decide(r) \/ ReviewClinic(r)
  BY <1>2, MoveSettles, ReturnSettles, ActivateSettles
  DEF ReviewScope, Decide, ReviewClinic, Throw, Elsewhere, Labels, Badges
<1>3. CASE Clear(r) \/ Find(r)
  BY <1>3, MoveSettles DEF Clear, Find, Elsewhere, Labels, Badges
<1>4. CASE Put(r)
  BY <1>0, <1>4, ReturnSettles, SyncSettles DEF Put, Throw
<1>5. CASE (\E l \in Assignments : InsertLeader(r, l)) \/ ReadMember(r)
  BY <1>5, MoveSettles, ReturnSettles, ActivateSettles
  DEF InsertLeader, ReadMember, Throw, Elsewhere, Labels, Badges
<1>6. CASE RevokeLeader(r) \/ SuspendLeaders(r)
  BY <1>0, <1>6, SyncSettles DEF RevokeLeader, SuspendLeaders
<1>7. CASE SuspendMembers(r)
  BY <1>7, MoveSettles DEF SuspendMembers, Elsewhere, Labels, Badges
<1>8. CASE Finish(r)
  BY <1>8, ReturnSettles DEF Finish
<1>9. QED
  BY <1>1, <1>2, <1>3, <1>4, <1>5, <1>6, <1>7, <1>8 DEF Continue

\* What a user holds depends on these tables only.
LEMMA HoldingsKept ==
    ASSUME NEW u, UNCHANGED <<member, primary, assignment>>
    PROVE  /\ PrimaryTracks(u)' = PrimaryTracks(u)
           /\ LedBy(u)' = LedBy(u)
           /\ \A kind : Holdings(kind, u)' = Holdings(kind, u)
<1>1. PrimaryTracks(u)' = PrimaryTracks(u) /\ LedBy(u)' = LedBy(u)
  BY DEF PrimaryTracks, LedBy, ActiveAs
<1>2. QED BY <1>1 DEF Holdings

\* Settling of one call, in the terms of its next user and badge.
LEMMA SettlesAt ==
    ASSUME NEW r \in Requests, NEW u, NEW k, arg'[r].user = u, arg'[r].kind = k,
           pc'[r] \in {"award", "writeBadge"} =>
               IF Holdings(k, u)' = {} THEN arg'[r].wanted = None
               ELSE arg'[r].wanted \in Holdings(k, u)',
           pc'[r] = "writeBadge" =>
               /\ arg'[r].seen = badge'[k][u]
               /\ arg'[r].ref = IF arg'[r].seen = None THEN "none" ELSE "live",
           pc'[r] \in Badges /\ k = "leader" => PrimarySettled(u)',
           pc'[r] = "done" => LeaderSettled(u)'
    PROVE  SettlingAt(pc[r], arg[r])'
<1>1. pc'[r] \in {"award", "writeBadge"} => Due(arg[r])'
  BY DEF Due
<1>2. pc'[r] = "writeBadge" => AwardAsRead(arg[r])'
  BY DEF AwardAsRead
<1>3. /\ pc'[r] \in Badges /\ k = "leader" => PrimarySettled(arg[r].user)'
      /\ pc'[r] = "done" => LeaderSettled(arg[r].user)'
  OBVIOUS
<1>4. QED BY <1>1, <1>2, <1>3 DEF SettlingAt, Badges

\* Before a sync's step: what Settling says of a quiet call, for its user u and
\* the badge k it is at.
LEMMA SettlingBefore ==
    ASSUME Settling, NEW r \in Requests, quiet[r], NEW u, NEW k,
           arg[r].user = u, arg[r].kind = k
    PROVE  /\ pc[r] \in {"award", "writeBadge"} =>
                  IF Holdings(k, u) = {} THEN arg[r].wanted = None
                  ELSE arg[r].wanted \in Holdings(k, u)
           /\ pc[r] = "writeBadge" =>
                  /\ arg[r].seen = badge[k][u]
                  /\ arg[r].ref = IF arg[r].seen = None THEN "none" ELSE "live"
           /\ pc[r] \in Badges /\ k = "leader" => PrimarySettled(u)
           /\ pc[r] = "done" => LeaderSettled(u)
  BY DEF Settling, SettlingAt, Due, AwardAsRead, Badges

LEMMA SyncReadSettles ==
    ASSUME Shape, Settling, NEW r \in Requests, Record(r), SyncRead(r)
    PROVE  Settling'
<1> SUFFICES ASSUME quiet[r] PROVE SettlingAt(pc[r], arg[r])'
  <2>1. pc[r] # "idle"
    BY DEF SyncRead
  <2>2. QED BY <2>1, RecordSettles
<1>1. PICK u, k : u = arg[r].user /\ k = arg[r].kind
  OBVIOUS
<1>2. arg[r] \in Args /\ pc[r] \in Badges
  BY LocalsTyped DEF SyncRead, Badges
<1>3. PICK s : /\ GoTo(r, "award", [arg[r] EXCEPT !.wanted = s])
               /\ IF Holdings(k, u) = {} THEN s = None ELSE s \in Holdings(k, u)
  BY <1>1 DEF SyncRead
<1>4. pc'[r] = "award" /\ arg'[r] = [arg[r] EXCEPT !.wanted = s]
  BY <1>3 DEF GoTo, Shape, TypeOK
<1>5. arg'[r].user = u /\ arg'[r].kind = k /\ arg'[r].wanted = s
  BY <1>1, <1>2, <1>4 DEF Args
<1>6. /\ UNCHANGED <<member, primary, assignment, badge>>
      /\ Holdings(k, u)' = Holdings(k, u) /\ PrimarySettled(u)' = PrimarySettled(u)
  BY HoldingsKept DEF SyncRead, rows, PrimarySettled
<1>7. k = "leader" => PrimarySettled(u)'
  BY <1>1, <1>2, <1>6, SettlingBefore
<1>8. IF Holdings(k, u)' = {} THEN arg'[r].wanted = None ELSE arg'[r].wanted \in Holdings(k, u)'
  BY <1>3, <1>5, <1>6
<1>9. QED BY <1>4, <1>5, <1>7, <1>8, SettlesAt

LEMMA SyncAwardSettles ==
    ASSUME Shape, Settling, NEW r \in Requests, Record(r), SyncAward(r)
    PROVE  Settling'
<1> SUFFICES ASSUME quiet[r] PROVE SettlingAt(pc[r], arg[r])'
  <2>1. pc[r] # "idle"
    BY DEF SyncAward
  <2>2. QED BY <2>1, RecordSettles
<1>1. PICK u, k : u = arg[r].user /\ k = arg[r].kind
  OBVIOUS
<1>2. arg[r] \in Args /\ pc[r] \in Badges /\ pc[r] = "award"
  BY LocalsTyped DEF SyncAward, Badges
<1>3. PICK ref : ref = IF badge[k][u] = None THEN "none" ELSE "live"
  OBVIOUS
<1>4. pc'[r] = "writeBadge" /\ arg'[r] = [arg[r] EXCEPT !.seen = badge[k][u], !.ref = ref]
  BY <1>1, <1>3 DEF SyncAward, GoTo, Shape, TypeOK
<1>5. /\ arg'[r].user = u /\ arg'[r].kind = k /\ arg'[r].wanted = arg[r].wanted
      /\ arg'[r].seen = badge[k][u] /\ arg'[r].ref = ref
  BY <1>1, <1>2, <1>4 DEF Args
<1>6. /\ UNCHANGED <<member, primary, assignment, badge>>
      /\ Holdings(k, u)' = Holdings(k, u) /\ PrimarySettled(u)' = PrimarySettled(u)
  BY HoldingsKept DEF SyncAward, rows, PrimarySettled
<1>7. /\ IF Holdings(k, u) = {} THEN arg[r].wanted = None ELSE arg[r].wanted \in Holdings(k, u)
      /\ k = "leader" => PrimarySettled(u)'
  BY <1>1, <1>2, <1>6, SettlingBefore
<1>8. IF Holdings(k, u)' = {} THEN arg'[r].wanted = None ELSE arg'[r].wanted \in Holdings(k, u)'
  BY <1>5, <1>6, <1>7
<1>9. arg'[r].seen = badge'[k][u]
  BY <1>5, <1>6
<1>10. arg'[r].ref = IF arg'[r].seen = None THEN "none" ELSE "live"
  BY <1>3, <1>5
<1>11. pc'[r] = "writeBadge" /\ arg'[r].user = u /\ arg'[r].kind = k /\ (k = "leader" => PrimarySettled(u)')
  BY <1>4, <1>5, <1>7
<1>12. QED BY <1>8, <1>9, <1>10, <1>11, SettlesAt

\* The statement that writes a quiet call's badge makes it agree with what the
\* user holds, and leaves the other badges alone.
LEMMA WriteSettles ==
    ASSUME Shape, Settling, OneHolder, NEW r \in Requests, SyncWrite(r), quiet[r], ~Return(r),
           NEW u \in Users, NEW k \in Kinds, u = arg[r].user, k = arg[r].kind
    PROVE  /\ \A j \in Kinds : j # k => badge'[j][u] = badge[j][u]
           /\ k = "primary" => {badge'[k][u]} \ {None} = PrimaryTracks(u)
           /\ k = "leader" => (badge'[k][u] # None <=> LedBy(u) # {})
<1> DEFINE a == arg[r]
           held == Holdings(k, u)
<1>1. /\ IF held = {} THEN a.wanted = None ELSE a.wanted \in held
      /\ a.seen = badge[k][u]
      /\ a.ref = IF a.seen = None THEN "none" ELSE "live"
  BY SettlingBefore DEF SyncWrite
<1>2. held \subseteq Source /\ None \notin Source
  BY HeldIsSource, NoneIsNothing DEF Source
<1>3. badge \in [Kinds -> [Users -> Source \cup {None}]]
  BY ShapeSplit DEF TablesOK
<1>4. /\ \A j \in Kinds : j # k => badge'[j][u] = badge[j][u]
      /\ badge'[k][u] = IF k = "leader" /\ held # {} /\ badge[k][u] # None
                        THEN badge[k][u] ELSE a.wanted
  <2>1. CASE /\ a.wanted # None /\ a.ref = "none"
             /\ badge' = [badge EXCEPT ![k][u] = a.wanted]
    BY <1>1, <1>3, <2>1
  <2>2. CASE /\ a.wanted = None /\ a.ref = "live"
             /\ badge' = [badge EXCEPT ![k][u] = None]
    BY <1>1, <1>2, <1>3, <2>2
  <2>3. CASE /\ a.wanted # None /\ a.ref = "live" /\ k = "primary"
             /\ badge' = [badge EXCEPT ![k][u] = a.wanted]
    BY <1>1, <1>3, <2>3
  <2>4. CASE /\ \/ a.ref = "gone"
                \/ a.wanted = None /\ a.ref = "none"
                \/ a.wanted # None /\ a.ref = "live" /\ (k = "leader" \/ a.seen = a.wanted)
             /\ UNCHANGED badge
    BY <1>1, <1>2, <2>4
  <2>5. QED BY <2>1, <2>2, <2>3, <2>4 DEF SyncWrite, Throw
<1>5. ASSUME k = "primary" PROVE {badge'[k][u]} \ {None} = PrimaryTracks(u)
  <2>1. held = PrimaryTracks(u) /\ badge'[k][u] = a.wanted
    BY <1>4, <1>5 DEF Holdings
  <2>2. \A s, t \in PrimaryTracks(u) : s = t
    BY DEF OneHolder
  <2>3. QED BY <1>1, <1>2, <2>1, <2>2
<1>6. ASSUME k = "leader" PROVE badge'[k][u] # None <=> LedBy(u) # {}
  <2>1. held = LedBy(u)
    BY <1>6 DEF Holdings
  <2>2. QED BY <1>1, <1>2, <1>4, <1>6, <2>1
<1>7. QED BY <1>4, <1>5, <1>6

LEMMA SyncWriteSettles ==
    ASSUME Shape, Settling, OneHolder, NEW r \in Requests, Record(r), SyncWrite(r)
    PROVE  Settling'
<1>1. CASE Return(r)
  BY <1>1, ReturnSettles
<1>2. ASSUME ~Return(r), quiet[r] PROVE SettlingAt(pc[r], arg[r])'
  <2>1. PICK u \in Users, k \in Kinds : u = arg[r].user /\ k = arg[r].kind
    BY LocalsTyped DEF SyncWrite, OfUser, Args
  <2>2. pc[r] = "writeBadge" /\ pc'[r] = Synced(r).label /\ arg'[r] = Synced(r).arg
    BY <1>2, SyncWriteCases DEF SyncWrite, Throw, GoTo, Forget, Shape, TypeOK
  <2>3. /\ arg'[r].user = u /\ arg'[r] \in Args
        /\ pc'[r] \in {"sync", "done"}
        /\ pc'[r] = "sync" /\ arg'[r].kind = "leader" => k = "primary"
        /\ pc'[r] = "done" => arg'[r].kind = "leader" /\ k = "leader"
    BY <2>1, <2>2, SyncedTyped
  <2>4. UNCHANGED <<member, primary, assignment>>
    BY DEF SyncWrite
  <2>5. PrimaryTracks(u)' = PrimaryTracks(u) /\ LedBy(u)' = LedBy(u)
    BY <2>4, HoldingsKept
  <2>6. /\ k = "primary" => PrimarySettled(u)'
        /\ k = "leader" => LeaderSettled(u)'
    BY <1>2, <2>1, <2>5, WriteSettles DEF PrimarySettled, LeaderSettled
  <2>7. k = "leader" => PrimarySettled(u)'
    <3>1. k = "leader" => PrimarySettled(u)
      BY <1>2, <2>1, <2>2, SettlingBefore DEF Badges
    <3>2. k = "leader" => badge'["primary"][u] = badge["primary"][u]
      BY <1>2, <2>1, WriteSettles DEF Kinds
    <3>3. QED BY <2>5, <3>1, <3>2 DEF PrimarySettled
  <2>8. PICK l : l = arg'[r].kind
    OBVIOUS
  <2>9. QED BY <2>1, <2>3, <2>6, <2>7, <2>8, SettlesAt DEF Kinds
<1>3. pc[r] # "idle"
  BY DEF SyncWrite
<1>4. QED BY <1>1, <1>2, <1>3, RecordSettles

LEMMA AroundSettles ==
    ASSUME Settling, UNCHANGED <<rows, callVars, quiet>>
    PROVE  Settling'
<1>1. UNCHANGED <<member, primary, assignment, badge, pc, arg, quiet>>
  BY DEF rows, callVars
<1> SUFFICES ASSUME NEW r \in Requests, quiet'[r] PROVE SettlingAt(pc[r], arg[r])'
  BY DEF Settling
<1>2. PICK u, k : u = arg[r].user /\ k = arg[r].kind
  OBVIOUS
<1>3. Holdings(k, u)' = Holdings(k, u) /\ PrimaryTracks(u)' = PrimaryTracks(u) /\ LedBy(u)' = LedBy(u)
  BY <1>1, HoldingsKept
<1>4. PrimarySettled(u)' = PrimarySettled(u) /\ LeaderSettled(u)' = LeaderSettled(u)
  BY <1>1, <1>3 DEF PrimarySettled, LeaderSettled
<1>5. QED BY <1>1, <1>2, <1>3, <1>4, SettlingBefore, SettlesAt

LEMMA InitSettling == Init => Settling
  BY DEF Init, Settling, SettlingAt

LEMMA NextSettling == Shape /\ OneHolder /\ Settling /\ [Next]_vars => Settling'
<1> SUFFICES ASSUME Shape, OneHolder, Settling, [Next]_vars PROVE Settling'
  OBVIOUS
<1>1. ASSUME NEW r \in Requests, Continue(r), Record(r) PROVE Settling'
  BY <1>1, WorkSettles, SyncReadSettles, SyncAwardSettles, SyncWriteSettles
<1>2. ASSUME NEW r \in Requests, Crash(r), Record(r) PROVE Settling'
  BY <1>2, ReturnSettles DEF Crash
<1>3. CASE Call
  BY <1>3, BeginSettles, LoseSettles, AroundSettles
  DEF Call, GainMembership, ConfigureTrack, EndTerm
<1>4. CASE UNCHANGED vars
  BY <1>4, AroundSettles DEF vars
<1>5. QED BY <1>1, <1>2, <1>3, <1>4 DEF Next

\* A call that no other disturbs leaves its member with just the badges that
\* are due, whatever races and crashes came before.
THEOREM QuietCallsSettle == Spec => []QuietCallsSettleBadges
<1>1. Shape /\ OneHolder /\ Settling /\ [Next]_vars => (Shape /\ OneHolder /\ Settling)'
  BY NextShape, NextOneHolder, NextSettling
<1>2. Shape /\ Settling => QuietCallsSettleBadges
  <2> SUFFICES ASSUME Shape, Settling, NEW r \in Requests, pc[r] = "done", quiet[r]
               PROVE  LET u  == arg[r].user
                          id == VerifiedIdentity(u)
                      IN
                      /\ {badge["primary"][u]} \ {None} = id.primary
                      /\ id.primary \cap id.secondary = {}
                      /\ badge["leader"][u] # None <=> LedBy(u) # {}
                      /\ id.leads # {} => badge["leader"][u] # None
    BY DEF QuietCallsSettleBadges
  <2>1. arg[r].kind = "leader"
    BY LocalsTyped
  <2>2. PrimarySettled(arg[r].user) /\ LeaderSettled(arg[r].user)
    BY <2>1 DEF Settling, SettlingAt
  <2>3. QED BY <2>2 DEF VerifiedIdentity, PrimarySettled, LeaderSettled, PrimaryTracks
<1>3. QED BY <1>1, <1>2, InitShape, InitOneHolder, InitSettling, PTL DEF Spec
=============================================================================
