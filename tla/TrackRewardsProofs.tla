------------------------- MODULE TrackRewardsProofs -------------------------
(***************************************************************************)
(* Proofs about the recognition of a member and the rewards of track       *)
(* contributions, for any number of rows, calls and crashes: impact        *)
(* follows the status, no flag comes before its reward, and a call nobody  *)
(* else wrote during does all of its work.                                 *)
(*                                                                         *)
(* Shape says that a call's locals are values its next statement can use.  *)
(* Following says what a row's status and impact are at each step of the   *)
(* one call that works on it; Backing what is there before a flag is set;  *)
(* Settling how far a quiet call has come.                                 *)
(***************************************************************************)
EXTENDS TrackRewards, SequenceTheorems, TLAPS

Rewards    == {"impact", "hours", "row", "badge"}
WorkLabels == {"patch", "readWork", "find", "insert", "flag"}
AtReward   == {"find", "insert", "flag"}
Places     == Labels \cup WorkLabels

\* What a score may have been computed from, and what it may be.
Counted == {EventsOf(counts) : counts \in [Sources -> Nat]}
Weighed == {w * n : w \in {1, 2}, n \in Counted}

Verdicts == {"none", "approved", "rejected"} \cup Decisions

Args ==
    [call : {"none", "review", "revoke", "award", "issue", "work"}, on : Sources \cup {None},
     decision : Verdicts, issuer : BOOLEAN, events : {0} \cup Counted \cup Weighed,
     hours : BOOLEAN, todo : Seq(Rewards)]

Scoring == {"readEvents", "readRules", "writeScore"}
Badging == {"findBadge", "insertBadge"}
Proving == {"checkSource", "findCertificate", "insertCertificate"}
Staffed == {"decide", "impact", "evaluate", "findMilestone", "insertMilestone"}

\* Which call is at which label, and on what.
LocalsOK(label, a) ==
    /\ label \in Staffed \cup Scoring \cup Proving \cup {"writeRevoked", "revokeImpact"}
          => a.on \in Contributions
    /\ label \in Staffed => a.call = "review"
    /\ label \in {"writeRevoked", "revokeImpact"} => a.call = "revoke"
    /\ label \in Scoring => a.call \in {"review", "revoke"}
    /\ label \in Badging => a.call = "award" \/ (a.call = "review" /\ a.on \in Contributions)
    /\ label \in Proving => a.call \in {"review", "issue"}
    /\ label = "decide" => a.decision \in {"approved", "rejected"}
    /\ label = "readRules" => a.events \in Counted
    /\ label = "writeScore" => a.events \in Weighed
    /\ label \in WorkLabels => a.on \in TrackWork /\ a.call = "work"
    /\ label \in AtReward => a.todo # <<>>
    /\ label = "find" => Head(a.todo) # "row"
    /\ label = "flag" => Head(a.todo) # "hours"

TablesOK ==
    /\ contribution \in [Contributions -> ContributionStatus]
    /\ origin \in [Contributions -> TrackWork \cup {None}]
    /\ live \in [Sources -> Nat]
    /\ weight \in {1, 2}
    /\ hours \in BOOLEAN /\ milestone \in BOOLEAN
    /\ badge \in AwardStatus
    /\ certificate \in [Contributions -> CertificateStatus]
    /\ flags \in [TrackWork -> SUBSET Flagged]
    /\ entries \in [TrackWork -> Nat]

Shape ==
    /\ TablesOK
    /\ pc \in [Requests -> Places]
    /\ arg \in [Requests -> Args]
    /\ quiet \subseteq Requests
    /\ \A r \in Requests : LocalsOK(pc[r], arg[r])

-----------------------------------------------------------------------------
(* The invariants *)

At(r, c) == pc[r] \in WorkingAt /\ arg[r].on = c

StageOK(label, c) ==
    /\ label = "decide"       => contribution[c] = "submitted" /\ live[c] = 0
    /\ label = "impact"       => contribution[c] = "approved"  /\ live[c] = 0
    /\ label = "writeRevoked" => contribution[c] = "approved"  /\ live[c] = 1
    /\ label = "revokeImpact" => contribution[c] = "revoked"   /\ live[c] = 1

Follows(c) ==
    /\ \A p, q \in Requests : At(p, c) /\ At(q, c) => p = q
    /\ \A p \in Requests : At(p, c) => StageOK(pc[p], c)
    /\ ~Working(c) => live[c] = IF contribution[c] = "approved" THEN 1 ELSE 0

Following == \A c \in Contributions \ torn : origin[c] = None => Follows(c)

Backed(reward, w) ==
    /\ reward = "impact" => live[w] > 0
    /\ reward = "row"    => \E c \in Contributions : origin[c] = w
    /\ reward = "badge"  => badge # "none"

MadeRows == \A c \in Contributions : origin[c] # None => contribution[c] # "none"

Backing ==
    /\ MadeRows
    /\ \A w \in TrackWork : \A reward \in flags[w] : Backed(reward, w)
    /\ \A r \in Requests : pc[r] = "flag" => Backed(Head(arg[r].todo), arg[r].on)

\* An approval's badge, milestone and certificate, in this order.
BadgeGiven     == {"findMilestone", "insertMilestone"} \cup Proving \cup {"done"}
MilestoneGiven  == Proving \cup {"done"}
Scored         == {"evaluate"} \cup Badging \cup BadgeGiven

ReviewSettled(label, a) ==
    /\ label \notin {"decide", "done"} => a.decision = "approved"
    /\ label = "readRules"  => a.events = Events
    /\ label = "writeScore" => a.events = Score
    /\ label \in Badging \cup {"findMilestone", "insertMilestone"} => (hours => a.hours)
    /\ a.decision = "approved" =>
          /\ label # "decide" => contribution[a.on] = "approved"
          /\ label \in Scoring \cup Scored => live[a.on] > 0
          /\ label \in Scored => score = Score
          /\ label \in BadgeGiven => badge = "active"
          /\ label \in MilestoneGiven => (hours => milestone)
          /\ label = "done" => (a.issuer => certificate[a.on] # "none")

RevokeSettled(label, a) ==
    /\ label \in Scoring \cup {"done"} => live[a.on] = 0
    /\ label = "readRules"  => a.events = Events
    /\ label = "writeScore" => a.events = Score
    /\ label = "done" => score = Score

Listed(todo) == {todo[i] : i \in 1..Len(todo)}

\* The rewards a call still has to make sure of are on its list.
WorkSettled(label, a) ==
    /\ label \in AtReward \cup {"readWork"} => a.decision \in Rewarded
    /\ label \in AtReward \cup {"done"} /\ a.decision \in Rewarded =>
          /\ Flagged \subseteq flags[a.on] \cup Listed(a.todo)
          /\ entries[a.on] > 0 \/ "hours" \in Listed(a.todo)
    /\ label = "done" /\ a.decision \in Rewarded => a.todo = <<>> /\ a.on \in TrackWork

Settled(label, a) ==
    /\ a.call = "review" => ReviewSettled(label, a)
    /\ a.call = "revoke" => RevokeSettled(label, a)
    /\ a.call = "work"   => WorkSettled(label, a)

Settling == \A r \in quiet : Settled(pc[r], arg[r])

-----------------------------------------------------------------------------
(* How a call moves *)

Moves(r) == \E label \in Places, a \in Args : GoTo(r, label, a) /\ LocalsOK(label, a)

LEMMA NoneIsNoRow == None \notin Contributions /\ None \notin TrackWork /\ None \notin Sources
  BY NoneIsNothing DEF Sources

LEMMA NoArgIsArg == NoArg \in Args /\ LocalsOK("idle", NoArg) /\ "idle" \in Places
<1>1. NoArg \in Args
  BY DEF NoArg, Args, Verdicts
<1>2. QED
  BY <1>1 DEF LocalsOK, Places, Labels, Staffed, Scoring, Badging, Proving, WorkLabels, AtReward

LEMMA LocalsTyped ==
    ASSUME Shape, NEW r \in Requests
    PROVE  arg[r] \in Args /\ pc[r] \in Places /\ LocalsOK(pc[r], arg[r])
  BY DEF Shape

\* Where a step leads, and that it moves no other call.
LEMMA Goes ==
    ASSUME Shape, NEW r \in Requests, NEW label, NEW a, GoTo(r, label, a)
    PROVE  /\ pc'[r] = label /\ arg'[r] = a
           /\ \A q \in Requests \ {r} : pc'[q] = pc[q] /\ arg'[q] = arg[q]
  BY DEF GoTo, Shape

LEMMA Steps ==
    ASSUME Shape, NEW r \in Requests, NEW label, Step(r, label)
    PROVE  /\ pc'[r] = label /\ arg'[r] = arg[r]
           /\ \A q \in Requests \ {r} : pc'[q] = pc[q] /\ arg'[q] = arg[q]
  BY Goes DEF Step

LEMMA StepMoves ==
    ASSUME Shape, NEW r \in Requests, NEW label \in Places, Step(r, label), LocalsOK(label, arg[r])
    PROVE  Moves(r)
  BY LocalsTyped DEF Moves, Step

LEMMA ReturnMoves ==
    ASSUME NEW r \in Requests, Return(r)
    PROVE  Moves(r)
  BY NoArgIsArg DEF Moves, Return

LEMMA MoveShape ==
    ASSUME Shape, NEW r \in Requests, Moves(r) \/ Once(r), Observe(r), TablesOK'
    PROVE  Shape'
<1>1. quiet' \subseteq Requests
  BY DEF Observe, Shape
<1>2. CASE Once(r)
  <2>1. /\ pc' \in [Requests -> Places] /\ arg' \in [Requests -> Args]
        /\ \A q \in Requests : LocalsOK(pc'[q], arg'[q])
    BY <1>2 DEF Once, callVars, Shape
  <2>2. QED BY <1>1, <2>1 DEF Shape, LocalsOK
<1>3. CASE Moves(r)
  <2> PICK label \in Places, a \in Args : GoTo(r, label, a) /\ LocalsOK(label, a)
    BY <1>3 DEF Moves
  <2>1. pc' \in [Requests -> Places] /\ arg' \in [Requests -> Args]
    BY DEF GoTo, Shape
  <2>2. \A q \in Requests : LocalsOK(pc'[q], arg'[q])
    BY Goes DEF Shape
  <2>3. QED BY <1>1, <2>1, <2>2 DEF Shape, LocalsOK
<1>4. QED BY <1>2, <1>3

LEMMA RowsKeepTables ==
    ASSUME TablesOK, UNCHANGED <<rows, workRows>>
    PROVE  TablesOK'
  BY DEF TablesOK, rows, workRows

-----------------------------------------------------------------------------
(* Shape: the steps of recognition *)

LEMMA LabelsApart ==
    /\ Labels \subseteq Places /\ WorkLabels \subseteq Places
    /\ Staffed \cup Scoring \cup Badging \cup Proving \subseteq Labels
    /\ {"idle", "writeRevoked", "revokeImpact", "done"} \subseteq Labels
  BY DEF Places, Labels, WorkLabels, Staffed, Scoring, Badging, Proving

LEMMA DecideShape ==
    ASSUME Shape, NEW r \in Requests, Decide(r), UNCHANGED workRows
    PROVE  Moves(r) /\ TablesOK'
<1> PICK l, a : l = pc[r] /\ a = arg[r]
  OBVIOUS
<1>1. l = "decide" /\ LocalsOK(l, a) /\ a \in Args
  BY LocalsTyped DEF Decide
<1>2. a.on \in Contributions /\ a.decision \in {"approved", "rejected"}
  BY <1>1 DEF LocalsOK, Staffed
<1>3. a.call = "review"
  BY <1>1 DEF LocalsOK, Staffed
<1>4. LocalsOK("impact", a) /\ LocalsOK("done", a)
  BY <1>2, <1>3 DEF LocalsOK, Staffed, Scoring, Badging, Proving, WorkLabels, AtReward
<1>5. Moves(r)
  BY <1>4, StepMoves, LabelsApart DEF Decide, Staffed
<1>6. TablesOK'
  BY <1>2 DEF Decide, TablesOK, workRows, Shape, ContributionStatus
<1>7. QED BY <1>5, <1>6

LEMMA InsertImpactShape ==
    ASSUME Shape, NEW r \in Requests, InsertImpact(r), UNCHANGED workRows
    PROVE  Moves(r) /\ TablesOK'
<1> PICK l, a : l = pc[r] /\ a = arg[r]
  OBVIOUS
<1>1. l = "impact" /\ LocalsOK(l, a) /\ a \in Args
  BY LocalsTyped DEF InsertImpact
<1>2. a.on \in Contributions /\ a.call = "review"
  BY <1>1 DEF LocalsOK, Staffed
<1>3. LocalsOK("readEvents", a)
  BY <1>2 DEF LocalsOK, Staffed, Scoring, Badging, Proving, WorkLabels, AtReward
<1>4. Moves(r)
  BY <1>3, StepMoves, LabelsApart DEF InsertImpact, Scoring
<1>5. TablesOK'
  BY <1>2 DEF InsertImpact, TablesOK, workRows, Shape, Sources
<1>6. QED BY <1>4, <1>5

LEMMA WriteRevokedShape ==
    ASSUME Shape, NEW r \in Requests, WriteRevoked(r), UNCHANGED workRows
    PROVE  Moves(r) /\ TablesOK'
<1> PICK l, a : l = pc[r] /\ a = arg[r]
  OBVIOUS
<1>1. l = "writeRevoked" /\ LocalsOK(l, a) /\ a \in Args
  BY LocalsTyped DEF WriteRevoked
<1>2. a.on \in Contributions /\ a.call = "revoke"
  BY <1>1 DEF LocalsOK
<1>3. LocalsOK("revokeImpact", a)
  BY <1>2 DEF LocalsOK, Staffed, Scoring, Badging, Proving, WorkLabels, AtReward
<1>4. Moves(r)
  BY <1>3, StepMoves, LabelsApart DEF WriteRevoked
<1>5. TablesOK'
  BY <1>2 DEF WriteRevoked, TablesOK, workRows, Shape, ContributionStatus
<1>6. QED BY <1>4, <1>5

LEMMA RevokeImpactShape ==
    ASSUME Shape, NEW r \in Requests, RevokeImpact(r), UNCHANGED workRows
    PROVE  Moves(r) /\ TablesOK'
<1> PICK l, a : l = pc[r] /\ a = arg[r]
  OBVIOUS
<1>1. l = "revokeImpact" /\ LocalsOK(l, a) /\ a \in Args
  BY LocalsTyped DEF RevokeImpact
<1>2. a.on \in Contributions /\ a.call = "revoke"
  BY <1>1 DEF LocalsOK
<1>3. LocalsOK("readEvents", a)
  BY <1>2 DEF LocalsOK, Staffed, Scoring, Badging, Proving, WorkLabels, AtReward
<1>4. Moves(r)
  BY <1>3, StepMoves, LabelsApart DEF RevokeImpact, Scoring
<1>5. TablesOK'
  BY <1>2 DEF RevokeImpact, TablesOK, workRows, Shape, Sources
<1>6. QED BY <1>4, <1>5

LEMMA ScoreReadings ==
    ASSUME TablesOK
    PROVE  Events \in Counted /\ \A n \in Counted : weight * n \in Weighed
  BY DEF TablesOK, Events, Counted, Weighed

LEMMA ReadEventsShape ==
    ASSUME Shape, NEW r \in Requests, ReadEvents(r), UNCHANGED workRows
    PROVE  Moves(r) /\ TablesOK'
<1> PICK l, a : l = pc[r] /\ a = arg[r]
  OBVIOUS
<1> PICK n : n = Events
  OBVIOUS
<1> DEFINE b == [a EXCEPT !.events = n]
<1>1. l = "readEvents" /\ LocalsOK(l, a) /\ a \in Args /\ n \in Counted
  BY LocalsTyped, ScoreReadings DEF ReadEvents, Shape
<1>2. b \in Args
  BY <1>1 DEF Args
<1>3. b.on = a.on /\ b.call = a.call /\ b.events = n
  BY <1>1 DEF Args
<1>4. a.on \in Contributions /\ a.call \in {"review", "revoke"}
  BY <1>1 DEF LocalsOK, Scoring
<1>5. LocalsOK("readRules", b)
  BY <1>1, <1>3, <1>4 DEF LocalsOK, Staffed, Scoring, Badging, Proving, WorkLabels, AtReward
<1>6. Moves(r)
  BY <1>2, <1>5, LabelsApart DEF ReadEvents, Moves, Scoring
<1>7. TablesOK'
  BY RowsKeepTables DEF ReadEvents, Shape
<1>8. QED BY <1>6, <1>7

LEMMA ReadRulesShape ==
    ASSUME Shape, NEW r \in Requests, ReadRules(r), UNCHANGED workRows
    PROVE  Moves(r) /\ TablesOK'
<1> PICK l, a : l = pc[r] /\ a = arg[r]
  OBVIOUS
<1> PICK n : n = weight * a.events
  OBVIOUS
<1> DEFINE b == [a EXCEPT !.events = n]
<1>1. l = "readRules" /\ LocalsOK(l, a) /\ a \in Args
  BY LocalsTyped DEF ReadRules
<1>2. a.on \in Contributions /\ a.call \in {"review", "revoke"} /\ n \in Weighed
  BY <1>1, ScoreReadings DEF LocalsOK, Scoring, Shape
<1>3. b \in Args
  BY <1>1, <1>2 DEF Args
<1>4. b.on = a.on /\ b.call = a.call /\ b.events = n
  BY <1>1 DEF Args
<1>5. LocalsOK("writeScore", b)
  BY <1>2, <1>4 DEF LocalsOK, Staffed, Scoring, Badging, Proving, WorkLabels, AtReward
<1>6. GoTo(r, "writeScore", b)
  BY DEF ReadRules
<1>7. Moves(r)
  BY <1>3, <1>5, <1>6, LabelsApart DEF Moves, Scoring
<1>8. TablesOK'
  BY RowsKeepTables DEF ReadRules, Shape
<1>9. QED BY <1>7, <1>8

LEMMA WriteScoreShape ==
    ASSUME Shape, NEW r \in Requests, WriteScore(r), UNCHANGED workRows
    PROVE  Moves(r) /\ TablesOK'
<1> PICK l, a : l = pc[r] /\ a = arg[r]
  OBVIOUS
<1> DEFINE b == [a EXCEPT !.events = 0]
<1>1. l = "writeScore" /\ LocalsOK(l, a) /\ a \in Args
  BY LocalsTyped DEF WriteScore
<1>2. a.on \in Contributions /\ a.call \in {"review", "revoke"}
  BY <1>1 DEF LocalsOK, Scoring
<1>3. b \in Args
  BY <1>1 DEF Args
<1>4. b.on = a.on /\ b.call = a.call
  BY <1>1 DEF Args
<1>5. LocalsOK("done", b) /\ (a.call = "review" => LocalsOK("evaluate", b))
  BY <1>2, <1>4 DEF LocalsOK, Staffed, Scoring, Badging, Proving, WorkLabels, AtReward
<1>6. GoTo(r, IF a.call = "review" THEN "evaluate" ELSE "done", b)
  BY DEF WriteScore
<1>7. Moves(r)
  BY <1>3, <1>5, <1>6, LabelsApart DEF Moves, Staffed
<1>8. TablesOK'
  BY DEF WriteScore, Shape, TablesOK, workRows
<1>9. QED BY <1>7, <1>8

LEMMA EvaluateShape ==
    ASSUME Shape, NEW r \in Requests, Evaluate(r), UNCHANGED workRows
    PROVE  Moves(r) /\ TablesOK'
<1> PICK l, a : l = pc[r] /\ a = arg[r]
  OBVIOUS
<1> PICK h \in BOOLEAN : h = hours
  BY DEF Shape, TablesOK
<1> DEFINE b == [a EXCEPT !.hours = h]
<1>1. l = "evaluate" /\ LocalsOK(l, a) /\ a \in Args
  BY LocalsTyped DEF Evaluate
<1>2. a.on \in Contributions /\ a.call = "review"
  BY <1>1 DEF LocalsOK, Staffed
<1>3. b \in Args
  BY <1>1 DEF Args
<1>4. b.on = a.on /\ b.call = a.call
  BY <1>1 DEF Args
<1>5. LocalsOK("findBadge", b) /\ LocalsOK("findMilestone", b)
  BY <1>2, <1>4 DEF LocalsOK, Staffed, Scoring, Badging, Proving, WorkLabels, AtReward
<1>6. GoTo(r, IF Approved # {} THEN "findBadge" ELSE "findMilestone", b)
  BY DEF Evaluate
<1>7. Moves(r)
  BY <1>3, <1>5, <1>6, LabelsApart DEF Moves, Staffed, Badging
<1>8. TablesOK'
  BY RowsKeepTables DEF Evaluate, Shape
<1>9. QED BY <1>7, <1>8

\* Where the chain of an approval, or an award by hand, may go on.
LEMMA ChainLocals ==
    ASSUME NEW l \in Labels, NEW a \in Args, LocalsOK(l, a)
    PROVE  /\ LocalsOK("done", a)
           /\ l \in Badging => LocalsOK("insertBadge", a)
           /\ l \in Badging /\ a.call # "award" => LocalsOK("findMilestone", a)
           /\ l \in {"findMilestone", "insertMilestone"} =>
                 LocalsOK("insertMilestone", a) /\ LocalsOK("checkSource", a)
           /\ l \in Proving => LocalsOK("findCertificate", a) /\ LocalsOK("insertCertificate", a)
<1>1. LocalsOK("done", a)
  BY DEF LocalsOK, Staffed, Scoring, Badging, Proving, WorkLabels, AtReward
<1>2. l \in Badging =>
        LocalsOK("insertBadge", a) /\ (a.call # "award" => LocalsOK("findMilestone", a))
  BY DEF LocalsOK, Staffed, Scoring, Badging, Proving, WorkLabels, AtReward
<1>3. l \in {"findMilestone", "insertMilestone"} =>
        a.on \in Contributions /\ a.call = "review"
  BY DEF LocalsOK, Staffed
<1>4. l \in {"findMilestone", "insertMilestone"} =>
        LocalsOK("insertMilestone", a) /\ LocalsOK("checkSource", a)
  BY <1>3 DEF LocalsOK, Staffed, Scoring, Badging, Proving, WorkLabels, AtReward
<1>5. l \in Proving => a.on \in Contributions /\ a.call \in {"review", "issue"}
  BY DEF LocalsOK, Proving
<1>6. l \in Proving => LocalsOK("findCertificate", a) /\ LocalsOK("insertCertificate", a)
  BY <1>5 DEF LocalsOK, Staffed, Scoring, Badging, Proving, WorkLabels, AtReward
<1>7. QED BY <1>1, <1>2, <1>4, <1>6

LEMMA BadgeShape ==
    ASSUME Shape, NEW r \in Requests, FindBadge(r) \/ InsertBadge(r), UNCHANGED workRows
    PROVE  Moves(r) /\ TablesOK'
<1> PICK l, a : l = pc[r] /\ a = arg[r]
  OBVIOUS
<1>1. l \in Badging /\ l \in Labels /\ LocalsOK(l, a) /\ a \in Args
  BY LocalsTyped, LabelsApart DEF FindBadge, InsertBadge, Badging
<1>2. /\ LocalsOK("insertBadge", a) /\ LocalsOK("done", a)
      /\ a.call # "award" => LocalsOK("findMilestone", a)
  BY <1>1, ChainLocals
<1>3. LocalsOK(BadgeDone(r), a) /\ BadgeDone(r) \in Places
  BY <1>2, LabelsApart DEF BadgeDone, Staffed
<1>4. "insertBadge" \in Places
  BY LabelsApart DEF Badging
<1>5. CASE FindBadge(r)
  <2>1. Moves(r)
    BY <1>2, <1>3, <1>4, <1>5, StepMoves DEF FindBadge
  <2>2. TablesOK'
    BY <1>5, RowsKeepTables DEF FindBadge, Shape
  <2>3. QED BY <2>1, <2>2
<1>6. CASE InsertBadge(r)
  <2>1. Moves(r)
    BY <1>3, <1>6, StepMoves, ReturnMoves DEF InsertBadge, Throw
  <2>2. TablesOK'
    BY <1>6 DEF InsertBadge, Shape, TablesOK, workRows, AwardStatus
  <2>3. QED BY <2>1, <2>2
<1>7. QED BY <1>5, <1>6

LEMMA MilestoneShape ==
    ASSUME Shape, NEW r \in Requests, FindMilestone(r) \/ InsertMilestone(r), UNCHANGED workRows
    PROVE  Moves(r) /\ TablesOK'
<1> PICK l, a : l = pc[r] /\ a = arg[r]
  OBVIOUS
<1>1. l \in {"findMilestone", "insertMilestone"} /\ l \in Labels /\ LocalsOK(l, a) /\ a \in Args
  BY LocalsTyped, LabelsApart DEF FindMilestone, InsertMilestone, Staffed
<1>2. LocalsOK("insertMilestone", a) /\ LocalsOK("checkSource", a) /\ LocalsOK("done", a)
  BY <1>1, ChainLocals
<1>3. LocalsOK(Evaluated(r), a) /\ Evaluated(r) \in Places
  BY <1>2, LabelsApart DEF Evaluated, Proving
<1>4. "insertMilestone" \in Places
  BY LabelsApart DEF Staffed
<1>5. CASE FindMilestone(r)
  <2>1. Moves(r)
    <3>1. CASE arg[r].hours /\ ~milestone
      BY <1>2, <1>4, <1>5, <3>1, StepMoves DEF FindMilestone
    <3>2. CASE ~(arg[r].hours /\ ~milestone)
      BY <1>3, <1>5, <3>2, StepMoves DEF FindMilestone
    <3>3. QED BY <3>1, <3>2
  <2>2. TablesOK'
    BY <1>5, RowsKeepTables DEF FindMilestone, Shape
  <2>3. QED BY <2>1, <2>2
<1>6. CASE InsertMilestone(r)
  <2>1. Moves(r)
    BY <1>3, <1>6, StepMoves, ReturnMoves DEF InsertMilestone, Throw
  <2>2. TablesOK'
    BY <1>6 DEF InsertMilestone, Shape, TablesOK, workRows
  <2>3. QED BY <2>1, <2>2
<1>7. QED BY <1>5, <1>6

LEMMA CertificateShape ==
    ASSUME Shape, NEW r \in Requests, UNCHANGED workRows,
           CheckSource(r) \/ FindCertificate(r) \/ InsertCertificate(r)
    PROVE  Moves(r) /\ TablesOK'
<1> PICK l, a : l = pc[r] /\ a = arg[r]
  OBVIOUS
<1>1. l \in Proving /\ l \in Labels /\ LocalsOK(l, a) /\ a \in Args
  BY LocalsTyped, LabelsApart DEF CheckSource, FindCertificate, InsertCertificate, Proving
<1>2. /\ LocalsOK("findCertificate", a) /\ LocalsOK("insertCertificate", a)
      /\ LocalsOK("done", a) /\ a.on \in Contributions
  BY <1>1, ChainLocals DEF LocalsOK
<1>3. {"findCertificate", "insertCertificate", "done"} \subseteq Places
  BY LabelsApart DEF Proving
<1>4. CASE CheckSource(r)
  <2>1. Moves(r)
    BY <1>2, <1>3, <1>4, StepMoves, ReturnMoves DEF CheckSource, Throw
  <2>2. QED BY <1>4, <2>1, RowsKeepTables DEF CheckSource, Shape
<1>5. CASE FindCertificate(r)
  <2>1. Moves(r)
    BY <1>2, <1>3, <1>5, StepMoves DEF FindCertificate
  <2>2. QED BY <1>5, <2>1, RowsKeepTables DEF FindCertificate, Shape
<1>6. CASE InsertCertificate(r)
  <2>1. Moves(r)
    BY <1>2, <1>3, <1>6, StepMoves, ReturnMoves DEF InsertCertificate, Throw
  <2>2. TablesOK'
    BY <1>2, <1>6 DEF InsertCertificate, Shape, TablesOK, workRows, CertificateStatus
  <2>3. QED BY <2>1, <2>2
<1>7. QED BY <1>4, <1>5, <1>6

LEMMA FinishShape ==
    ASSUME Shape, NEW r \in Requests, Finish(r) \/ Crash(r), UNCHANGED workRows
    PROVE  Moves(r) /\ TablesOK'
  BY ReturnMoves, RowsKeepTables DEF Finish, Crash, Shape

-----------------------------------------------------------------------------
(* Lists of rewards *)

LEMMA ListedTogether ==
    ASSUME NEW s \in Seq(Rewards), NEW t \in Seq(Rewards)
    PROVE  s \o t \in Seq(Rewards) /\ Listed(s) \cup Listed(t) \subseteq Listed(s \o t)
<1>1. /\ s \o t \in Seq(Rewards) /\ Len(s \o t) = Len(s) + Len(t)
      /\ \A i \in 1..(Len(s) + Len(t)) : (s \o t)[i] = IF i <= Len(s) THEN s[i] ELSE t[i - Len(s)]
      /\ Len(s) \in Nat /\ Len(t) \in Nat
  BY ConcatProperties, LenProperties
<1>2. ASSUME NEW i \in 1..Len(s) PROVE s[i] \in Listed(s \o t)
  <2>1. i \in 1..Len(s \o t) /\ (s \o t)[i] = s[i]
    BY <1>1
  <2>2. QED BY <2>1 DEF Listed
<1>3. ASSUME NEW i \in 1..Len(t) PROVE t[i] \in Listed(s \o t)
  <2>1. Len(s) + i \in 1..Len(s \o t) /\ (s \o t)[Len(s) + i] = t[i]
    BY <1>1
  <2>2. QED BY <2>1 DEF Listed
<1>4. QED BY <1>1, <1>2, <1>3 DEF Listed

LEMMA ListedAlone ==
    ASSUME NEW x \in Rewards
    PROVE  <<x>> \in Seq(Rewards) /\ x \in Listed(<<x>>)
<1>1. <<x>> \in Seq(Rewards) /\ Len(<<x>>) = 1 /\ <<x>>[1] = x
  OBVIOUS
<1>2. QED BY <1>1 DEF Listed

\* Owed lists the hours and what is not flagged.
LEMMA OwedLists ==
    ASSUME NEW f
    PROVE  /\ Owed(f) \in Seq(Rewards)
           /\ "hours" \in Listed(Owed(f))
           /\ \A x \in Flagged : x \in f \/ x \in Listed(Owed(f))
<1> DEFINE one(x) == IF x \in f THEN <<>> ELSE <<x>>
<1>1. ASSUME NEW x \in Rewards
      PROVE  one(x) \in Seq(Rewards) /\ (x \in f \/ x \in Listed(one(x)))
  BY ListedAlone
<1> HIDE DEF one
<1> DEFINE s == one("impact") \o <<"hours">>
           t == s \o one("row")
           u == t \o one("badge")
<1>2. {"impact", "hours", "row", "badge"} \subseteq Rewards
  BY DEF Rewards
<1>3. /\ s \in Seq(Rewards) /\ "hours" \in Listed(s)
      /\ "impact" \in f \/ "impact" \in Listed(s)
  <2>1. <<"hours">> \in Seq(Rewards) /\ "hours" \in Listed(<<"hours">>)
    BY <1>2, ListedAlone
  <2>2. QED BY <1>1, <1>2, <2>1, ListedTogether
<1> HIDE DEF s
<1>4. t \in Seq(Rewards) /\ Listed(s) \subseteq Listed(t) /\ ("row" \in f \/ "row" \in Listed(t))
  BY <1>1, <1>2, <1>3, ListedTogether
<1> HIDE DEF t
<1>5. u \in Seq(Rewards) /\ Listed(t) \subseteq Listed(u) /\ ("badge" \in f \/ "badge" \in Listed(u))
  BY <1>1, <1>2, <1>4, ListedTogether
<1>6. Owed(f) = u
  BY DEF Owed, u, t, s, one
<1>7. QED BY <1>3, <1>4, <1>5, <1>6 DEF Flagged

LEMMA Unlist ==
    ASSUME NEW todo \in Seq(Rewards), todo # <<>>
    PROVE  /\ Head(todo) \in Rewards /\ Tail(todo) \in Seq(Rewards)
           /\ Listed(todo) \subseteq {Head(todo)} \cup Listed(Tail(todo))
<1>1. /\ Head(todo) \in Rewards /\ Tail(todo) \in Seq(Rewards)
      /\ Len(todo) \in Nat /\ Len(Tail(todo)) = Len(todo) - 1
      /\ \A i \in 1..Len(Tail(todo)) : Tail(todo)[i] = todo[i + 1]
  BY HeadTailProperties, EmptySeq, LenProperties
<1>2. Head(todo) = todo[1]
  OBVIOUS
<1>3. ASSUME NEW i \in 1..Len(todo)
      PROVE  todo[i] \in {Head(todo)} \cup Listed(Tail(todo))
  <2>1. CASE i = 1
    BY <1>2, <2>1
  <2>2. CASE i # 1
    <3>1. i - 1 \in 1..Len(Tail(todo)) /\ Tail(todo)[i - 1] = todo[i]
      BY <1>1, <2>2
    <3>2. QED BY <3>1 DEF Listed
  <2>3. QED BY <2>1, <2>2
<1>4. QED BY <1>1, <1>3 DEF Listed

-----------------------------------------------------------------------------
(* Shape: the steps of a track's decision *)

\* What a call on a track contribution has at each of its labels.
LEMMA WorkLocals ==
    ASSUME NEW l \in WorkLabels, NEW a \in Args, LocalsOK(l, a)
    PROVE  /\ a.on \in TrackWork /\ a.call = "work" /\ a.todo \in Seq(Rewards)
           /\ l \in AtReward => a.todo # <<>>
  BY DEF LocalsOK, Args

LEMMA WorkGoesOn ==
    ASSUME NEW b \in Args, b.on \in TrackWork, b.call = "work"
    PROVE  /\ LocalsOK("done", b) /\ LocalsOK("readWork", b)
           /\ b.todo # <<>> =>
                /\ LocalsOK("insert", b)
                /\ Head(b.todo) # "row" => LocalsOK("find", b)
                /\ Head(b.todo) # "hours" => LocalsOK("flag", b)
  BY DEF LocalsOK, Staffed, Scoring, Badging, Proving, WorkLabels, AtReward

LEMMA AwardMoves ==
    ASSUME Shape, NEW r \in Requests, pc[r] \in WorkLabels, NEW todo \in Seq(Rewards),
           Award(r, todo)
    PROVE  /\ Moves(r)
           /\ pc'[r] = IF todo = <<>> THEN "done" ELSE FirstStep(Head(todo))
           /\ \A q \in Requests \ {r} : pc'[q] = pc[q] /\ arg'[q] = arg[q]
           /\ arg'[r].todo = todo /\ arg'[r].on = arg[r].on /\ arg'[r].call = arg[r].call
           /\ arg'[r].decision = arg[r].decision
<1> PICK l, a : l = pc[r] /\ a = arg[r]
  OBVIOUS
<1> DEFINE b == [a EXCEPT !.todo = todo]
           label == IF todo = <<>> THEN "done" ELSE FirstStep(Head(todo))
<1>1. l \in WorkLabels /\ LocalsOK(l, a) /\ a \in Args
  BY LocalsTyped
<1>2. a.on \in TrackWork /\ a.call = "work"
  BY <1>1, WorkLocals
<1>3. b \in Args
  BY <1>1 DEF Args
<1>4. b.on = a.on /\ b.call = a.call /\ b.todo = todo /\ b.decision = a.decision
  BY <1>1 DEF Args
<1>5. LocalsOK(label, b) /\ label \in Places
  BY <1>2, <1>3, <1>4, WorkGoesOn, LabelsApart DEF FirstStep, WorkLabels
<1>6. GoTo(r, label, b)
  BY DEF Award
<1>7. Moves(r)
  BY <1>3, <1>5, <1>6 DEF Moves
<1>8. /\ pc'[r] = label /\ arg'[r] = b
      /\ \A q \in Requests \ {r} : pc'[q] = pc[q] /\ arg'[q] = arg[q]
  BY <1>6, Goes
<1>9. QED BY <1>1, <1>2, <1>4, <1>7, <1>8

LEMMA InsertedMoves ==
    ASSUME Shape, NEW r \in Requests, pc[r] \in AtReward, Inserted(r)
    PROVE  Moves(r)
<1> PICK l, a : l = pc[r] /\ a = arg[r]
  OBVIOUS
<1>1. l \in WorkLabels /\ LocalsOK(l, a) /\ a \in Args
  BY LocalsTyped DEF AtReward, WorkLabels
<1>2. a.on \in TrackWork /\ a.call = "work" /\ a.todo \in Seq(Rewards) /\ a.todo # <<>>
  BY <1>1, WorkLocals
<1>3. CASE Head(a.todo) = "hours"
  BY <1>1, <1>2, <1>3, Unlist, AwardMoves DEF Inserted
<1>4. CASE Head(a.todo) # "hours"
  BY <1>1, <1>2, <1>4, WorkGoesOn, StepMoves, LabelsApart DEF Inserted, WorkLabels
<1>5. QED BY <1>3, <1>4

LEMMA PatchShape ==
    ASSUME Shape, NEW r \in Requests, Patch(r)
    PROVE  Moves(r) /\ TablesOK'
<1> PICK l, a : l = pc[r] /\ a = arg[r]
  OBVIOUS
<1>1. l = "patch" /\ l \in WorkLabels /\ LocalsOK(l, a) /\ a \in Args
  BY LocalsTyped DEF Patch, WorkLabels
<1>2. LocalsOK("readWork", a) /\ LocalsOK("done", a)
  BY <1>1, WorkLocals, WorkGoesOn
<1>3. Moves(r)
  BY <1>2, StepMoves, LabelsApart DEF Patch, WorkLabels
<1>4. TablesOK'
  BY DEF Patch, TablesOK, Shape, rows
<1>5. QED BY <1>3, <1>4

LEMMA ReadWorkShape ==
    ASSUME Shape, NEW r \in Requests, ReadWork(r)
    PROVE  Moves(r) /\ TablesOK'
<1>1. Moves(r)
  BY OwedLists, AwardMoves DEF ReadWork, WorkLabels
<1>2. QED BY <1>1, RowsKeepTables DEF ReadWork, Shape

LEMMA FindRewardShape ==
    ASSUME Shape, NEW r \in Requests, FindReward(r)
    PROVE  Moves(r) /\ TablesOK'
<1> PICK l, a : l = pc[r] /\ a = arg[r]
  OBVIOUS
<1>1. l = "find" /\ l \in WorkLabels /\ l \in AtReward /\ LocalsOK(l, a) /\ a \in Args
  BY LocalsTyped DEF FindReward, WorkLabels, AtReward
<1>2. LocalsOK("insert", a)
  BY <1>1, WorkLocals, WorkGoesOn
<1>3. Moves(r)
  BY <1>1, <1>2, InsertedMoves, StepMoves, LabelsApart DEF FindReward, WorkLabels
<1>4. QED BY <1>3, RowsKeepTables DEF FindReward, Shape

LEMMA InsertRewardShape ==
    ASSUME Shape, NEW r \in Requests, InsertReward(r)
    PROVE  Moves(r) /\ TablesOK'
<1> PICK l, a : l = pc[r] /\ a = arg[r]
  OBVIOUS
<1>1. l = "insert" /\ l \in WorkLabels /\ l \in AtReward /\ LocalsOK(l, a) /\ a \in Args
  BY LocalsTyped DEF InsertReward, WorkLabels, AtReward
<1>2. a.on \in TrackWork
  BY <1>1, WorkLocals
<1>3. Moves(r)
  BY <1>1, InsertedMoves, ReturnMoves
     DEF InsertReward, InsertWorkImpact, InsertHours, InsertRow, InsertWorkBadge, Throw
<1>4. CASE InsertWorkImpact(r)
  BY <1>2, <1>3, <1>4 DEF InsertReward, InsertWorkImpact, TablesOK, Shape, Sources
<1>5. CASE InsertHours(r)
  BY <1>2, <1>3, <1>5 DEF InsertReward, InsertHours, TablesOK, Shape, rows
<1>6. ASSUME NEW c \in Contributions, InsertRow(r, c)
      PROVE  TablesOK'
  BY <1>2, <1>6 DEF InsertReward, InsertRow, TablesOK, Shape, ContributionStatus
<1>7. CASE InsertWorkBadge(r)
  BY <1>3, <1>7 DEF InsertReward, InsertWorkBadge, TablesOK, Shape, AwardStatus
<1>8. QED BY <1>3, <1>4, <1>5, <1>6, <1>7 DEF InsertReward

LEMMA FlagRewardShape ==
    ASSUME Shape, NEW r \in Requests, FlagReward(r)
    PROVE  Moves(r) /\ TablesOK'
<1> PICK l, a : l = pc[r] /\ a = arg[r]
  OBVIOUS
<1>1. l = "flag" /\ l \in WorkLabels /\ l \in AtReward /\ LocalsOK(l, a) /\ a \in Args
  BY LocalsTyped DEF FlagReward, WorkLabels, AtReward
<1>2. a.on \in TrackWork /\ a.todo \in Seq(Rewards) /\ a.todo # <<>> /\ Head(a.todo) # "hours"
  BY <1>1, WorkLocals DEF LocalsOK
<1>3. Tail(a.todo) \in Seq(Rewards) /\ Head(a.todo) \in Flagged
  BY <1>2, Unlist DEF Rewards, Flagged
<1>4. Moves(r)
  BY <1>1, <1>3, AwardMoves DEF FlagReward
<1>5. TablesOK'
  BY <1>2, <1>3 DEF FlagReward, TablesOK, Shape, rows
<1>6. QED BY <1>4, <1>5

-----------------------------------------------------------------------------
(* Shape: calls, and the whole *)

\* The first labels, and what a call has there.
LEMMA Beginnings ==
    ASSUME NEW a \in Args
    PROVE  /\ a.on \in Contributions /\ a.call = "review" /\ a.decision \in {"approved", "rejected"}
                => LocalsOK("decide", a)
           /\ a.on \in Contributions /\ a.call = "revoke" => LocalsOK("writeRevoked", a)
           /\ a.on \in Contributions /\ a.call = "issue" => LocalsOK("checkSource", a)
           /\ a.call = "award" => LocalsOK("findBadge", a)
           /\ a.on \in TrackWork /\ a.call = "work" => LocalsOK("patch", a)
  BY DEF LocalsOK, Staffed, Scoring, Badging, Proving, WorkLabels, AtReward

\* The locals a call begins with.
Begun(n, c)              == [NoArg EXCEPT !.call = n, !.on = c]
ReviewBegun(c, d, issuer) ==
    [NoArg EXCEPT !.call = "review", !.on = c, !.decision = d, !.issuer = issuer]
WorkBegun(w, d)          == [NoArg EXCEPT !.call = "work", !.on = w, !.decision = d]

LEMMA BeginArgs ==
    ASSUME NEW n \in {"revoke", "award", "issue"}, NEW c \in Contributions \cup {None}
    PROVE  Begun(n, c) \in Args /\ Begun(n, c).call = n /\ Begun(n, c).on = c
<1> DEFINE b == Begun(n, c)
<1>1. NoArg \in Args /\ c \in Sources \cup {None}
  BY NoArgIsArg DEF Sources
<1>2. b \in Args
  BY <1>1 DEF Args, Begun
<1>3. b.call = n /\ b.on = c
  BY <1>1 DEF Args, Begun
<1>4. QED BY <1>2, <1>3

LEMMA ReviewArgs ==
    ASSUME NEW c \in Contributions, NEW d \in {"approved", "rejected"}, NEW issuer \in BOOLEAN
    PROVE  /\ ReviewBegun(c, d, issuer) \in Args /\ ReviewBegun(c, d, issuer).call = "review"
           /\ ReviewBegun(c, d, issuer).on = c /\ ReviewBegun(c, d, issuer).decision = d
<1> DEFINE b == ReviewBegun(c, d, issuer)
<1>1. NoArg \in Args /\ c \in Sources /\ d \in Verdicts
  BY NoArgIsArg DEF Sources, Verdicts
<1>2. b \in Args
  BY <1>1 DEF Args, ReviewBegun
<1>3. b.call = "review" /\ b.on = c /\ b.decision = d
  BY <1>1 DEF Args, ReviewBegun
<1>4. QED BY <1>2, <1>3

LEMMA WorkArgs ==
    ASSUME NEW w \in TrackWork, NEW d \in Decisions
    PROVE  /\ WorkBegun(w, d) \in Args /\ WorkBegun(w, d).call = "work"
           /\ WorkBegun(w, d).on = w /\ WorkBegun(w, d).decision = d
<1> DEFINE b == WorkBegun(w, d)
<1>1. NoArg \in Args /\ w \in Sources /\ d \in Verdicts
  BY NoArgIsArg DEF Sources, Verdicts
<1>2. b \in Args
  BY <1>1 DEF Args, WorkBegun
<1>3. b.call = "work" /\ b.on = w /\ b.decision = d
  BY <1>1 DEF Args, WorkBegun
<1>4. QED BY <1>2, <1>3

LEMMA ReviewShape ==
    ASSUME Shape, NEW r \in Requests, NEW c \in Contributions, NEW d \in {"approved", "rejected"},
           NEW issuer \in BOOLEAN, ReviewContribution(r, c, d, issuer)
    PROVE  /\ Moves(r)
           /\ pc'[r] = "decide" /\ arg'[r].on = c /\ arg'[r].call = "review"
           /\ \A q \in Requests \ {r} : pc'[q] = pc[q] /\ arg'[q] = arg[q]
<1> PICK b : b = ReviewBegun(c, d, issuer)
  OBVIOUS
<1>1. b \in Args /\ b.call = "review" /\ b.on = c /\ b.decision = d
  BY ReviewArgs
<1>2. LocalsOK("decide", b)
  BY <1>1, Beginnings
<1>3. GoTo(r, "decide", b)
  BY DEF ReviewContribution, ReviewBegun
<1>4. Moves(r)
  BY <1>1, <1>2, <1>3, LabelsApart DEF Moves, Staffed
<1>5. QED BY <1>1, <1>3, <1>4, Goes

LEMMA BeginMoves ==
    ASSUME Shape, NEW r \in Requests, NEW label \in Labels, NEW n \in {"revoke", "award", "issue"},
           NEW c \in Contributions \cup {None}, Begin(r, label, n, c),
           \/ label = "writeRevoked" /\ n = "revoke" /\ c \in Contributions
           \/ label = "checkSource" /\ n = "issue" /\ c \in Contributions
           \/ label = "findBadge" /\ n = "award"
    PROVE  /\ Moves(r)
           /\ pc[r] = "idle" /\ pc'[r] = label /\ arg'[r].on = c /\ arg'[r].call = n
           /\ \A q \in Requests \ {r} : pc'[q] = pc[q] /\ arg'[q] = arg[q]
<1> PICK b : b = Begun(n, c)
  OBVIOUS
<1>1. b \in Args /\ b.call = n /\ b.on = c
  BY BeginArgs
<1>2. LocalsOK(label, b)
  BY <1>1, Beginnings
<1>3. GoTo(r, label, b)
  BY DEF Begin, Begun
<1>4. Moves(r)
  BY <1>1, <1>2, <1>3, LabelsApart DEF Moves
<1>5. pc[r] = "idle"
  BY DEF Begin
<1>6. QED BY <1>1, <1>3, <1>4, <1>5, Goes

LEMMA RevokeBegins ==
    ASSUME Shape, NEW r \in Requests, NEW c \in Contributions, RevokeContribution(r, c)
    PROVE  /\ Moves(r)
           /\ pc[r] = "idle" /\ pc'[r] = "writeRevoked" /\ arg'[r].on = c /\ arg'[r].call = "revoke"
           /\ \A q \in Requests \ {r} : pc'[q] = pc[q] /\ arg'[q] = arg[q]
  BY BeginMoves, LabelsApart DEF RevokeContribution

LEMMA IssueBegins ==
    ASSUME Shape, NEW r \in Requests, NEW c \in Contributions, IssueCertificate(r, c)
    PROVE  /\ Moves(r)
           /\ pc[r] = "idle" /\ pc'[r] = "checkSource" /\ arg'[r].on = c /\ arg'[r].call = "issue"
           /\ \A q \in Requests \ {r} : pc'[q] = pc[q] /\ arg'[q] = arg[q]
  BY BeginMoves, LabelsApart DEF IssueCertificate, Proving

LEMMA AwardBegins ==
    ASSUME Shape, NEW r \in Requests, AwardBadge(r)
    PROVE  /\ Moves(r)
           /\ pc[r] = "idle" /\ pc'[r] = "findBadge" /\ arg'[r].on = None /\ arg'[r].call = "award"
           /\ \A q \in Requests \ {r} : pc'[q] = pc[q] /\ arg'[q] = arg[q]
  BY BeginMoves, LabelsApart DEF AwardBadge, Badging

LEMMA WorkBegins ==
    ASSUME Shape, NEW r \in Requests, NEW w \in TrackWork, NEW d \in Decisions,
           ReviewTrackContribution(r, w, d)
    PROVE  /\ Moves(r)
           /\ pc[r] = "idle" /\ pc'[r] = "patch" /\ arg'[r].on = w /\ arg'[r].call = "work"
           /\ \A q \in Requests \ {r} : pc'[q] = pc[q] /\ arg'[q] = arg[q]
<1> PICK b : b = WorkBegun(w, d)
  OBVIOUS
<1>1. b \in Args /\ b.call = "work" /\ b.on = w /\ b.decision = d
  BY WorkArgs
<1>2. LocalsOK("patch", b)
  BY <1>1, Beginnings
<1>3. GoTo(r, "patch", b)
  BY DEF ReviewTrackContribution, WorkBegun
<1>4. Moves(r)
  BY <1>1, <1>2, <1>3, LabelsApart DEF Moves, WorkLabels
<1>5. pc[r] = "idle"
  BY DEF ReviewTrackContribution
<1>6. QED BY <1>1, <1>3, <1>4, <1>5, Goes

\* The calls of one statement.
OneStatement(r) ==
    \/ \E c \in Contributions : SubmitContribution(r, c) \/ RevokeCertificate(r, c)
    \/ \E w \in {1, 2} : UpdateImpactWeight(r, w)
    \/ RevokeBadge(r)
    \/ \E w \in TrackWork, status \in {"draft", "submitted"} : CreateTrackContribution(r, w, status)

\* The calls of several.
Begins(r) ==
    \/ \E c \in Contributions :
          \/ \E d \in {"approved", "rejected"}, issuer \in BOOLEAN :
                ReviewContribution(r, c, d, issuer)
          \/ RevokeContribution(r, c)
          \/ IssueCertificate(r, c)
    \/ AwardBadge(r)
    \/ \E w \in TrackWork, d \in Decisions : ReviewTrackContribution(r, w, d)

LEMMA CallKinds ==
    ASSUME NEW r \in Requests, Call(r)
    PROVE  \/ Begins(r) /\ UNCHANGED <<rows, workRows>>
           \/ OneStatement(r) /\ (UNCHANGED workRows \/ UNCHANGED <<rows, flags, entries>>)
<1>1. CASE RecognitionCalls(r) /\ UNCHANGED workRows
  <2>1. CASE AwardBadge(r)
    BY <1>1, <2>1, Zenon DEF Begins, AwardBadge, rows
  <2>2. CASE RevokeBadge(r)
    BY <1>1, <2>2, Zenon DEF OneStatement
  <2>3. ASSUME NEW w \in {1, 2}, UpdateImpactWeight(r, w)
        PROVE  OneStatement(r)
    BY <2>3, Zenon DEF OneStatement
  <2>4. ASSUME NEW c \in Contributions, SubmitContribution(r, c) \/ RevokeCertificate(r, c)
        PROVE  OneStatement(r)
    BY <2>4, Zenon DEF OneStatement
  <2>5. ASSUME NEW c \in Contributions, RevokeContribution(r, c) \/ IssueCertificate(r, c)
        PROVE  Begins(r) /\ UNCHANGED rows
    BY <2>5, Zenon DEF Begins, RevokeContribution, IssueCertificate
  <2>6. ASSUME NEW c \in Contributions, NEW d \in {"approved", "rejected"}, NEW issuer \in BOOLEAN,
               ReviewContribution(r, c, d, issuer)
        PROVE  Begins(r) /\ UNCHANGED rows
    BY <2>6, Zenon DEF Begins, ReviewContribution
  <2>7. QED BY <1>1, <2>1, <2>2, <2>3, <2>4, <2>5, <2>6 DEF RecognitionCalls
<1>2. ASSUME NEW w \in TrackWork, NEW status \in {"draft", "submitted"},
             CreateTrackContribution(r, w, status)
      PROVE  OneStatement(r) /\ UNCHANGED <<rows, flags, entries>>
  BY <1>2, Zenon DEF OneStatement, CreateTrackContribution
<1>3. ASSUME NEW w \in TrackWork, NEW d \in Decisions, ReviewTrackContribution(r, w, d)
      PROVE  Begins(r) /\ UNCHANGED <<rows, workRows>>
  BY <1>3, Zenon DEF Begins, ReviewTrackContribution
<1>4. QED BY <1>1, <1>2, <1>3 DEF Call

LEMMA BeginsShape ==
    ASSUME Shape, NEW r \in Requests, Begins(r)
    PROVE  Moves(r)
  BY ReviewShape, RevokeBegins, IssueBegins, AwardBegins, WorkBegins DEF Begins

LEMMA OneStatementShape ==
    ASSUME Shape, NEW r \in Requests, OneStatement(r),
           UNCHANGED workRows \/ UNCHANGED <<rows, flags, entries>>
    PROVE  Once(r) /\ TablesOK'
<1>1. ASSUME NEW c \in Contributions, SubmitContribution(r, c)
      PROVE  Once(r) /\ TablesOK'
  BY <1>1 DEF SubmitContribution, TablesOK, Shape, ContributionStatus, workRows, rows
<1>2. ASSUME NEW c \in Contributions, RevokeCertificate(r, c)
      PROVE  Once(r) /\ TablesOK'
  BY <1>2 DEF RevokeCertificate, TablesOK, Shape, CertificateStatus, workRows, rows
<1>3. ASSUME NEW w \in {1, 2}, UpdateImpactWeight(r, w)
      PROVE  Once(r) /\ TablesOK'
  BY <1>3 DEF UpdateImpactWeight, TablesOK, Shape, workRows, rows
<1>4. CASE RevokeBadge(r)
  BY <1>4 DEF RevokeBadge, TablesOK, Shape, AwardStatus, workRows, rows
<1>5. ASSUME NEW w \in TrackWork, NEW status \in {"draft", "submitted"},
             CreateTrackContribution(r, w, status)
      PROVE  Once(r) /\ TablesOK'
  BY <1>1, <1>2, <1>5 DEF CreateTrackContribution, TablesOK, Shape, rows
<1>6. QED BY <1>1, <1>2, <1>3, <1>4, <1>5 DEF OneStatement

LEMMA CallShape ==
    ASSUME Shape, NEW r \in Requests, Call(r)
    PROVE  (Moves(r) \/ Once(r)) /\ TablesOK'
<1>1. CASE Begins(r) /\ UNCHANGED <<rows, workRows>>
  BY <1>1, BeginsShape, RowsKeepTables DEF Shape
<1>2. CASE OneStatement(r) /\ (UNCHANGED workRows \/ UNCHANGED <<rows, flags, entries>>)
  BY <1>2, OneStatementShape
<1>3. QED BY <1>1, <1>2, CallKinds

LEMMA ContinueShape ==
    ASSUME Shape, NEW r \in Requests, Continue(r)
    PROVE  Moves(r) /\ TablesOK'
<1>1. CASE RecognitionSteps(r) /\ UNCHANGED workRows
  BY <1>1, DecideShape, InsertImpactShape, WriteRevokedShape, RevokeImpactShape, ReadEventsShape,
     ReadRulesShape, WriteScoreShape, EvaluateShape, BadgeShape, MilestoneShape, CertificateShape,
     FinishShape
     DEF RecognitionSteps
<1>2. QED BY <1>1, PatchShape, ReadWorkShape, FindRewardShape, InsertRewardShape, FlagRewardShape,
             FinishShape
             DEF Continue

LEMMA HoursChangeShape ==
    ASSUME Shape, HoursChange, quiet' = {}, UNCHANGED workRows
    PROVE  Shape'
<1>1. TablesOK' /\ pc' = pc /\ arg' = arg
  BY DEF HoursChange, TablesOK, Shape, callVars, workRows
<1>2. QED BY <1>1 DEF Shape, LocalsOK

LEMMA NextShape == Shape /\ [Next]_vars => Shape'
<1> SUFFICES ASSUME Shape, [Next]_vars PROVE Shape'
  OBVIOUS
<1>1. CASE UNCHANGED vars
  <2>1. TablesOK' /\ pc' = pc /\ arg' = arg /\ quiet' = quiet
    BY <1>1, RowsKeepTables DEF vars, callVars, Shape
  <2>2. QED BY <2>1 DEF Shape, LocalsOK
<1>2. ASSUME NEW r \in Requests, Call(r) \/ Continue(r), Observe(r)
      PROVE  Shape'
  BY <1>2, CallShape, ContinueShape, MoveShape
<1>3. QED BY <1>1, <1>2, HoursChangeShape DEF Next

LEMMA InitShape == InitTrackRewards => Shape
<1> SUFFICES ASSUME InitTrackRewards PROVE Shape
  OBVIOUS
<1>1. TablesOK
  BY DEF InitTrackRewards, Init, TablesOK, ContributionStatus, AwardStatus, CertificateStatus
<1>2. QED BY <1>1, NoArgIsArg DEF InitTrackRewards, Init, Shape

-----------------------------------------------------------------------------
(* Following: impact follows the status *)

\* The other calls stay where they are.
Alone(r) == \A q \in Requests \ {r} : pc'[q] = pc[q] /\ arg'[q] = arg[q]

\* A step of r that has nothing to do with c, and one of the only call on c.
Elsewhere(r, c) ==
    /\ Alone(r)
    /\ contribution'[c] = contribution[c] /\ live'[c] = live[c]
    /\ ~At(r, c) /\ ~At(r, c)'

Mine(r, c) ==
    /\ Alone(r)
    /\ \A q \in Requests \ {r} : ~At(q, c)
    /\ At(r, c)' => StageOK(pc[r], c)'
    /\ ~At(r, c)' => live'[c] = IF contribution'[c] = "approved" THEN 1 ELSE 0

Kept(r) ==
    \A c \in Contributions \ torn' :
        origin'[c] = None =>
            origin[c] = None /\ (Follows(c) => Elsewhere(r, c) \/ Mine(r, c))

LEMMA FollowsElsewhere ==
    ASSUME Shape, NEW r \in Requests, NEW c \in Contributions, Follows(c), Elsewhere(r, c)
    PROVE  Follows(c)'
<1>1. \A q \in Requests : At(q, c)' <=> At(q, c)
  BY DEF Elsewhere, Alone, At
<1>2. \A q \in Requests : At(q, c) => pc'[q] = pc[q]
  BY DEF Elsewhere, Alone, At
<1>3. Working(c)' <=> Working(c)
  BY <1>1 DEF Working, At
<1>4. \A p, q \in Requests : At(p, c)' /\ At(q, c)' => p = q
  BY <1>1 DEF Follows
<1>5. ASSUME NEW p \in Requests, At(p, c)'
      PROVE  StageOK(pc[p], c)'
  <2>1. StageOK(pc[p], c) /\ pc'[p] = pc[p]
    BY <1>1, <1>2, <1>5 DEF Follows
  <2>2. QED BY <2>1 DEF StageOK, Elsewhere
<1>6. ~Working(c)' => live'[c] = IF contribution'[c] = "approved" THEN 1 ELSE 0
  BY <1>3 DEF Follows, Elsewhere
<1>7. QED BY <1>4, <1>5, <1>6 DEF Follows

LEMMA FollowsMine ==
    ASSUME Shape, NEW r \in Requests, NEW c \in Contributions, Mine(r, c)
    PROVE  Follows(c)'
<1>1. \A q \in Requests : At(q, c)' => q = r
  BY DEF Mine, Alone, At
<1>2. At(r, c)' => Working(c)'
  BY DEF Working, At
<1>3. QED BY <1>1, <1>2 DEF Follows, Mine

LEMMA FollowingKept ==
    ASSUME Shape, Following, NEW r \in Requests, Kept(r), Tear(r)
    PROVE  Following'
<1> SUFFICES ASSUME NEW c \in Contributions \ torn', origin'[c] = None
             PROVE  Follows(c)'
  BY DEF Following
<1>1. c \in Contributions \ torn
  BY DEF Tear
<1>2. Follows(c) /\ (Elsewhere(r, c) \/ Mine(r, c))
  BY <1>1 DEF Kept, Following
<1>3. QED BY <1>2, FollowsElsewhere, FollowsMine

LEMMA MovesAlone ==
    ASSUME Shape, NEW r \in Requests, Moves(r) \/ Once(r)
    PROVE  Alone(r)
<1>1. CASE Once(r)
  BY <1>1 DEF Once, callVars, Alone
<1>2. CASE Moves(r)
  BY <1>2, Goes DEF Moves, Alone
<1>3. QED BY <1>1, <1>2

\* A step between places where no status and no impact is written.
Aside(r) ==
    /\ Alone(r)
    /\ pc[r] \notin WorkingAt /\ pc'[r] \notin WorkingAt
    /\ \A c \in Contributions :
          origin'[c] = None =>
              /\ origin[c] = None
              /\ contribution'[c] = contribution[c] /\ live'[c] = live[c]

LEMMA AsideKept ==
    ASSUME NEW r \in Requests, Aside(r)
    PROVE  Kept(r)
  BY DEF Aside, Kept, Elsewhere, At

LEMMA ScoringAside ==
    ASSUME Shape, NEW r \in Requests, ReadEvents(r) \/ ReadRules(r) \/ WriteScore(r), UNCHANGED workRows
    PROVE  Aside(r)
<1>1. Alone(r)
  BY ReadEventsShape, ReadRulesShape, WriteScoreShape, MovesAlone
<1>2. UNCHANGED <<contribution, origin, live>>
  BY DEF ReadEvents, ReadRules, WriteScore, rows
<1>3. pc[r] \in Scoring /\ pc'[r] \in {"readRules", "writeScore", "evaluate", "done"}
  BY DEF ReadEvents, ReadRules, WriteScore, GoTo, Shape, Scoring
<1>4. QED BY <1>1, <1>2, <1>3 DEF Aside, WorkingAt, Scoring

LEMMA BadgeAside ==
    ASSUME Shape, NEW r \in Requests, Evaluate(r) \/ FindBadge(r) \/ InsertBadge(r), UNCHANGED workRows
    PROVE  Aside(r)
<1>1. Alone(r)
  BY EvaluateShape, BadgeShape, MovesAlone
<1>2. UNCHANGED <<contribution, origin, live>>
  BY DEF Evaluate, FindBadge, InsertBadge, rows
<1>3. /\ pc[r] \in {"evaluate", "findBadge", "insertBadge"}
      /\ pc'[r] \in {"findBadge", "insertBadge", "findMilestone", "done", "idle"}
  BY DEF Evaluate, FindBadge, InsertBadge, BadgeDone, GoTo, Step, Throw, Return, Shape
<1>4. QED BY <1>1, <1>2, <1>3 DEF Aside, WorkingAt

LEMMA MilestoneAside ==
    ASSUME Shape, NEW r \in Requests, FindMilestone(r) \/ InsertMilestone(r), UNCHANGED workRows
    PROVE  Aside(r)
<1>1. Alone(r)
  BY MilestoneShape, MovesAlone
<1>2. UNCHANGED <<contribution, origin, live>>
  BY DEF FindMilestone, InsertMilestone, rows
<1>3. /\ pc[r] \in {"findMilestone", "insertMilestone"}
      /\ pc'[r] \in {"insertMilestone", "checkSource", "done", "idle"}
  BY DEF FindMilestone, InsertMilestone, Evaluated, GoTo, Step, Throw, Return, Shape
<1>4. QED BY <1>1, <1>2, <1>3 DEF Aside, WorkingAt

LEMMA CertificateAside ==
    ASSUME Shape, NEW r \in Requests, UNCHANGED workRows,
           CheckSource(r) \/ FindCertificate(r) \/ InsertCertificate(r) \/ Finish(r)
    PROVE  Aside(r)
<1>1. Alone(r)
  BY CertificateShape, FinishShape, MovesAlone
<1>2. UNCHANGED <<contribution, origin, live>>
  BY DEF CheckSource, FindCertificate, InsertCertificate, Finish, rows
<1>3. /\ pc[r] \in Proving \cup {"done"}
      /\ pc'[r] \in {"findCertificate", "insertCertificate", "done", "idle"}
  BY DEF CheckSource, FindCertificate, InsertCertificate, Finish, Proving,
         GoTo, Step, Throw, Return, Shape
<1>4. QED BY <1>1, <1>2, <1>3 DEF Aside, WorkingAt, Proving

LEMMA WorkGoes ==
    ASSUME Shape, NEW r \in Requests,
           Patch(r) \/ ReadWork(r) \/ FindReward(r) \/ InsertReward(r) \/ FlagReward(r)
    PROVE  /\ Alone(r)
           /\ pc[r] \in WorkLabels /\ pc'[r] \in WorkLabels \cup {"done", "idle"}
<1>1. Alone(r)
  BY PatchShape, ReadWorkShape, FindRewardShape, InsertRewardShape, FlagRewardShape, MovesAlone
<1>2. pc[r] \in WorkLabels
  BY DEF Patch, ReadWork, FindReward, InsertReward, FlagReward, WorkLabels
<1>3. ASSUME NEW todo, Award(r, todo)
      PROVE  pc'[r] \in {"done", "find", "insert"}
  BY <1>3 DEF Award, FirstStep, GoTo, Shape
<1>4. ASSUME Inserted(r)
      PROVE  pc'[r] \in {"done", "find", "insert", "flag"}
  BY <1>3, <1>4 DEF Inserted, Step, GoTo, Shape
<1>5. CASE Patch(r)
  BY <1>1, <1>2, <1>5 DEF Patch, Step, GoTo, Shape, WorkLabels
<1>6. CASE ReadWork(r) \/ FlagReward(r)
  BY <1>1, <1>2, <1>3, <1>6 DEF ReadWork, FlagReward, WorkLabels
<1>7. CASE FindReward(r)
  BY <1>1, <1>2, <1>4, <1>7 DEF FindReward, Step, GoTo, Shape, WorkLabels
<1>8. CASE InsertReward(r)
  BY <1>1, <1>2, <1>4, <1>8 DEF InsertReward, InsertWorkImpact, InsertHours, InsertRow, InsertWorkBadge,
                    Throw, Return, GoTo, Shape, WorkLabels
<1>9. QED BY <1>5, <1>6, <1>7, <1>8

LEMMA WorkAside ==
    ASSUME Shape, NEW r \in Requests,
           Patch(r) \/ ReadWork(r) \/ FindReward(r) \/ InsertReward(r) \/ FlagReward(r)
    PROVE  Aside(r)
<1> PICK l, a : l = pc[r] /\ a = arg[r]
  OBVIOUS
<1>1. Alone(r) /\ l \in WorkLabels /\ pc'[r] \in WorkLabels \cup {"done", "idle"}
  BY WorkGoes
<1>2. a.on \in TrackWork /\ a.on # None /\ a.on \notin Contributions
  BY <1>1, LocalsTyped, WorkLocals, NoneIsNoRow, RowsApart
<1>3. WorkingAt \cap (WorkLabels \cup {"done", "idle"}) = {}
  BY DEF WorkingAt, WorkLabels
<1>4. ASSUME NEW c \in Contributions, origin'[c] = None
      PROVE  origin[c] = None /\ contribution'[c] = contribution[c] /\ live'[c] = live[c]
  <2>1. CASE UNCHANGED rows
    BY <1>4, <2>1 DEF rows
  <2>2. CASE InsertWorkImpact(r)
    BY <1>2, <1>4, <2>2 DEF InsertWorkImpact, Shape, TablesOK, Sources
  <2>3. CASE InsertWorkBadge(r)
    BY <1>4, <2>3 DEF InsertWorkBadge
  <2>4. ASSUME NEW d \in Contributions, InsertRow(r, d)
        PROVE  origin[c] = None /\ contribution'[c] = contribution[c] /\ live'[c] = live[c]
    <3>1. /\ origin' = [origin EXCEPT ![d] = a.on]
          /\ contribution' = [contribution EXCEPT ![d] = "approved"] /\ live' = live
      BY <2>4 DEF InsertRow
    <3>2. c # d
      BY <1>2, <1>4, <3>1 DEF Shape, TablesOK
    <3>3. QED BY <1>4, <3>1, <3>2 DEF Shape, TablesOK
  <2>5. QED BY <2>1, <2>2, <2>3, <2>4
            DEF Patch, ReadWork, FindReward, InsertReward, FlagReward, InsertHours
<1>5. QED BY <1>1, <1>3, <1>4 DEF Aside

LEMMA DecideKept ==
    ASSUME Shape, NEW r \in Requests, Decide(r), UNCHANGED workRows
    PROVE  Kept(r)
<1> PICK l, a : l = pc[r] /\ a = arg[r]
  OBVIOUS
<1>1. l = "decide" /\ LocalsOK(l, a) /\ a \in Args /\ UNCHANGED <<origin, live>>
  BY LocalsTyped DEF Decide
<1>2. a.on \in Contributions /\ a.decision \in {"approved", "rejected"}
  BY <1>1 DEF LocalsOK, Staffed
<1>3. Alone(r) /\ contribution' = [contribution EXCEPT ![a.on] = a.decision]
  BY DecideShape, MovesAlone DEF Decide
<1>4. arg'[r] = a /\ pc'[r] = IF a.decision = "approved" THEN "impact" ELSE "done"
  BY DEF Decide, Step, GoTo, Shape
<1>5. ASSUME NEW c \in Contributions, Follows(c), c = a.on
      PROVE  Mine(r, c)
  <2>1. At(r, c) /\ live[c] = 0
    BY <1>1, <1>5 DEF At, WorkingAt, Follows, StageOK
  <2>2. \A q \in Requests \ {r} : ~At(q, c)
    BY <1>5, <2>1 DEF Follows
  <2>3. contribution'[c] = a.decision /\ live'[c] = 0
    BY <1>1, <1>3, <1>5, <2>1 DEF Shape, TablesOK
  <2>4. CASE a.decision = "approved"
    BY <1>3, <1>4, <1>5, <2>2, <2>3, <2>4 DEF Mine, At, WorkingAt, StageOK
  <2>5. CASE a.decision # "approved"
    BY <1>3, <1>4, <1>5, <2>2, <2>3, <2>5 DEF Mine, At, WorkingAt
  <2>6. QED BY <2>4, <2>5
<1>6. ASSUME NEW c \in Contributions, c # a.on
      PROVE  Elsewhere(r, c)
  BY <1>1, <1>2, <1>3, <1>4, <1>6 DEF Elsewhere, At, Shape, TablesOK
<1>7. QED BY <1>1, <1>5, <1>6 DEF Kept

LEMMA WriteRevokedKept ==
    ASSUME Shape, NEW r \in Requests, WriteRevoked(r), UNCHANGED workRows
    PROVE  Kept(r)
<1> PICK l, a : l = pc[r] /\ a = arg[r]
  OBVIOUS
<1>1. l = "writeRevoked" /\ LocalsOK(l, a) /\ a \in Args /\ UNCHANGED <<origin, live>>
  BY LocalsTyped DEF WriteRevoked
<1>2. a.on \in Contributions
  BY <1>1 DEF LocalsOK
<1>3. Alone(r) /\ contribution' = [contribution EXCEPT ![a.on] = "revoked"]
  BY WriteRevokedShape, MovesAlone DEF WriteRevoked
<1>4. arg'[r] = a /\ pc'[r] = "revokeImpact"
  BY DEF WriteRevoked, Step, GoTo, Shape
<1>5. ASSUME NEW c \in Contributions, Follows(c), c = a.on
      PROVE  Mine(r, c)
  <2>1. At(r, c) /\ live[c] = 1
    BY <1>1, <1>5 DEF At, WorkingAt, Follows, StageOK
  <2>2. \A q \in Requests \ {r} : ~At(q, c)
    BY <1>5, <2>1 DEF Follows
  <2>3. contribution'[c] = "revoked" /\ live'[c] = 1
    BY <1>1, <1>3, <1>5, <2>1 DEF Shape, TablesOK
  <2>4. QED BY <1>3, <1>4, <1>5, <2>2, <2>3 DEF Mine, At, WorkingAt, StageOK
<1>6. ASSUME NEW c \in Contributions, c # a.on
      PROVE  Elsewhere(r, c)
  BY <1>1, <1>2, <1>3, <1>4, <1>6 DEF Elsewhere, At, Shape, TablesOK
<1>7. QED BY <1>1, <1>5, <1>6 DEF Kept

LEMMA ImpactKept ==
    ASSUME Shape, NEW r \in Requests, InsertImpact(r) \/ RevokeImpact(r), UNCHANGED workRows
    PROVE  Kept(r)
<1> PICK l, a : l = pc[r] /\ a = arg[r]
  OBVIOUS
<1>1. /\ l \in {"impact", "revokeImpact"} /\ LocalsOK(l, a) /\ a \in Args
      /\ UNCHANGED <<origin, contribution>>
  BY LocalsTyped DEF InsertImpact, RevokeImpact
<1>2. a.on \in Contributions /\ a.on \in Sources
  BY <1>1 DEF LocalsOK, Staffed, Sources
<1>3. Alone(r)
  BY InsertImpactShape, RevokeImpactShape, MovesAlone
<1>4. live' = [live EXCEPT ![a.on] = IF l = "impact" THEN live[a.on] + 1 ELSE 0]
  BY <1>2 DEF InsertImpact, RevokeImpact, Shape, TablesOK
<1>5. arg'[r] = a /\ pc'[r] = "readEvents"
  BY DEF InsertImpact, RevokeImpact, Step, GoTo, Shape
<1>6. ASSUME NEW c \in Contributions, Follows(c), c = a.on
      PROVE  Mine(r, c)
  <2>1. At(r, c) /\ StageOK(l, c)
    BY <1>1, <1>6 DEF At, WorkingAt, Follows
  <2>2. \A q \in Requests \ {r} : ~At(q, c)
    BY <1>6, <2>1 DEF Follows
  <2>3. live'[c] = IF l = "impact" THEN live[c] + 1 ELSE 0
    BY <1>2, <1>4, <1>6 DEF Shape, TablesOK
  <2>4. live'[c] = IF contribution'[c] = "approved" THEN 1 ELSE 0
    BY <1>1, <2>1, <2>3 DEF StageOK
  <2>5. QED BY <1>3, <1>5, <2>2, <2>4 DEF Mine, At, WorkingAt
<1>7. ASSUME NEW c \in Contributions, c # a.on
      PROVE  Elsewhere(r, c)
  BY <1>1, <1>2, <1>3, <1>4, <1>5, <1>7 DEF Elsewhere, At, Shape, TablesOK, Sources
<1>8. QED BY <1>1, <1>6, <1>7 DEF Kept

\* What a contribution that is not torn says of the step.
LEMMA NotTorn ==
    ASSUME NEW r \in Requests, NEW c \in Contributions \ torn', Tear(r)
    PROVE  /\ c \notin torn
           /\ pc[r] = "idle" /\ arg'[r].on = c /\ arg'[r].call \in {"review", "revoke"} => ~Working(c)
           /\ At(r, c) => pc'[r] # "idle"
  BY DEF Tear, At

LEMMA NobodyWorks ==
    ASSUME NEW c, ~Working(c)
    PROVE  \A q \in Requests : ~At(q, c)
  BY DEF Working, At

LEMMA ReviewKept ==
    ASSUME Shape, NEW r \in Requests, NEW d \in Contributions, NEW e \in {"approved", "rejected"},
           NEW issuer \in BOOLEAN, ReviewContribution(r, d, e, issuer), Tear(r)
    PROVE  Kept(r)
<1>1. /\ Alone(r) /\ UNCHANGED <<origin, live, contribution>>
      /\ pc[r] = "idle" /\ contribution[d] = "submitted"
      /\ pc'[r] = "decide" /\ arg'[r].on = d /\ arg'[r].call = "review"
  BY ReviewShape DEF ReviewContribution, rows, Alone
<1>2. ASSUME NEW c \in Contributions \ torn', Follows(c), c = d
      PROVE  Mine(r, c)
  <2>1. ~Working(c)
    BY <1>1, <1>2, NotTorn
  <2>2. \A q \in Requests \ {r} : ~At(q, c)
    BY <2>1, NobodyWorks
  <2>3. live[c] = 0 /\ contribution[c] = "submitted"
    BY <1>1, <1>2, <2>1 DEF Follows
  <2>4. QED BY <1>1, <1>2, <2>2, <2>3 DEF Mine, At, WorkingAt, StageOK
<1>3. ASSUME NEW c \in Contributions, c # d
      PROVE  Elsewhere(r, c)
  BY <1>1, <1>3 DEF Elsewhere, At, WorkingAt
<1>4. QED BY <1>1, <1>2, <1>3 DEF Kept

LEMMA RevokeKept ==
    ASSUME Shape, NEW r \in Requests, NEW d \in Contributions, RevokeContribution(r, d), Tear(r)
    PROVE  Kept(r)
<1>1. /\ Alone(r) /\ UNCHANGED <<origin, live, contribution>>
      /\ pc[r] = "idle" /\ contribution[d] = "approved"
      /\ pc'[r] = "writeRevoked" /\ arg'[r].on = d /\ arg'[r].call = "revoke"
  BY RevokeBegins DEF RevokeContribution, rows, Alone
<1>2. ASSUME NEW c \in Contributions \ torn', Follows(c), c = d
      PROVE  Mine(r, c)
  <2>1. ~Working(c)
    BY <1>1, <1>2, NotTorn
  <2>2. \A q \in Requests \ {r} : ~At(q, c)
    BY <2>1, NobodyWorks
  <2>3. live[c] = 1 /\ contribution[c] = "approved"
    BY <1>1, <1>2, <2>1 DEF Follows
  <2>4. QED BY <1>1, <1>2, <2>2, <2>3 DEF Mine, At, WorkingAt, StageOK
<1>3. ASSUME NEW c \in Contributions, c # d
      PROVE  Elsewhere(r, c)
  BY <1>1, <1>3 DEF Elsewhere, At, WorkingAt
<1>4. QED BY <1>1, <1>2, <1>3 DEF Kept

LEMMA BeginsKept ==
    ASSUME Shape, NEW r \in Requests, Begins(r), UNCHANGED <<rows, workRows>>, Tear(r)
    PROVE  Kept(r)
<1>1. ASSUME pc[r] = "idle", pc'[r] \in {"checkSource", "findBadge", "patch"}, Alone(r)
      PROVE  Kept(r)
  BY <1>1, AsideKept DEF Aside, WorkingAt, rows
<1>2. ASSUME NEW c \in Contributions, IssueCertificate(r, c)
      PROVE  Kept(r)
  BY <1>1, <1>2, IssueBegins DEF Alone
<1>3. CASE AwardBadge(r)
  BY <1>1, <1>3, AwardBegins DEF Alone
<1>4. ASSUME NEW w \in TrackWork, NEW d \in Decisions, ReviewTrackContribution(r, w, d)
      PROVE  Kept(r)
  BY <1>1, <1>4, WorkBegins DEF Alone
<1>5. QED BY <1>2, <1>3, <1>4, ReviewKept, RevokeKept DEF Begins

LEMMA SubmitKept ==
    ASSUME Shape, NEW r \in Requests, NEW d \in Contributions, SubmitContribution(r, d)
    PROVE  Kept(r)
<1>1. /\ Alone(r) /\ UNCHANGED <<origin, live, pc, arg>> /\ pc[r] = "idle"
      /\ contribution[d] = "none" /\ contribution' = [contribution EXCEPT ![d] = "submitted"]
  BY DEF SubmitContribution, Once, callVars, Alone
<1>2. ASSUME NEW c \in Contributions, Follows(c), c = d
      PROVE  Mine(r, c)
  <2>1. \A q \in Requests : ~At(q, c)
    BY <1>1, <1>2 DEF Follows, StageOK, At, WorkingAt
  <2>2. ~Working(c)
    BY <2>1 DEF Working, At
  <2>3. live[c] = 0 /\ contribution'[c] = "submitted"
    BY <1>1, <1>2, <2>2 DEF Follows, Shape, TablesOK
  <2>4. QED BY <1>1, <2>1, <2>3 DEF Mine, At
<1>3. ASSUME NEW c \in Contributions, c # d
      PROVE  Elsewhere(r, c)
  BY <1>1, <1>3 DEF Elsewhere, At, WorkingAt, Shape, TablesOK
<1>4. QED BY <1>1, <1>2, <1>3 DEF Kept

LEMMA OneStatementKept ==
    ASSUME Shape, NEW r \in Requests, OneStatement(r),
           UNCHANGED workRows \/ UNCHANGED <<rows, flags, entries>>
    PROVE  Kept(r)
<1>1. CASE UNCHANGED <<contribution, origin, live>>
  <2>1. Once(r) /\ Alone(r)
    BY OneStatementShape, MovesAlone
  <2>2. QED BY <1>1, <2>1, AsideKept DEF Aside, Once, callVars, WorkingAt
<1>2. CASE \E c \in Contributions : SubmitContribution(r, c)
  BY <1>2, SubmitKept
<1>3. QED BY <1>1, <1>2 DEF OneStatement, RevokeCertificate, UpdateImpactWeight, RevokeBadge,
                         CreateTrackContribution, rows

LEMMA CallKept ==
    ASSUME Shape, NEW r \in Requests, Call(r), Tear(r)
    PROVE  Kept(r)
  BY CallKinds, BeginsKept, OneStatementKept

LEMMA CrashKept ==
    ASSUME Shape, NEW r \in Requests, Crash(r), Tear(r), UNCHANGED workRows
    PROVE  Kept(r)
<1>1. Alone(r) /\ UNCHANGED <<origin, live, contribution>>
  BY FinishShape, MovesAlone DEF Crash, rows
<1>2. pc'[r] = "idle"
  BY DEF Crash, Return, GoTo, Shape
<1>3. ASSUME NEW c \in Contributions \ torn'
      PROVE  Elsewhere(r, c)
  <2>1. ~At(r, c)
    BY <1>2, NotTorn
  <2>2. ~At(r, c)'
    BY <1>2 DEF At, WorkingAt
  <2>3. QED BY <1>1, <2>1, <2>2 DEF Elsewhere
<1>4. QED BY <1>1, <1>3 DEF Kept

LEMMA ContinueKept ==
    ASSUME Shape, NEW r \in Requests, Continue(r), Tear(r)
    PROVE  Kept(r)
<1>1. CASE RecognitionSteps(r) /\ UNCHANGED workRows
  BY <1>1, DecideKept, WriteRevokedKept, ImpactKept, ScoringAside, BadgeAside, MilestoneAside,
     CertificateAside, AsideKept
     DEF RecognitionSteps
<1>2. QED BY <1>1, WorkAside, AsideKept, CrashKept DEF Continue

LEMMA NextFollowing == Shape /\ Following /\ [Next]_vars => Following'
<1> SUFFICES ASSUME Shape, Following, [Next]_vars PROVE Following'
  OBVIOUS
<1>1. CASE UNCHANGED <<contribution, origin, live, pc, arg, torn>>
  BY <1>1 DEF Following, Follows, At, StageOK, Working
<1>2. ASSUME NEW r \in Requests, Call(r) \/ Continue(r), Tear(r)
      PROVE  Following'
  BY <1>2, CallKept, ContinueKept, FollowingKept
<1>3. QED BY <1>1, <1>2 DEF Next, HoursChange, callVars, vars, rows

LEMMA InitFollowing == InitTrackRewards => Following
  BY DEF InitTrackRewards, Init, Following, Follows, At, StageOK, Working, WorkingAt, Sources

\* IMPACT_SCORE.md: while the calls on it neither overlap nor die, a contribution
\* has one live event when approved and none when not, for any number of
\* contributions, of calls on others, and of crashes.
THEOREM ImpactFollows == Spec => []ImpactFollowsStatus
<1>1. Shape /\ Following => ImpactFollowsStatus
  BY DEF Following, Follows, ImpactFollowsStatus
<1>2. Spec => [](Shape /\ Following)
  <2>1. InitTrackRewards => Shape /\ Following
    BY InitShape, InitFollowing
  <2>2. Shape /\ Following /\ [Next]_vars => (Shape /\ Following)'
    BY NextShape, NextFollowing
  <2>3. QED BY <2>1, <2>2, PTL DEF Spec
<1>3. QED BY <1>1, <1>2, PTL

-----------------------------------------------------------------------------
(* Backing: no flag comes before its reward *)

\* What is made is never unmade.
RewardsStay ==
    /\ \A w \in TrackWork : live[w] > 0 => live'[w] > 0
    /\ \A c \in Contributions : origin[c] # None => origin'[c] = origin[c]
    /\ badge # "none" => badge' # "none"

FlagsBacked ==
    \A w \in TrackWork : \A reward \in flags'[w] : reward \in flags[w] \/ Backed(reward, w)

Flagging(r) ==
    pc'[r] = "flag" =>
        \E reward, w : /\ reward = Head(arg'[r].todo) /\ w = arg'[r].on
                       /\ Backed(reward, w)'

BackKept(r) == RewardsStay /\ MadeRows' /\ FlagsBacked /\ Flagging(r)

LEMMA BackedStays ==
    ASSUME RewardsStay, NEW reward, NEW w \in TrackWork, Backed(reward, w)
    PROVE  Backed(reward, w)'
<1>1. reward = "impact" => live'[w] > 0
  BY DEF RewardsStay, Backed
<1>2. reward = "badge" => badge' # "none"
  BY DEF RewardsStay, Backed
<1>3. reward = "row" => \E c \in Contributions : origin'[c] = w
  BY NoneIsNoRow DEF RewardsStay, Backed
<1>4. QED BY <1>1, <1>2, <1>3 DEF Backed

LEMMA BackingKept ==
    ASSUME Shape, Backing, NEW r \in Requests, Alone(r), BackKept(r)
    PROVE  Backing'
<1>1. \A w \in TrackWork : \A reward \in flags'[w] : Backed(reward, w)'
  BY BackedStays DEF BackKept, FlagsBacked, Backing
<1>2. ASSUME NEW q \in Requests, pc'[q] = "flag"
      PROVE  \E reward, w : /\ reward = Head(arg'[q].todo) /\ w = arg'[q].on
                            /\ Backed(reward, w)'
  <2>1. CASE q = r
    BY <1>2, <2>1 DEF BackKept, Flagging
  <2>2. CASE q # r
    <3> PICK l, a : l = pc[q] /\ a = arg[q]
      OBVIOUS
    <3> PICK reward, w : reward = Head(a.todo) /\ w = a.on
      OBVIOUS
    <3>1. pc'[q] = l /\ arg'[q] = a /\ l = "flag"
      BY <1>2, <2>2 DEF Alone
    <3>2. Backed(reward, w)
      BY <3>1 DEF Backing
    <3>3. w \in TrackWork
      BY <3>1, LocalsTyped, WorkLocals DEF WorkLabels
    <3>4. Backed(reward, w)'
      BY <3>2, <3>3, BackedStays DEF BackKept
    <3>5. QED BY <3>1, <3>4
  <2>3. QED BY <2>1, <2>2
<1>3. \A q \in Requests : pc'[q] = "flag" => Backed(Head(arg[q].todo), arg[q].on)'
  BY <1>2
<1>4. QED BY <1>1, <1>3 DEF Backing, BackKept

\* Recognition neither flags nor takes a reward back.
LEMMA RecognitionFlagsNothing ==
    ASSUME Shape, NEW r \in Requests, RecognitionSteps(r) \/ Crash(r)
    PROVE  pc'[r] # "flag"
<1>1. CASE Decide(r) \/ InsertImpact(r) \/ WriteRevoked(r) \/ RevokeImpact(r)
  BY <1>1 DEF Decide, InsertImpact, WriteRevoked, RevokeImpact, Step, GoTo, Shape
<1>2. CASE ReadEvents(r) \/ ReadRules(r) \/ WriteScore(r) \/ Evaluate(r)
  BY <1>2 DEF ReadEvents, ReadRules, WriteScore, Evaluate, GoTo, Shape
<1>3. CASE FindBadge(r) \/ InsertBadge(r) \/ FindMilestone(r) \/ InsertMilestone(r)
  BY <1>3 DEF FindBadge, InsertBadge, FindMilestone, InsertMilestone, BadgeDone, Evaluated, Throw,
              Return, Step, GoTo, Shape
<1>4. CASE CheckSource(r) \/ FindCertificate(r) \/ InsertCertificate(r) \/ Finish(r) \/ Crash(r)
  BY <1>4 DEF CheckSource, FindCertificate, InsertCertificate, Finish, Crash, Throw,
              Return, Step, GoTo, Shape
<1>5. QED BY <1>1, <1>2, <1>3, <1>4 DEF RecognitionSteps

LEMMA CallFlagsNothing ==
    ASSUME Shape, NEW r \in Requests, Begins(r) \/ OneStatement(r),
           UNCHANGED workRows \/ UNCHANGED <<rows, flags, entries>>
    PROVE  pc'[r] # "flag"
<1>1. CASE Begins(r)
  BY <1>1, ReviewShape, RevokeBegins, IssueBegins, AwardBegins, WorkBegins DEF Begins
<1>2. CASE OneStatement(r)
  BY <1>2, OneStatementShape DEF Once, callVars
<1>3. QED BY <1>1, <1>2

\* A step of recognition as the rewards see it.
LEMMA RecognitionStays ==
    ASSUME Shape, MadeRows, NEW r \in Requests, RecognitionSteps(r) \/ Crash(r), UNCHANGED workRows
    PROVE  RewardsStay /\ MadeRows'
<1> PICK l, a : l = pc[r] /\ a = arg[r]
  OBVIOUS
<1>1. LocalsOK(l, a) /\ origin' = origin
  BY LocalsTyped
     DEF RecognitionSteps, Decide, InsertImpact, WriteRevoked, RevokeImpact, ReadEvents, ReadRules,
         WriteScore, Evaluate, FindBadge, InsertBadge, FindMilestone, InsertMilestone, CheckSource,
         FindCertificate, InsertCertificate, Finish, Crash, rows
<1>2. CASE Decide(r) \/ WriteRevoked(r)
  <2>1. a.on \in Contributions /\ live' = live /\ badge' = badge
    BY <1>1, <1>2 DEF Decide, WriteRevoked, LocalsOK, Staffed
  <2>2. \E s \in {"approved", "rejected", "revoked"} :
            contribution' = [contribution EXCEPT ![a.on] = s]
    BY <1>1, <1>2 DEF Decide, WriteRevoked, LocalsOK
  <2>3. QED BY <1>1, <2>1, <2>2 DEF RewardsStay, MadeRows, Shape, TablesOK
<1>3. CASE InsertImpact(r) \/ RevokeImpact(r)
  <2>1. a.on \in Contributions /\ contribution' = contribution /\ badge' = badge
    BY <1>1, <1>3 DEF InsertImpact, RevokeImpact, LocalsOK, Staffed
  <2>2. \E n : live' = [live EXCEPT ![a.on] = n]
    BY <1>3 DEF InsertImpact, RevokeImpact
  <2>3. \A w \in TrackWork : live'[w] = live[w]
    BY <2>1, <2>2, RowsApart DEF Shape, TablesOK, Sources
  <2>4. QED BY <1>1, <2>1, <2>3 DEF RewardsStay, MadeRows
<1>4. CASE UNCHANGED <<contribution, live>> /\ (badge' = badge \/ badge' = "active")
  BY <1>1, <1>4 DEF RewardsStay, MadeRows
<1>5. QED BY <1>2, <1>3, <1>4
          DEF RecognitionSteps, ReadEvents, ReadRules, WriteScore, Evaluate, FindBadge, InsertBadge,
              FindMilestone, InsertMilestone, CheckSource, FindCertificate, InsertCertificate,
              Finish, Crash, rows

LEMMA CallStays ==
    ASSUME Shape, MadeRows, NEW r \in Requests, Call(r)
    PROVE  RewardsStay /\ MadeRows' /\ flags' = flags
<1>1. CASE UNCHANGED <<rows, workRows>>
  BY <1>1 DEF RewardsStay, MadeRows, rows, workRows
<1>2. CASE OneStatement(r) /\ (UNCHANGED workRows \/ UNCHANGED <<rows, flags, entries>>)
  <2>1. ASSUME NEW c \in Contributions, SubmitContribution(r, c)
        PROVE  RewardsStay /\ MadeRows'
    BY <2>1 DEF SubmitContribution, RewardsStay, MadeRows, Shape, TablesOK
  <2>2. ASSUME UNCHANGED <<contribution, origin, live>>, badge' = badge \/ badge' = "revoked"
        PROVE  RewardsStay /\ MadeRows'
    BY <2>2 DEF RewardsStay, MadeRows
  <2>3. QED BY <1>2, <2>1, <2>2
            DEF OneStatement, RevokeCertificate, UpdateImpactWeight, RevokeBadge,
                CreateTrackContribution, rows, workRows
<1>3. QED BY <1>1, <1>2, CallKinds

\* Where a step on a list of rewards leads is flagging only after what is inserted.
LEMMA AwardFlagsNothing ==
    ASSUME Shape, NEW r \in Requests, NEW todo, Award(r, todo)
    PROVE  pc'[r] # "flag"
  BY DEF Award, FirstStep, GoTo, Shape

LEMMA InsertedFlags ==
    ASSUME Shape, NEW r \in Requests, Inserted(r),
           NEW reward, NEW w, reward = Head(arg[r].todo), w = arg[r].on,
           reward # "hours" => Backed(reward, w)'
    PROVE  Flagging(r)
<1>1. CASE reward = "hours"
  BY <1>1, AwardFlagsNothing DEF Inserted, Flagging
<1>2. CASE reward # "hours"
  <2>1. arg'[r] = arg[r]
    BY <1>2, Steps DEF Inserted
  <2>2. QED BY <1>2, <2>1 DEF Flagging
<1>3. QED BY <1>1, <1>2

LEMMA SameRowsStay ==
    ASSUME MadeRows, UNCHANGED rows
    PROVE  RewardsStay /\ MadeRows'
  BY DEF RewardsStay, MadeRows, rows

LEMMA PatchBacked ==
    ASSUME Shape, Backing, NEW r \in Requests, Patch(r) \/ ReadWork(r)
    PROVE  BackKept(r)
<1>1. RewardsStay /\ MadeRows' /\ flags' = flags
  BY SameRowsStay DEF Patch, ReadWork, workRows, Backing
<1>2. CASE Patch(r)
  BY <1>1, <1>2 DEF Patch, Step, GoTo, Shape, BackKept, FlagsBacked, Flagging
<1>3. CASE ReadWork(r)
  BY <1>1, <1>3, AwardFlagsNothing DEF ReadWork, BackKept, FlagsBacked, Flagging
<1>4. QED BY <1>2, <1>3

LEMMA FindRewardBacked ==
    ASSUME Shape, Backing, NEW r \in Requests, FindReward(r)
    PROVE  BackKept(r)
<1> PICK l, a : l = pc[r] /\ a = arg[r]
  OBVIOUS
<1> PICK reward, w : reward = Head(a.todo) /\ w = a.on
  OBVIOUS
<1>1. RewardsStay /\ MadeRows' /\ flags' = flags
  BY SameRowsStay DEF FindReward, workRows, Backing
<1>2. l = "find" /\ l \in WorkLabels /\ LocalsOK(l, a) /\ a \in Args
  BY LocalsTyped DEF FindReward, WorkLabels
<1>3. w \in TrackWork /\ reward \in {"impact", "hours", "badge"}
  BY <1>2, WorkLocals, Unlist DEF LocalsOK, AtReward, Rewards
<1>4. CASE IsThere(reward, w)
  <2>1. reward # "hours" => Backed(reward, w)
    BY <1>3, <1>4 DEF IsThere, Backed
  <2>2. reward # "hours" => Backed(reward, w)'
    BY <1>1, <1>3, <2>1, BackedStays
  <2>3. Inserted(r)
    BY <1>4 DEF FindReward
  <2>4. Flagging(r)
    BY <2>2, <2>3, InsertedFlags
  <2>5. QED BY <1>1, <2>4 DEF BackKept, FlagsBacked
<1>5. CASE ~IsThere(reward, w)
  <2>1. pc'[r] = "insert"
    BY <1>5, Steps DEF FindReward
  <2>2. QED BY <1>1, <2>1 DEF BackKept, FlagsBacked, Flagging
<1>6. QED BY <1>4, <1>5

LEMMA InsertRewardBacked ==
    ASSUME Shape, Backing, NEW r \in Requests, InsertReward(r)
    PROVE  BackKept(r)
<1> PICK l, a : l = pc[r] /\ a = arg[r]
  OBVIOUS
<1> PICK reward, w : reward = Head(a.todo) /\ w = a.on
  OBVIOUS
<1>1. flags' = flags
  BY DEF InsertReward
<1>2. l = "insert" /\ l \in WorkLabels /\ LocalsOK(l, a) /\ a \in Args
  BY LocalsTyped DEF InsertReward, WorkLabels
<1>3. w \in TrackWork /\ w \in Sources /\ w # None /\ w \notin Contributions
  BY <1>2, WorkLocals, NoneIsNoRow, RowsApart DEF Sources
<1>4. SUFFICES RewardsStay /\ MadeRows' /\ Flagging(r)
  BY <1>1 DEF BackKept, FlagsBacked
<1>5. CASE InsertWorkImpact(r)
  <2>1. /\ live' = [live EXCEPT ![w] = live[w] + 1] /\ reward = "impact" /\ Inserted(r)
        /\ UNCHANGED <<contribution, origin, badge>>
    BY <1>5 DEF InsertWorkImpact
  <2>2. live'[w] > 0 /\ \A v \in TrackWork : live[v] > 0 => live'[v] > 0
    BY <1>3, <2>1 DEF Shape, TablesOK, Sources
  <2>3. RewardsStay /\ MadeRows'
    BY <2>1, <2>2 DEF RewardsStay, MadeRows, Backing
  <2>4. Backed(reward, w)'
    BY <2>1, <2>2 DEF Backed
  <2>5. QED BY <2>1, <2>3, <2>4, InsertedFlags
<1>6. CASE InsertHours(r)
  <2>1. RewardsStay /\ MadeRows'
    BY <1>6, SameRowsStay DEF InsertHours, Backing
  <2>2. reward = "hours" /\ Inserted(r)
    BY <1>6 DEF InsertHours
  <2>3. QED BY <2>1, <2>2, InsertedFlags
<1>7. ASSUME NEW c \in Contributions, InsertRow(r, c)
      PROVE  RewardsStay /\ MadeRows' /\ Flagging(r)
  <2>1. /\ reward = "row" /\ contribution[c] = "none" /\ Inserted(r)
        /\ contribution' = [contribution EXCEPT ![c] = "approved"]
        /\ origin' = [origin EXCEPT ![c] = w] /\ UNCHANGED <<live, badge>>
    BY <1>7 DEF InsertRow
  <2>2. origin[c] = None
    BY <2>1 DEF Backing, MadeRows
  <2>3. RewardsStay
    BY <2>1, <2>2 DEF RewardsStay, Shape, TablesOK
  <2>4. MadeRows'
    BY <2>1 DEF Backing, MadeRows, Shape, TablesOK
  <2>5. origin'[c] = w
    BY <2>1 DEF Shape, TablesOK
  <2>6. Backed(reward, w)'
    BY <2>1, <2>5 DEF Backed
  <2>7. QED BY <2>1, <2>3, <2>4, <2>6, InsertedFlags
<1>8. CASE InsertWorkBadge(r)
  <2>1. RewardsStay /\ MadeRows'
    BY <1>8 DEF InsertWorkBadge, RewardsStay, MadeRows, Backing
  <2>2. CASE Throw(r)
    <3>1. pc'[r] = "idle"
      BY <2>2, Goes DEF Throw, Return
    <3>2. QED BY <2>1, <3>1 DEF Flagging
  <2>3. CASE badge' = "active" /\ Inserted(r)
    <3>1. Backed(reward, w)'
      BY <1>8, <2>3 DEF InsertWorkBadge, Backed
    <3>2. QED BY <2>1, <2>3, <3>1, InsertedFlags
  <2>4. QED BY <1>8, <2>2, <2>3 DEF InsertWorkBadge
<1>9. QED BY <1>5, <1>6, <1>7, <1>8 DEF InsertReward

LEMMA FlagRewardBacked ==
    ASSUME Shape, Backing, NEW r \in Requests, FlagReward(r)
    PROVE  BackKept(r)
<1> PICK l, a : l = pc[r] /\ a = arg[r]
  OBVIOUS
<1> PICK reward, w : reward = Head(a.todo) /\ w = a.on
  OBVIOUS
<1>1. RewardsStay /\ MadeRows'
  BY SameRowsStay DEF FlagReward, Backing
<1>2. l = "flag" /\ l \in WorkLabels /\ LocalsOK(l, a) /\ a \in Args
  BY LocalsTyped DEF FlagReward, WorkLabels
<1>3. w \in TrackWork /\ Backed(reward, w)
  BY <1>2, WorkLocals DEF Backing
<1>4. flags' = [flags EXCEPT ![w] = flags[w] \cup {reward}]
  BY DEF FlagReward
<1>5. FlagsBacked
  BY <1>3, <1>4 DEF FlagsBacked, Shape, TablesOK
<1>6. Flagging(r)
  BY AwardFlagsNothing DEF FlagReward, Flagging
<1>7. QED BY <1>1, <1>5, <1>6 DEF BackKept

LEMMA NextBacking == Shape /\ Backing /\ [Next]_vars => Backing'
<1> SUFFICES ASSUME Shape, Backing, [Next]_vars PROVE Backing'
  OBVIOUS
<1>1. CASE UNCHANGED <<contribution, origin, live, badge, flags, pc, arg>>
  BY <1>1 DEF Backing, MadeRows, Backed
<1>2. ASSUME NEW r \in Requests, Call(r)
      PROVE  Backing'
  <2>1. Alone(r)
    BY <1>2, CallShape, MovesAlone
  <2>2. pc'[r] # "flag"
    BY <1>2, CallKinds, CallFlagsNothing
  <2>3. BackKept(r)
    BY <1>2, <2>2, CallStays DEF BackKept, FlagsBacked, Flagging, Backing
  <2>4. QED BY <2>1, <2>3, BackingKept
<1>3. ASSUME NEW r \in Requests, Continue(r)
      PROVE  Backing'
  <2>1. Alone(r)
    BY <1>3, ContinueShape, MovesAlone
  <2>2. ASSUME RecognitionSteps(r) \/ Crash(r), UNCHANGED workRows
        PROVE  BackKept(r)
    BY <2>2, RecognitionStays, RecognitionFlagsNothing
       DEF BackKept, FlagsBacked, Flagging, Backing, workRows
  <2>3. BackKept(r)
    BY <1>3, <2>2, PatchBacked, FindRewardBacked, InsertRewardBacked, FlagRewardBacked DEF Continue
  <2>4. QED BY <2>1, <2>3, BackingKept
<1>4. QED BY <1>1, <1>2, <1>3 DEF Next, HoursChange, callVars, workRows, vars, rows

LEMMA InitBacking == InitTrackRewards => Backing
  BY DEF InitTrackRewards, Init, Backing, MadeRows

\* awardTrackContributionRewards: a flag is never set before the reward it stands
\* for is there, whatever calls overlap and wherever they die.
THEOREM RewardsBacked == Spec => []RewardsAreBacked
<1>1. Backing => RewardsAreBacked
  BY DEF Backing, Backed, RewardsAreBacked
<1>2. Spec => [](Shape /\ Backing)
  <2>1. InitTrackRewards => Shape /\ Backing
    BY InitShape, InitBacking
  <2>2. Shape /\ Backing /\ [Next]_vars => (Shape /\ Backing)'
    BY NextShape, NextBacking
  <2>3. QED BY <2>1, <2>2, PTL DEF Spec
<1>3. QED BY <1>1, <1>2, PTL

-----------------------------------------------------------------------------
(* Settling: how far a quiet call has come *)

Settles(r) == \E label, a : label = pc'[r] /\ a = arg'[r] /\ Settled(label, a)'

\* Nobody's work is undone while the rows stay as they are.
LEMMA SettledStays ==
    ASSUME UNCHANGED <<rows, workRows>>, NEW label, NEW a, Settled(label, a)
    PROVE  Settled(label, a)'
<1>1. UNCHANGED <<contribution, live, weight, score, hours, badge, milestone, certificate,
                  flags, entries>>
  BY DEF rows, workRows
<1>2. Events' = Events
  BY <1>1 DEF Events
<1>3. Score' = Score
  BY <1>1, <1>2 DEF Score
<1>4. QED BY <1>1, <1>2, <1>3 DEF Settled, ReviewSettled, RevokeSettled, WorkSettled

\* What is observed of the call that takes a step.
LEMMA SettlingKept ==
    ASSUME Shape, Settling, NEW r \in Requests, Alone(r), Observe(r),
           pc'[r] # "idle" /\ (pc[r] = "idle" \/ Settled(pc[r], arg[r])) => Settles(r)
    PROVE  Settling'
<1> SUFFICES ASSUME NEW q \in quiet'
             PROVE  Settled(pc[q], arg[q])'
  BY DEF Settling
<1>1. CASE q = r
  <2>1. pc'[r] # "idle" /\ (pc[r] = "idle" \/ r \in quiet)
    BY <1>1 DEF Observe
  <2>2. Settles(r)
    BY <2>1 DEF Settling
  <2>3. QED BY <1>1, <2>2 DEF Settles
<1>2. CASE q # r
  <2>1. q \in quiet /\ UNCHANGED <<rows, workRows>>
    BY <1>2 DEF Observe
  <2> PICK label, a : label = pc[q] /\ a = arg[q]
    OBVIOUS
  <2>2. pc'[q] = label /\ arg'[q] = a
    BY <1>2, <2>1 DEF Alone, Shape
  <2>3. Settled(label, a)'
    BY <2>1, SettledStays DEF Settling
  <2>4. QED BY <2>2, <2>3
<1>3. QED BY <1>1, <1>2

LEMMA DecideSettles ==
    ASSUME Shape, NEW r \in Requests, Decide(r), Settled(pc[r], arg[r])
    PROVE  Settles(r)
<1> PICK l, a : l = pc[r] /\ a = arg[r]
  OBVIOUS
<1> PICK m, b : m = pc'[r] /\ b = arg'[r]
  OBVIOUS
<1>1. l = "decide" /\ LocalsOK(l, a) /\ a \in Args
  BY LocalsTyped DEF Decide
<1>2. a.on \in Contributions /\ a.call = "review"
  BY <1>1 DEF LocalsOK, Staffed
<1>3. b = a /\ m = IF a.decision = "approved" THEN "impact" ELSE "done"
  BY Steps DEF Decide
<1>4. contribution'[a.on] = a.decision
  BY <1>2 DEF Decide, Shape, TablesOK
<1>5. ReviewSettled(m, b)'
  BY <1>3, <1>4 DEF ReviewSettled, Scoring, Scored, Badging, BadgeGiven, MilestoneGiven, Proving
<1>6. QED BY <1>2, <1>3, <1>5 DEF Settles, Settled

LEMMA InsertImpactSettles ==
    ASSUME Shape, NEW r \in Requests, InsertImpact(r), Settled(pc[r], arg[r])
    PROVE  Settles(r)
<1> PICK l, a : l = pc[r] /\ a = arg[r]
  OBVIOUS
<1> PICK m, b : m = pc'[r] /\ b = arg'[r]
  OBVIOUS
<1>1. l = "impact" /\ LocalsOK(l, a) /\ a \in Args
  BY LocalsTyped DEF InsertImpact
<1>2. a.on \in Contributions /\ a.on \in Sources /\ a.call = "review"
  BY <1>1 DEF LocalsOK, Staffed, Sources
<1>3. b = a /\ m = "readEvents"
  BY Steps DEF InsertImpact
<1>4. live'[a.on] > 0 /\ contribution' = contribution
  BY <1>2 DEF InsertImpact, Shape, TablesOK
<1>5. a.decision = "approved" /\ contribution[a.on] = "approved"
  BY <1>1, <1>2 DEF Settled, ReviewSettled
<1>6. ReviewSettled(m, b)'
  BY <1>3, <1>4, <1>5 DEF ReviewSettled, Scoring, Scored, Badging, BadgeGiven, MilestoneGiven, Proving
<1>7. QED BY <1>2, <1>3, <1>6 DEF Settles, Settled

LEMMA RevokeSettles ==
    ASSUME Shape, NEW r \in Requests, WriteRevoked(r) \/ RevokeImpact(r), Settled(pc[r], arg[r])
    PROVE  Settles(r)
<1> PICK l, a : l = pc[r] /\ a = arg[r]
  OBVIOUS
<1> PICK m, b : m = pc'[r] /\ b = arg'[r]
  OBVIOUS
<1>1. l \in {"writeRevoked", "revokeImpact"} /\ LocalsOK(l, a) /\ a \in Args
  BY LocalsTyped DEF WriteRevoked, RevokeImpact
<1>2. a.on \in Contributions /\ a.on \in Sources /\ a.call = "revoke"
  BY <1>1 DEF LocalsOK, Sources
<1>3. b = a /\ m = IF l = "writeRevoked" THEN "revokeImpact" ELSE "readEvents"
  BY Steps DEF WriteRevoked, RevokeImpact
<1>4. l = "revokeImpact" => live'[a.on] = 0
  BY <1>2 DEF WriteRevoked, RevokeImpact, Shape, TablesOK
<1>5. RevokeSettled(m, b)'
  BY <1>1, <1>3, <1>4 DEF RevokeSettled, Scoring
<1>6. QED BY <1>2, <1>3, <1>5 DEF Settles, Settled

\* The reading of the score: live is what it was, or the call's own.
LEMMA ReadEventsSettles ==
    ASSUME Shape, NEW r \in Requests, ReadEvents(r), UNCHANGED workRows, Settled(pc[r], arg[r])
    PROVE  Settles(r)
<1> PICK l, a : l = pc[r] /\ a = arg[r]
  OBVIOUS
<1> PICK m, b : m = pc'[r] /\ b = arg'[r]
  OBVIOUS
<1> PICK n : n = Events
  OBVIOUS
<1>1. l = "readEvents" /\ LocalsOK(l, a) /\ a \in Args /\ n \in Counted
  BY LocalsTyped, ScoreReadings DEF ReadEvents, Shape
<1>2. m = "readRules" /\ b = [a EXCEPT !.events = n]
  BY DEF ReadEvents, GoTo, Shape
<1>3. b.call = a.call /\ b.on = a.on /\ b.decision = a.decision /\ b.events = n
  BY <1>1, <1>2 DEF Args
<1>4. Settled(l, a)' /\ n = Events'
  <2>1. UNCHANGED rows /\ Events' = Events
    BY DEF ReadEvents, Events, rows
  <2>2. QED BY <2>1, SettledStays
<1>5. a.call = "review" => ReviewSettled(l, a)' /\ ReviewSettled(m, b)'
  <2> SUFFICES ASSUME a.call = "review" PROVE ReviewSettled(l, a)' /\ ReviewSettled(m, b)'
    OBVIOUS
  <2>1. ReviewSettled(l, a)'
    BY <1>4 DEF Settled
  <2>2. ReviewSettled(m, b)'
    BY <1>1, <1>2, <1>3, <1>4, <2>1
       DEF ReviewSettled, Scoring, Scored, Badging, BadgeGiven, MilestoneGiven, Proving
  <2>3. QED BY <2>1, <2>2
<1>6. a.call = "revoke" => RevokeSettled(m, b)'
  BY <1>1, <1>2, <1>3, <1>4 DEF Settled, RevokeSettled, Scoring
<1>7. a.call # "work"
  BY <1>1 DEF LocalsOK, Scoring
<1>8. Settled(m, b)'
  BY <1>3, <1>5, <1>6, <1>7 DEF Settled
<1>9. QED BY <1>8 DEF Settles

LEMMA ReadRulesSettles ==
    ASSUME Shape, NEW r \in Requests, ReadRules(r), UNCHANGED workRows, Settled(pc[r], arg[r])
    PROVE  Settles(r)
<1> PICK l, a : l = pc[r] /\ a = arg[r]
  OBVIOUS
<1> PICK m, b : m = pc'[r] /\ b = arg'[r]
  OBVIOUS
<1> PICK n : n = weight * a.events
  OBVIOUS
<1>1. l = "readRules" /\ LocalsOK(l, a) /\ a \in Args /\ a.call \in {"review", "revoke"}
  BY LocalsTyped DEF ReadRules, LocalsOK, Scoring
<1>2. n \in Weighed
  BY <1>1, ScoreReadings DEF LocalsOK, Shape
<1>3. m = "writeScore" /\ b = [a EXCEPT !.events = n]
  BY DEF ReadRules, GoTo, Shape
<1>4. b.call = a.call /\ b.on = a.on /\ b.decision = a.decision /\ b.events = n
  BY <1>1, <1>3 DEF Args
<1>5. a.events = Events /\ n = Score'
  <2>1. a.events = Events
    BY <1>1 DEF Settled, ReviewSettled, RevokeSettled
  <2>2. UNCHANGED <<weight, live>>
    BY DEF ReadRules, rows
  <2>3. Score' = Score
    BY <2>2 DEF Score, Events
  <2>4. QED BY <2>1, <2>3 DEF Score
<1>6. Settled(l, a)'
  BY SettledStays DEF ReadRules
<1>7. a.call = "review" => ReviewSettled(m, b)'
  <2> SUFFICES ASSUME a.call = "review" PROVE ReviewSettled(m, b)'
    OBVIOUS
  <2>1. ReviewSettled(l, a)'
    BY <1>6 DEF Settled
  <2>2. QED BY <1>1, <1>3, <1>4, <1>5, <2>1
            DEF ReviewSettled, Scoring, Scored, Badging, BadgeGiven, MilestoneGiven, Proving
<1>8. a.call = "revoke" => RevokeSettled(m, b)'
  BY <1>1, <1>3, <1>4, <1>5, <1>6 DEF Settled, RevokeSettled, Scoring
<1>9. QED BY <1>1, <1>4, <1>7, <1>8 DEF Settled, Settles

LEMMA WriteScoreSettles ==
    ASSUME Shape, NEW r \in Requests, WriteScore(r), UNCHANGED workRows, Settled(pc[r], arg[r])
    PROVE  Settles(r)
<1> PICK l, a : l = pc[r] /\ a = arg[r]
  OBVIOUS
<1> PICK m, b : m = pc'[r] /\ b = arg'[r]
  OBVIOUS
<1>1. l = "writeScore" /\ LocalsOK(l, a) /\ a \in Args /\ a.call \in {"review", "revoke"}
  BY LocalsTyped DEF WriteScore, LocalsOK, Scoring
<1>2. /\ m = IF a.call = "review" THEN "evaluate" ELSE "done"
      /\ b = [a EXCEPT !.events = 0]
  BY DEF WriteScore, GoTo, Shape
<1>3. b.call = a.call /\ b.on = a.on /\ b.decision = a.decision
  BY <1>1, <1>2 DEF Args
<1>4. UNCHANGED <<weight, live, contribution>> /\ score' = Score'
  <2>1. a.events = Score
    BY <1>1 DEF Settled, ReviewSettled, RevokeSettled
  <2>2. UNCHANGED <<weight, live, contribution>> /\ score' = a.events
    BY DEF WriteScore
  <2>3. Score' = Score
    BY <2>2 DEF Score, Events
  <2>4. QED BY <2>1, <2>2, <2>3
<1>5. a.call = "review" => ReviewSettled(m, b)'
  <2> SUFFICES ASSUME a.call = "review" PROVE ReviewSettled(m, b)'
    OBVIOUS
  <2>1. a.decision = "approved" /\ contribution[a.on] = "approved" /\ live[a.on] > 0
    BY <1>1 DEF Settled, ReviewSettled, Scoring
  <2>2. QED BY <1>2, <1>3, <1>4, <2>1
            DEF ReviewSettled, Scoring, Scored, Badging, BadgeGiven, MilestoneGiven, Proving
<1>6. a.call = "revoke" => RevokeSettled(m, b)'
  <2> SUFFICES ASSUME a.call = "revoke" PROVE RevokeSettled(m, b)'
    OBVIOUS
  <2>1. live[a.on] = 0
    BY <1>1 DEF Settled, RevokeSettled, Scoring
  <2>2. QED BY <1>2, <1>3, <1>4, <2>1 DEF RevokeSettled, Scoring
<1>7. QED BY <1>1, <1>3, <1>5, <1>6 DEF Settled, Settles

LEMMA EvaluateSettles ==
    ASSUME Shape, NEW r \in Requests, Evaluate(r), UNCHANGED workRows, Settled(pc[r], arg[r])
    PROVE  Settles(r)
<1> PICK l, a : l = pc[r] /\ a = arg[r]
  OBVIOUS
<1> PICK m, b : m = pc'[r] /\ b = arg'[r]
  OBVIOUS
<1> PICK h \in BOOLEAN : h = hours
  BY DEF Shape, TablesOK
<1>1. l = "evaluate" /\ LocalsOK(l, a) /\ a \in Args
  BY LocalsTyped DEF Evaluate
<1>2. a.call = "review" /\ a.on \in Contributions
  BY <1>1 DEF LocalsOK, Staffed
<1>3. Settled(l, a)' /\ hours' = h
  BY SettledStays DEF Evaluate, rows
<1>4. ReviewSettled(l, a)' /\ ReviewSettled(l, a)
  BY <1>2, <1>3 DEF Settled
<1>5. Approved # {}
  BY <1>1, <1>2, <1>4 DEF ReviewSettled, Approved
<1>6. m = "findBadge" /\ b = [a EXCEPT !.hours = h]
  BY <1>5 DEF Evaluate, GoTo, Shape
<1>7. b.call = a.call /\ b.on = a.on /\ b.decision = a.decision
  BY <1>1, <1>6 DEF Args
<1>8. b.hours = h
  BY <1>1, <1>6 DEF Args
<1>9. hours' => b.hours
  BY <1>3, <1>8
<1>10. ReviewSettled(m, b)'
  BY <1>1, <1>4, <1>6, <1>7, <1>9
     DEF ReviewSettled, Scoring, Scored, Badging, BadgeGiven, MilestoneGiven, Proving
<1>11. QED BY <1>2, <1>7, <1>10 DEF Settled, Settles

LEMMA BadgeSettles ==
    ASSUME Shape, NEW r \in Requests, FindBadge(r) \/ InsertBadge(r), UNCHANGED workRows,
           Settled(pc[r], arg[r]), pc'[r] # "idle"
    PROVE  Settles(r)
<1> PICK l, a : l = pc[r] /\ a = arg[r]
  OBVIOUS
<1> PICK m, b : m = pc'[r] /\ b = arg'[r]
  OBVIOUS
<1>1. l \in Badging /\ LocalsOK(l, a) /\ a \in Args /\ a.call \in {"review", "award"}
  BY LocalsTyped DEF FindBadge, InsertBadge, LocalsOK, Badging
<1>2. b = a /\ m \in {"insertBadge", BadgeDone(r)} /\ (m = BadgeDone(r) => badge' = "active")
  BY Steps, ReturnMoves DEF FindBadge, InsertBadge, Throw, Return, GoTo, Shape, BadgeDone, rows
<1>3. BadgeDone(r) = IF a.call = "award" THEN "done" ELSE "findMilestone"
  BY DEF BadgeDone
<1>4. UNCHANGED <<contribution, live, weight, score, hours>>
  BY DEF FindBadge, InsertBadge, rows
<1>5. ASSUME a.call = "review"
      PROVE  ReviewSettled(m, b)'
  <2>1. ReviewSettled(l, a)
    BY <1>5 DEF Settled
  <2>2. /\ a.decision = "approved" /\ contribution[a.on] = "approved" /\ live[a.on] > 0
        /\ score = Score /\ (hours => a.hours)
    BY <1>1, <2>1 DEF ReviewSettled, Scored, Badging
  <2>3. Score' = Score
    BY <1>4 DEF Score, Events
  <2>4. QED BY <1>2, <1>3, <1>4, <1>5, <2>2, <2>3
            DEF ReviewSettled, Scoring, Scored, Badging, BadgeGiven, MilestoneGiven, Proving
<1>6. QED BY <1>1, <1>2, <1>5 DEF Settled, Settles

LEMMA MilestoneSettles ==
    ASSUME Shape, NEW r \in Requests, FindMilestone(r) \/ InsertMilestone(r), UNCHANGED workRows,
           Settled(pc[r], arg[r]), pc'[r] # "idle"
    PROVE  Settles(r)
<1> PICK l, a : l = pc[r] /\ a = arg[r]
  OBVIOUS
<1> PICK m, b : m = pc'[r] /\ b = arg'[r]
  OBVIOUS
<1>1. l \in {"findMilestone", "insertMilestone"} /\ LocalsOK(l, a) /\ a \in Args
  BY LocalsTyped DEF FindMilestone, InsertMilestone
<1>2. a.call = "review"
  BY <1>1 DEF LocalsOK, Staffed
<1>3. ReviewSettled(l, a)
  BY <1>2 DEF Settled
<1>4. /\ a.decision = "approved" /\ contribution[a.on] = "approved" /\ live[a.on] > 0
      /\ score = Score /\ badge = "active"
  BY <1>1, <1>3 DEF ReviewSettled, Scored, BadgeGiven
<1>5. hours => a.hours
  BY <1>1, <1>3 DEF ReviewSettled
<1>6. b = a /\ m \in {"insertMilestone", Evaluated(r)}
  BY Steps DEF FindMilestone, InsertMilestone, Throw, Return, GoTo, Shape
<1>7. Evaluated(r) = IF a.issuer THEN "checkSource" ELSE "done"
  BY DEF Evaluated
<1>8. Evaluated(r) # "insertMilestone"
  BY <1>7
<1>9. UNCHANGED <<contribution, live, weight, score, hours, badge>>
  BY DEF FindMilestone, InsertMilestone, rows
<1>10. m # "insertMilestone" => (hours => milestone')
  <2>1. CASE FindMilestone(r)
    <3>1. CASE a.hours /\ ~milestone
      BY <2>1, <3>1, Steps DEF FindMilestone
    <3>2. CASE ~(a.hours /\ ~milestone)
      BY <1>5, <2>1, <3>2, Zenon DEF FindMilestone, rows
    <3>3. QED BY <3>1, <3>2
  <2>2. CASE InsertMilestone(r)
    <3>1. CASE milestone /\ Throw(r)
      <4>1. pc'[r] = "idle"
        BY <3>1, Goes DEF Throw, Return
      <4>2. QED BY <4>1
    <3>2. CASE milestone' = TRUE
      BY <3>2
    <3>3. QED BY <2>2, <3>1, <3>2 DEF InsertMilestone
  <2>3. QED BY <2>1, <2>2
<1>11. Score' = Score
  BY <1>9 DEF Score, Events
<1>12. m \in {"insertMilestone", "checkSource", "done"} /\ (m = "done" => ~a.issuer)
  BY <1>6, <1>7, <1>8
<1>13. ReviewSettled(m, b)'
  <2>1. hours' => b.hours
    BY <1>5, <1>6, <1>9
  <2>2. m # "insertMilestone" => (hours' => milestone')
    BY <1>9, <1>10
  <2>3. m = "done" => ~b.issuer
    BY <1>6, <1>12
  <2>4. /\ b.decision = "approved" /\ contribution'[b.on] = "approved" /\ live'[b.on] > 0
        /\ score' = Score' /\ badge' = "active"
    BY <1>4, <1>6, <1>9, <1>11
  <2>5. QED BY <1>12, <2>1, <2>2, <2>3, <2>4
            DEF ReviewSettled, Scoring, Scored, Badging, BadgeGiven, MilestoneGiven, Proving
<1>14. QED BY <1>2, <1>6, <1>13 DEF Settled, Settles

LEMMA CertificateSettles ==
    ASSUME Shape, NEW r \in Requests, UNCHANGED workRows,
           CheckSource(r) \/ FindCertificate(r) \/ InsertCertificate(r),
           Settled(pc[r], arg[r]), pc'[r] # "idle"
    PROVE  Settles(r)
<1> PICK l, a : l = pc[r] /\ a = arg[r]
  OBVIOUS
<1> PICK m, b : m = pc'[r] /\ b = arg'[r]
  OBVIOUS
<1>1. l \in Proving /\ LocalsOK(l, a) /\ a \in Args /\ a.on \in Contributions
  BY LocalsTyped DEF CheckSource, FindCertificate, InsertCertificate, LocalsOK, Proving
<1>2. a.call \in {"review", "issue"}
  BY <1>1 DEF LocalsOK
<1>3. /\ b = a /\ m \in {"findCertificate", "insertCertificate", "done"}
      /\ m = "done" => certificate'[a.on] # "none"
  <2>1. CASE CheckSource(r)
    BY <2>1, Steps DEF CheckSource, Throw, Return, GoTo, Shape
  <2>2. CASE FindCertificate(r)
    BY <2>2, Steps DEF FindCertificate, rows
  <2>3. CASE InsertCertificate(r)
    BY <1>1, <2>3, Steps DEF InsertCertificate, Throw, Return, GoTo, Shape, TablesOK
  <2>4. QED BY <2>1, <2>2, <2>3
<1>4. UNCHANGED <<contribution, live, weight, score, hours, badge, milestone>>
  BY DEF CheckSource, FindCertificate, InsertCertificate, rows
<1>5. Score' = Score
  BY <1>4 DEF Score, Events
<1>6. ASSUME a.call = "review"
      PROVE  ReviewSettled(m, b)'
  <2>1. ReviewSettled(l, a)
    BY <1>6 DEF Settled
  <2>2. /\ a.decision = "approved" /\ contribution[a.on] = "approved" /\ live[a.on] > 0
        /\ score = Score /\ badge = "active"
    BY <1>1, <2>1 DEF ReviewSettled, Scored, BadgeGiven, Proving
  <2>3. hours => milestone
    BY <1>1, <2>1, <2>2 DEF ReviewSettled, MilestoneGiven, Proving
  <2>4. hours' => milestone'
    BY <1>4, <2>3
  <2>5. QED BY <1>3, <1>4, <1>5, <2>2, <2>4
            DEF ReviewSettled, Scoring, Scored, Badging, BadgeGiven, MilestoneGiven, Proving
<1>7. QED BY <1>2, <1>3, <1>6 DEF Settled, Settles

\* A call on a track contribution is as far as its list says.
LEMMA ListSettles ==
    ASSUME NEW label \in AtReward \cup {"done", "readWork"}, NEW b, b.call = "work",
           b.on \in TrackWork, b.decision \in Rewarded,
           label # "readWork" => Flagged \subseteq flags'[b.on] \cup Listed(b.todo),
           label # "readWork" => (entries'[b.on] > 0 \/ "hours" \in Listed(b.todo)),
           label = "done" => b.todo = <<>>
    PROVE  Settled(label, b)'
<1>1. WorkSettled(label, b)'
  BY DEF WorkSettled, AtReward
<1>2. QED BY <1>1 DEF Settled

LEMMA AwardSettles ==
    ASSUME Shape, NEW r \in Requests, pc[r] \in WorkLabels, NEW todo \in Seq(Rewards),
           Award(r, todo), arg[r].decision \in Rewarded,
           Flagged \subseteq flags'[arg[r].on] \cup Listed(todo),
           entries'[arg[r].on] > 0 \/ "hours" \in Listed(todo)
    PROVE  Settles(r)
<1> PICK l, a : l = pc[r] /\ a = arg[r]
  OBVIOUS
<1> PICK m, b : m = pc'[r] /\ b = arg'[r]
  OBVIOUS
<1>1. a.on \in TrackWork /\ a.call = "work"
  BY LocalsTyped, WorkLocals
<1>2. /\ m = IF todo = <<>> THEN "done" ELSE FirstStep(Head(todo))
      /\ b.todo = todo /\ b.on = a.on /\ b.call = a.call /\ b.decision = a.decision
  BY AwardMoves
<1>3. m \in AtReward \cup {"done"} /\ (m = "done" => todo = <<>>)
  BY <1>2 DEF FirstStep, AtReward
<1>4. Settled(m, b)'
  BY <1>1, <1>2, <1>3, ListSettles DEF AtReward
<1>5. QED BY <1>4 DEF Settles

LEMMA StepSettles ==
    ASSUME Shape, NEW r \in Requests, pc[r] \in WorkLabels, NEW label \in AtReward,
           Step(r, label), arg[r].decision \in Rewarded,
           Flagged \subseteq flags'[arg[r].on] \cup Listed(arg[r].todo),
           entries'[arg[r].on] > 0 \/ "hours" \in Listed(arg[r].todo)
    PROVE  Settles(r)
<1> PICK l, a : l = pc[r] /\ a = arg[r]
  OBVIOUS
<1>1. a.on \in TrackWork /\ a.call = "work"
  BY LocalsTyped, WorkLocals
<1>2. pc'[r] = label /\ arg'[r] = a
  BY Steps
<1>3. Settled(label, a)'
  BY <1>1, ListSettles DEF AtReward
<1>4. QED BY <1>2, <1>3 DEF Settles

\* What an unbroken call at a reward has.
LEMMA AtRewardSettled ==
    ASSUME Shape, NEW r \in Requests, pc[r] \in AtReward, Settled(pc[r], arg[r]),
           NEW a, a = arg[r]
    PROVE  /\ pc[r] \in WorkLabels /\ a.on \in TrackWork /\ a.decision \in Rewarded
           /\ a.todo \in Seq(Rewards) /\ a.todo # <<>> /\ Head(a.todo) \in Rewards
           /\ Tail(a.todo) \in Seq(Rewards)
           /\ Listed(a.todo) \subseteq {Head(a.todo)} \cup Listed(Tail(a.todo))
           /\ Flagged \subseteq flags[a.on] \cup Listed(a.todo)
           /\ entries[a.on] > 0 \/ "hours" \in Listed(a.todo)
<1> PICK l : l = pc[r]
  OBVIOUS
<1>1. l \in WorkLabels /\ LocalsOK(l, a) /\ a \in Args
  BY LocalsTyped DEF WorkLabels, AtReward
<1>2. a.on \in TrackWork /\ a.call = "work" /\ a.todo \in Seq(Rewards) /\ a.todo # <<>>
  BY <1>1, WorkLocals
<1>3. WorkSettled(l, a)
  BY <1>2 DEF Settled
<1>4. QED BY <1>1, <1>2, <1>3, Unlist DEF WorkSettled

LEMMA InsertedSettles ==
    ASSUME Shape, NEW r \in Requests, pc[r] \in AtReward, Settled(pc[r], arg[r]), Inserted(r),
           NEW a, a = arg[r], flags' = flags,
           entries'[a.on] >= entries[a.on], entries[a.on] \in Nat, entries'[a.on] \in Nat,
           Head(a.todo) = "hours" => entries'[a.on] > 0
    PROVE  Settles(r)
<1>1. /\ pc[r] \in WorkLabels /\ a.decision \in Rewarded
      /\ Tail(a.todo) \in Seq(Rewards)
      /\ Listed(a.todo) \subseteq {Head(a.todo)} \cup Listed(Tail(a.todo))
      /\ Flagged \subseteq flags'[a.on] \cup Listed(a.todo)
      /\ entries[a.on] > 0 \/ "hours" \in Listed(a.todo)
  BY AtRewardSettled
<1>2. CASE Head(a.todo) = "hours"
  <2>1. Flagged \subseteq flags'[a.on] \cup Listed(Tail(a.todo))
    BY <1>1, <1>2 DEF Flagged
  <2>2. Award(r, Tail(a.todo))
    BY <1>2 DEF Inserted
  <2>3. QED BY <1>1, <1>2, <2>1, <2>2, AwardSettles
<1>3. CASE Head(a.todo) # "hours"
  <2>1. Step(r, "flag") /\ "flag" \in AtReward
    BY <1>3 DEF Inserted, AtReward
  <2>2. entries'[a.on] > 0 \/ "hours" \in Listed(a.todo)
    BY <1>1
  <2>3. QED BY <1>1, <2>1, <2>2, StepSettles
<1>4. QED BY <1>2, <1>3

LEMMA PatchSettles ==
    ASSUME Shape, NEW r \in Requests, Patch(r)
    PROVE  Settles(r)
<1> PICK l, a : l = pc[r] /\ a = arg[r]
  OBVIOUS
<1>1. a.on \in TrackWork /\ a.call = "work"
  BY LocalsTyped, WorkLocals DEF Patch, WorkLabels
<1> PICK m : m = IF a.decision \in Rewarded THEN "readWork" ELSE "done"
  OBVIOUS
<1>2. pc'[r] = m /\ arg'[r] = a
  BY Steps DEF Patch
<1>3. Settled(m, a)'
  <2>1. WorkSettled(m, a)'
    BY DEF WorkSettled, AtReward
  <2>2. QED BY <1>1, <2>1 DEF Settled
<1>4. QED BY <1>2, <1>3 DEF Settles

LEMMA ReadWorkSettles ==
    ASSUME Shape, NEW r \in Requests, ReadWork(r), Settled(pc[r], arg[r])
    PROVE  Settles(r)
<1> PICK l, a : l = pc[r] /\ a = arg[r]
  OBVIOUS
<1>1. l = "readWork" /\ l \in WorkLabels /\ a.call = "work"
  BY LocalsTyped, WorkLocals DEF ReadWork, WorkLabels
<1>2. a.decision \in Rewarded
  BY <1>1 DEF Settled, WorkSettled
<1> PICK todo : todo = Owed(flags[a.on])
  OBVIOUS
<1>3. /\ todo \in Seq(Rewards) /\ "hours" \in Listed(todo)
      /\ Flagged \subseteq flags'[a.on] \cup Listed(todo)
  BY OwedLists DEF ReadWork, workRows
<1>4. Award(r, todo)
  BY DEF ReadWork
<1>5. QED BY <1>1, <1>2, <1>3, <1>4, AwardSettles

LEMMA FindRewardSettles ==
    ASSUME Shape, NEW r \in Requests, FindReward(r), Settled(pc[r], arg[r])
    PROVE  Settles(r)
<1> PICK l, a : l = pc[r] /\ a = arg[r]
  OBVIOUS
<1>1. l \in AtReward /\ flags' = flags /\ entries' = entries
  BY DEF FindReward, AtReward, workRows
<1>2. a.on \in TrackWork /\ entries[a.on] \in Nat
  BY <1>1, AtRewardSettled DEF Shape, TablesOK
<1>3. CASE IsThere(Head(a.todo), a.on)
  <2>1. Inserted(r)
    BY <1>3 DEF FindReward
  <2>2. Head(a.todo) = "hours" => entries'[a.on] > 0
    BY <1>1, <1>3 DEF IsThere
  <2>3. entries'[a.on] >= entries[a.on] /\ entries'[a.on] \in Nat
    BY <1>1, <1>2
  <2>4. QED BY <1>1, <1>2, <2>1, <2>2, <2>3, InsertedSettles
<1>4. CASE ~IsThere(Head(a.todo), a.on)
  <2>1. Step(r, "insert") /\ "insert" \in AtReward
    BY <1>4 DEF FindReward, AtReward
  <2>2. QED BY <1>1, <2>1, AtRewardSettled, StepSettles
<1>5. QED BY <1>3, <1>4

LEMMA InsertRewardSettles ==
    ASSUME Shape, NEW r \in Requests, InsertReward(r), Settled(pc[r], arg[r]), pc'[r] # "idle"
    PROVE  Settles(r)
<1> PICK l, a : l = pc[r] /\ a = arg[r]
  OBVIOUS
<1>1. l \in AtReward /\ flags' = flags
  BY DEF InsertReward, AtReward
<1>2. a.on \in TrackWork /\ entries[a.on] \in Nat
  BY <1>1, AtRewardSettled DEF Shape, TablesOK
<1>3. CASE InsertHours(r)
  <2>1. entries'[a.on] = entries[a.on] + 1 /\ Inserted(r)
    BY <1>2, <1>3 DEF InsertHours, Shape, TablesOK
  <2>2. /\ entries'[a.on] >= entries[a.on] /\ entries'[a.on] \in Nat /\ entries'[a.on] > 0
    BY <1>2, <2>1
  <2>3. QED BY <1>1, <1>2, <2>1, <2>2, InsertedSettles
<1>4. ASSUME Inserted(r), entries' = entries, Head(a.todo) # "hours"
      PROVE  Settles(r)
  <2>1. entries'[a.on] >= entries[a.on] /\ entries'[a.on] \in Nat
    BY <1>2, <1>4
  <2>2. QED BY <1>1, <1>2, <1>4, <2>1, InsertedSettles
<1>5. ASSUME Throw(r)
      PROVE  FALSE
  BY <1>5, Goes DEF Throw, Return
<1>6. QED BY <1>3, <1>4, <1>5 DEF InsertReward, InsertWorkImpact, InsertRow, InsertWorkBadge

LEMMA FlagRewardSettles ==
    ASSUME Shape, NEW r \in Requests, FlagReward(r), Settled(pc[r], arg[r])
    PROVE  Settles(r)
<1> PICK l, a : l = pc[r] /\ a = arg[r]
  OBVIOUS
<1>1. l = "flag" /\ l \in AtReward /\ entries' = entries
  BY DEF FlagReward, AtReward
<1>2. /\ l \in WorkLabels /\ a.on \in TrackWork /\ a.decision \in Rewarded
      /\ Tail(a.todo) \in Seq(Rewards)
      /\ Listed(a.todo) \subseteq {Head(a.todo)} \cup Listed(Tail(a.todo))
      /\ Flagged \subseteq flags[a.on] \cup Listed(a.todo)
      /\ entries[a.on] > 0 \/ "hours" \in Listed(a.todo)
  BY <1>1, AtRewardSettled
<1>3. Head(a.todo) # "hours"
  BY <1>1, LocalsTyped DEF LocalsOK
<1>4. flags'[a.on] = flags[a.on] \cup {Head(a.todo)}
  BY <1>2 DEF FlagReward, Shape, TablesOK
<1>5. Award(r, Tail(a.todo))
  BY DEF FlagReward
<1>6. /\ Flagged \subseteq flags'[a.on] \cup Listed(Tail(a.todo))
      /\ entries'[a.on] > 0 \/ "hours" \in Listed(Tail(a.todo))
  BY <1>1, <1>2, <1>3, <1>4
<1>7. QED BY <1>2, <1>5, <1>6, AwardSettles

\* A call that begins has nothing behind it yet.
LEMMA BeginsSettles ==
    ASSUME Shape, NEW r \in Requests, Begins(r)
    PROVE  Settles(r)
<1> PICK m, b : m = pc'[r] /\ b = arg'[r]
  OBVIOUS
<1>1. \/ m = "decide" /\ b.call = "review"
      \/ m = "writeRevoked" /\ b.call = "revoke"
      \/ m = "patch" /\ b.call = "work"
      \/ b.call \in {"issue", "award"}
  BY ReviewShape, RevokeBegins, IssueBegins, AwardBegins, WorkBegins DEF Begins
<1>2. CASE m = "decide" /\ b.call = "review"
  <2>1. ReviewSettled(m, b)'
    BY <1>2 DEF ReviewSettled, Scoring, Scored, Badging, BadgeGiven, MilestoneGiven, Proving
  <2>2. Settled(m, b)'
    BY <1>2, <2>1 DEF Settled
  <2>3. QED BY <2>2 DEF Settles
<1>3. CASE m # "decide" \/ b.call # "review"
  <2>1. Settled(m, b)'
    BY <1>1, <1>3 DEF Settled, RevokeSettled, WorkSettled, Scoring, AtReward
  <2>2. QED BY <2>1 DEF Settles
<1>4. QED BY <1>2, <1>3

LEMMA CallSettles ==
    ASSUME Shape, NEW r \in Requests, Call(r)
    PROVE  pc'[r] # "idle" => Settles(r)
<1>1. CASE OneStatement(r) /\ (UNCHANGED workRows \/ UNCHANGED <<rows, flags, entries>>)
  BY <1>1, OneStatementShape DEF Once, callVars
<1>2. QED BY <1>1, CallKinds, BeginsSettles

LEMMA ContinueSettles ==
    ASSUME Shape, NEW r \in Requests, Continue(r), pc'[r] # "idle",
           pc[r] = "idle" \/ Settled(pc[r], arg[r])
    PROVE  Settles(r)
<1>1. pc[r] # "idle" \/ Crash(r)
  BY DEF Continue, RecognitionSteps, Decide, InsertImpact, WriteRevoked, RevokeImpact, ReadEvents,
         ReadRules, WriteScore, Evaluate, FindBadge, InsertBadge, FindMilestone, InsertMilestone,
         CheckSource, FindCertificate, InsertCertificate, Finish, Patch, ReadWork, FindReward,
         InsertReward, FlagReward
<1>2. ASSUME Finish(r) \/ Crash(r)
      PROVE  FALSE
  BY <1>2, Goes DEF Finish, Crash, Return
<1>3. Settled(pc[r], arg[r])
  BY <1>1, <1>2
<1>4. CASE RecognitionSteps(r) /\ UNCHANGED workRows
  BY <1>2, <1>3, <1>4, DecideSettles, InsertImpactSettles, RevokeSettles, ReadEventsSettles,
     ReadRulesSettles, WriteScoreSettles, EvaluateSettles, BadgeSettles, MilestoneSettles,
     CertificateSettles
     DEF RecognitionSteps
<1>5. QED BY <1>2, <1>3, <1>4, PatchSettles, ReadWorkSettles, FindRewardSettles,
             InsertRewardSettles, FlagRewardSettles
             DEF Continue

LEMMA NextSettling == Shape /\ Settling /\ [Next]_vars => Settling'
<1> SUFFICES ASSUME Shape, Settling, [Next]_vars PROVE Settling'
  OBVIOUS
<1>1. CASE UNCHANGED vars
  <2>1. UNCHANGED <<rows, workRows>> /\ quiet' = quiet /\ pc' = pc /\ arg' = arg
    BY <1>1 DEF vars, callVars
  <2>2. ASSUME NEW q \in quiet
        PROVE  Settled(pc[q], arg[q])'
    <3> PICK label, a : label = pc[q] /\ a = arg[q]
      OBVIOUS
    <3>1. Settled(label, a)'
      BY <2>1, SettledStays DEF Settling
    <3>2. QED BY <2>1, <3>1
  <2>3. QED BY <2>1, <2>2 DEF Settling
<1>2. CASE quiet' = {}
  BY <1>2 DEF Settling
<1>3. ASSUME NEW r \in Requests, Call(r) \/ Continue(r), Observe(r)
      PROVE  Settling'
  <2>1. Alone(r)
    BY <1>3, CallShape, ContinueShape, MovesAlone
  <2>2. pc'[r] # "idle" /\ (pc[r] = "idle" \/ Settled(pc[r], arg[r])) => Settles(r)
    BY <1>3, CallSettles, ContinueSettles
  <2>3. QED BY <1>3, <2>1, <2>2, SettlingKept
<1>4. QED BY <1>1, <1>2, <1>3 DEF Next

LEMMA InitSettling == InitTrackRewards => Settling
  BY DEF InitTrackRewards, Init, Settling

\* At its end a quiet call has done what QuietCallsSettle promises; of a track's
\* decision it takes the flags' backing as well.
LEMMA SettledAtEnd == Shape /\ Backing /\ Settling => QuietCallsSettle
<1> SUFFICES ASSUME Shape, Backing, Settling, NEW r \in quiet, pc[r] = "done",
                    NEW a, a = arg[r]
             PROVE  /\ a.call = "review" /\ a.decision = "approved" =>
                          /\ contribution[a.on] = "approved" /\ live[a.on] > 0
                          /\ score = Score
                          /\ badge = "active"
                          /\ hours => milestone
                          /\ a.issuer => certificate[a.on] # "none"
                    /\ a.call = "revoke" => live[a.on] = 0 /\ score = Score
                    /\ a.call = "work" /\ a.decision \in Rewarded =>
                          /\ flags[a.on] = Flagged
                          /\ live[a.on] > 0 /\ entries[a.on] > 0
  BY DEF QuietCallsSettle
<1>1. Settled("done", a)
  BY DEF Settling
<1>2. ASSUME a.call = "review", a.decision = "approved"
      PROVE  /\ contribution[a.on] = "approved" /\ live[a.on] > 0
             /\ score = Score
             /\ badge = "active"
             /\ hours => milestone
             /\ a.issuer => certificate[a.on] # "none"
  <2>1. ReviewSettled("done", a)
    BY <1>1, <1>2 DEF Settled
  <2>2. /\ contribution[a.on] = "approved" /\ live[a.on] > 0 /\ score = Score /\ badge = "active"
    BY <1>2, <2>1 DEF ReviewSettled, Scored, BadgeGiven
  <2>3. (hours => milestone) /\ (a.issuer => certificate[a.on] # "none")
    BY <1>2, <2>1, ZenonT(30) DEF ReviewSettled, MilestoneGiven
  <2>4. QED BY <2>2, <2>3
<1>3. ASSUME a.call = "revoke"
      PROVE  live[a.on] = 0 /\ score = Score
  BY <1>1, <1>3 DEF Settled, RevokeSettled
<1>4. ASSUME a.call = "work", a.decision \in Rewarded
      PROVE  flags[a.on] = Flagged /\ live[a.on] > 0 /\ entries[a.on] > 0
  <2>1. WorkSettled("done", a)
    BY <1>1, <1>4 DEF Settled
  <2>2. /\ Flagged \subseteq flags[a.on] \cup Listed(a.todo)
        /\ entries[a.on] > 0 \/ "hours" \in Listed(a.todo)
        /\ a.todo = <<>> /\ a.on \in TrackWork
    BY <1>4, <2>1 DEF WorkSettled
  <2>3. Listed(<<>>) = {}
    BY DEF Listed
  <2>4. flags[a.on] = Flagged
    BY <2>2, <2>3 DEF Shape, TablesOK
  <2>5. live[a.on] > 0
    BY <2>2, <2>4 DEF Backing, Backed, Flagged
  <2>6. QED BY <2>2, <2>3, <2>4, <2>5
<1>5. QED BY <1>2, <1>3, <1>4

\* reviewContribution, revokeContribution and reviewTrackContribution: a call
\* during which no other wrote does all of its work, whatever calls that overlapped
\* or died have left before it.
THEOREM QuietSettle == Spec => []QuietCallsSettle
<1>1. Spec => [](Shape /\ Backing /\ Settling)
  <2>1. InitTrackRewards => Shape /\ Backing /\ Settling
    BY InitShape, InitBacking, InitSettling
  <2>2. Shape /\ Backing /\ Settling /\ [Next]_vars => (Shape /\ Backing /\ Settling)'
    BY NextShape, NextBacking, NextSettling
  <2>3. QED BY <2>1, <2>2, PTL DEF Spec
<1>2. QED BY <1>1, SettledAtEnd, PTL

=============================================================================
