---------------------------- MODULE Recognition ----------------------------
(***************************************************************************)
(* The recognition of one member: contributions that staff review and      *)
(* revoke, the impact events and the score they make up, the badge and the *)
(* milestone awarded automatically, and certificates                       *)
(* (src/modules/recognition/service.ts).  Members share no row, so one     *)
(* stands for all.                                                         *)
(*                                                                         *)
(* Every call is a sequence of statements without a transaction.  The      *)
(* unique indexes of badge_awards (one active award), member_milestones    *)
(* and certificates (one per source) refuse a second row: the insert       *)
(* throws, and the statements before it stay.                              *)
(*                                                                         *)
(* An impact event counts one; the types' values scale it and are left     *)
(* out, as are texts, audit rows, notifications and the badges that need   *)
(* a person's approval.  Of the automatic badges the contributor's stands  *)
(* for both: the other asks for hours, as the milestone does.              *)
(***************************************************************************)
EXTENDS Naturals, Sequences, FiniteSets, FiniteSetsExt

CONSTANTS
    Contributions, TrackWork,   \* rows of contributions and track_contributions
    Requests, None,
    MaxCalls                    \* bounds the calls of a behaviour

ASSUME RowsApart     == Contributions \cap TrackWork = {}
ASSUME NoneIsNothing == None \notin Contributions \cup TrackWork

VARIABLES
    contribution,   \* contributions: the status of each row
    origin,         \* the track contribution a row was made from, if any
    live,           \* impact_events: how many of each source are not revoked
    weight,         \* impact_rules: the weight of a contribution
    score,          \* volunteer_profiles.impact_score_cache
    hours,          \* whether the approved hours reach the milestone
    badge,          \* badge_awards: none, one active, or revoked ones only
    milestone,      \* member_milestones
    certificate,    \* certificates of the definition "approved_contribution"
    pc, arg,        \* where each request is, and its locals
    calls,          \* the calls so far
    \* History, read by properties only: the calls no other has disturbed, and
    \* the contributions on which calls have overlapped or died.
    quiet, torn

rows     == <<contribution, origin, live, weight, score, hours, badge, milestone, certificate>>
callVars == <<pc, arg>>

ContributionStatus == {"none", "submitted", "approved", "rejected", "revoked"}
AwardStatus        == {"none", "active", "revoked"}
CertificateStatus  == {"none", "active", "revoked"}

Labels ==
    {"idle", "decide", "impact", "writeRevoked", "revokeImpact", "readEvents", "readRules",
     "writeScore", "evaluate", "findBadge", "insertBadge", "findMilestone", "insertMilestone",
     "checkSource", "findCertificate", "insertCertificate", "done"}

\* call: the function; on: its row; issuer: the reviewer may issue certificates;
\* events, hours: what was read; todo: TrackRewards.tla's.
NoArg == [call |-> "none", on |-> None, decision |-> "none", issuer |-> FALSE,
          events |-> 0, hours |-> FALSE, todo |-> <<>>]

Sources == Contributions \cup TrackWork

\* The whole impact, and the score it comes to.
EventsOf(counts) == MapThenSumSet(LAMBDA s : counts[s], Sources)

Events == EventsOf(live)
Score  == weight * Events

Init ==
    /\ contribution = [c \in Contributions |-> "none"]
    /\ origin = [c \in Contributions |-> None]
    /\ live = [s \in Sources |-> 0]
    /\ weight = 1 /\ score = 0
    /\ hours \in BOOLEAN
    /\ badge = "none" /\ milestone = FALSE
    /\ certificate = [c \in Contributions |-> "none"]
    /\ pc  = [r \in Requests |-> "idle"]
    /\ arg = [r \in Requests |-> NoArg]
    /\ calls = 0
    /\ quiet = {} /\ torn = {}

GoTo(r, label, a) ==
    /\ pc'  = [pc  EXCEPT ![r] = label]
    /\ arg' = [arg EXCEPT ![r] = a]

Step(r, label) == GoTo(r, label, arg[r])
Return(r)      == GoTo(r, "idle", NoArg)

\* An error returned to the caller; nothing is rolled back.
Throw(r) == Return(r)

Begin(r, label, call, c) ==
    /\ pc[r] = "idle"
    /\ GoTo(r, label, [NoArg EXCEPT !.call = call, !.on = c])

\* A call whose one statement that matters is a single step.
Once(r) == pc[r] = "idle" /\ UNCHANGED callVars

-----------------------------------------------------------------------------
(* submitContribution, reviewContribution, revokeContribution *)

SubmitContribution(r, c) ==
    /\ contribution[c] = "none"
    /\ contribution' = [contribution EXCEPT ![c] = "submitted"]
    /\ Once(r)
    /\ UNCHANGED <<origin, live, weight, score, hours, badge, milestone, certificate>>

\* Mutant: a contribution is reviewed whatever its status.
ReviewAnyContribution(r, c, decision, issuer) ==
    /\ pc[r] = "idle"
    /\ contribution[c] # "none"
    /\ GoTo(r, "decide",
            [NoArg EXCEPT !.call = "review", !.on = c, !.decision = decision, !.issuer = issuer])
    /\ UNCHANGED rows

ReviewContribution(r, c, decision, issuer) ==
    /\ pc[r] = "idle"
    /\ contribution[c] = "submitted"
    /\ GoTo(r, "decide",
            [NoArg EXCEPT !.call = "review", !.on = c, !.decision = decision, !.issuer = issuer])
    /\ UNCHANGED rows

\* UPDATE ... WHERE id only.
Decide(r) ==
    /\ pc[r] = "decide"
    /\ contribution' = [contribution EXCEPT ![arg[r].on] = arg[r].decision]
    /\ Step(r, IF arg[r].decision = "approved" THEN "impact" ELSE "done")
    /\ UNCHANGED <<origin, live, weight, score, hours, badge, milestone, certificate>>

InsertImpact(r) ==
    /\ pc[r] = "impact"
    /\ live' = [live EXCEPT ![arg[r].on] = @ + 1]
    /\ Step(r, "readEvents")
    /\ UNCHANGED <<contribution, origin, weight, score, hours, badge, milestone, certificate>>

RevokeContribution(r, c) ==
    /\ contribution[c] = "approved"
    /\ Begin(r, "writeRevoked", "revoke", c)
    /\ UNCHANGED rows

WriteRevoked(r) ==
    /\ pc[r] = "writeRevoked"
    /\ contribution' = [contribution EXCEPT ![arg[r].on] = "revoked"]
    /\ Step(r, "revokeImpact")
    /\ UNCHANGED <<origin, live, weight, score, hours, badge, milestone, certificate>>

\* Mutant: the score is not refreshed.
RevokeWithoutRefresh(r) ==
    /\ pc[r] = "revokeImpact"
    /\ live' = [live EXCEPT ![arg[r].on] = 0]
    /\ Step(r, "done")
    /\ UNCHANGED <<contribution, origin, weight, score, hours, badge, milestone, certificate>>

\* The events whose source is this contribution; those of a track's have
\* another source and stay.
RevokeImpact(r) ==
    /\ pc[r] = "revokeImpact"
    /\ live' = [live EXCEPT ![arg[r].on] = 0]
    /\ Step(r, "readEvents")
    /\ UNCHANGED <<contribution, origin, weight, score, hours, badge, milestone, certificate>>

-----------------------------------------------------------------------------
(* refreshMemberImpact, updateImpactWeight *)

ReadEvents(r) ==
    /\ pc[r] = "readEvents"
    /\ GoTo(r, "readRules", [arg[r] EXCEPT !.events = Events])
    /\ UNCHANGED rows

ReadRules(r) ==
    /\ pc[r] = "readRules"
    /\ GoTo(r, "writeScore", [arg[r] EXCEPT !.events = weight * @])
    /\ UNCHANGED rows

WriteScore(r) ==
    /\ pc[r] = "writeScore"
    /\ score' = arg[r].events
    /\ GoTo(r, IF arg[r].call = "review" THEN "evaluate" ELSE "done", [arg[r] EXCEPT !.events = 0])
    /\ UNCHANGED <<contribution, origin, live, weight, hours, badge, milestone, certificate>>

\* The scores of members are left as they are.
UpdateImpactWeight(r, w) ==
    /\ w # weight
    /\ weight' = w
    /\ Once(r)
    /\ UNCHANGED <<contribution, origin, live, score, hours, badge, milestone, certificate>>

-----------------------------------------------------------------------------
(* evaluateAutomaticBadges, evaluateHourMilestones, awardBadge, revokeBadge *)

Approved == {c \in Contributions : contribution[c] = "approved"}

Evaluate(r) ==
    /\ pc[r] = "evaluate"
    /\ GoTo(r, IF Approved # {} THEN "findBadge" ELSE "findMilestone", [arg[r] EXCEPT !.hours = hours])
    /\ UNCHANGED rows

\* The contributor's badge may also be given by hand.
AwardBadge(r) == Begin(r, "findBadge", "award", None) /\ UNCHANGED rows

BadgeDone(r) == IF arg[r].call = "award" THEN "done" ELSE "findMilestone"

FindBadge(r) ==
    /\ pc[r] = "findBadge"
    /\ Step(r, IF badge = "active" THEN BadgeDone(r) ELSE "insertBadge")
    /\ UNCHANGED rows

InsertBadge(r) ==
    /\ pc[r] = "insertBadge"
    /\ \/ badge = "active" /\ Throw(r) /\ UNCHANGED badge
       \/ badge # "active" /\ Step(r, BadgeDone(r)) /\ badge' = "active"
    /\ UNCHANGED <<contribution, origin, live, weight, score, hours, milestone, certificate>>

\* Of an award that is revoked already, only the date changes.
RevokeBadge(r) ==
    /\ badge # "none"
    /\ badge' = "revoked"
    /\ Once(r)
    /\ UNCHANGED <<contribution, origin, live, weight, score, hours, milestone, certificate>>

\* What an approval does after the badges.
Evaluated(r) == IF arg[r].issuer THEN "checkSource" ELSE "done"

FindMilestone(r) ==
    /\ pc[r] = "findMilestone"
    /\ Step(r, IF arg[r].hours /\ ~milestone THEN "insertMilestone" ELSE Evaluated(r))
    /\ UNCHANGED rows

InsertMilestone(r) ==
    /\ pc[r] = "insertMilestone"
    /\ \/ milestone /\ Throw(r) /\ UNCHANGED milestone
       \/ ~milestone /\ Step(r, Evaluated(r)) /\ milestone' = TRUE
    /\ UNCHANGED <<contribution, origin, live, weight, score, hours, badge, certificate>>

\* Volunteering approves an entry, or an adjustment takes hours back.
HoursChange ==
    /\ hours' = ~hours
    /\ UNCHANGED <<contribution, origin, live, weight, score, badge, milestone, certificate, callVars>>

-----------------------------------------------------------------------------
(* issueCertificate, revokeCertificate *)

IssueCertificate(r, c) == Begin(r, "checkSource", "issue", c) /\ UNCHANGED rows

CheckSource(r) ==
    /\ pc[r] = "checkSource"
    /\ \/ contribution[arg[r].on] = "approved" /\ Step(r, "findCertificate")
       \/ contribution[arg[r].on] # "approved" /\ Throw(r)
    /\ UNCHANGED rows

\* A certificate that is revoked is found as well, and stays so.
FindCertificate(r) ==
    /\ pc[r] = "findCertificate"
    /\ Step(r, IF certificate[arg[r].on] # "none" THEN "done" ELSE "insertCertificate")
    /\ UNCHANGED rows

InsertCertificate(r) ==
    LET c == arg[r].on IN
    /\ pc[r] = "insertCertificate"
    /\ \/ certificate[c] # "none" /\ Throw(r) /\ UNCHANGED certificate
       \/ /\ certificate[c] = "none"
          /\ certificate' = [certificate EXCEPT ![c] = "active"]
          /\ Step(r, "done")
    /\ UNCHANGED <<contribution, origin, live, weight, score, hours, badge, milestone>>

RevokeCertificate(r, c) ==
    /\ certificate[c] # "none"
    /\ certificate' = [certificate EXCEPT ![c] = "revoked"]
    /\ Once(r)
    /\ UNCHANGED <<contribution, origin, live, weight, score, hours, badge, milestone>>

Finish(r) == pc[r] = "done" /\ Return(r) /\ UNCHANGED rows

\* The process dies, or the database is lost, between two statements.
Crash(r) == pc[r] # "idle" /\ Return(r) /\ UNCHANGED rows

-----------------------------------------------------------------------------

RecognitionCalls(r) ==
    \/ \E c \in Contributions :
        \/ SubmitContribution(r, c)
        \/ \E d \in {"approved", "rejected"}, issuer \in BOOLEAN : ReviewContribution(r, c, d, issuer)
        \/ RevokeContribution(r, c)
        \/ IssueCertificate(r, c)
        \/ RevokeCertificate(r, c)
    \/ \E w \in {1, 2} : UpdateImpactWeight(r, w)
    \/ AwardBadge(r)
    \/ RevokeBadge(r)

RecognitionSteps(r) ==
    \/ Decide(r) \/ InsertImpact(r)
    \/ WriteRevoked(r) \/ RevokeImpact(r)
    \/ ReadEvents(r) \/ ReadRules(r) \/ WriteScore(r)
    \/ Evaluate(r) \/ FindBadge(r) \/ InsertBadge(r) \/ FindMilestone(r) \/ InsertMilestone(r)
    \/ CheckSource(r) \/ FindCertificate(r) \/ InsertCertificate(r)
    \/ Finish(r)

-----------------------------------------------------------------------------
(* Properties *)

\* IMPACT_SCORE.md, "non-revoked impact events": while the calls on a submitted
\* contribution neither overlap nor die, it has one live event when it is
\* approved and none when it is not, whatever calls on others go on around it.
WorkingAt  == {"decide", "impact", "writeRevoked", "revokeImpact"}
Working(c) == \E r \in Requests : arg[r].on = c /\ pc[r] \in WorkingAt

ImpactFollowsStatus ==
    \A c \in Contributions \ torn :
        origin[c] = None /\ ~Working(c) =>
            live[c] = IF contribution[c] = "approved" THEN 1 ELSE 0
=============================================================================
