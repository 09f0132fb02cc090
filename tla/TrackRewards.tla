---------------------------- MODULE TrackRewards ----------------------------
(***************************************************************************)
(* The contributions a member makes within a track, and the rewards that   *)
(* approving, publishing and completing one each make sure of             *)
(* (reviewTrackContribution and awardTrackContributionRewards of           *)
(* src/modules/tracks/service.ts), composed with the recognition they      *)
(* reward: impact, hours, a contribution of record, and the badge.         *)
(*                                                                         *)
(* A reward is looked for and inserted, and then flagged on the row; the   *)
(* flags are read once, before the first.  No unique index covers impact,  *)
(* hours or the contribution of record.                                    *)
(*                                                                         *)
(* Every contribution claims hours.  The leader's scope and the member's   *)
(* track are TrackRoster.tla's; the history of reviews is left out.        *)
(***************************************************************************)
EXTENDS Recognition

VARIABLES
    work,       \* track_contributions: the status of each row
    flags,      \* the rewards each is flagged with
    entries     \* volunteer_hour_entries: how many have each as their source

workRows == <<work, flags, entries>>
vars     == <<rows, callVars, calls, quiet, torn, workRows>>

Flagged  == {"impact", "row", "badge"}
Rewarded == {"approved", "published", "completed"}

\* planContributionTransition.  No call makes a draft, or one whose changes were
\* requested, submitted.
Transitions ==
    [submitted         |-> {"under_review", "cancelled"},
     draft             |-> {"cancelled"},
     under_review      |-> {"changes_requested", "approved", "rejected", "cancelled"},
     changes_requested |-> {"cancelled"},
     approved          |-> {"published", "completed", "archived"},
     published         |-> {"completed", "archived"},
     completed         |-> {"archived"},
     rejected          |-> {"archived"},
     archived          |-> {},
     cancelled         |-> {}]

Decisions == UNION {Transitions[s] : s \in DOMAIN Transitions}

\* A review may find its contribution anywhere on the way.
InitTrackRewards ==
    /\ Init
    /\ work \in [TrackWork -> {"none", "under_review"}]
    /\ flags = [w \in TrackWork |-> {}]
    /\ entries = [w \in TrackWork |-> 0]

-----------------------------------------------------------------------------
(* createTrackContribution, reviewTrackContribution *)

CreateTrackContribution(r, w, status) ==
    /\ work[w] = "none"
    /\ work' = [work EXCEPT ![w] = status]
    /\ Once(r)
    /\ UNCHANGED <<rows, flags, entries>>

ReviewTrackContribution(r, w, decision) ==
    /\ pc[r] = "idle"
    /\ work[w] # "none"
    /\ decision \in Transitions[work[w]]
    /\ GoTo(r, "patch", [NoArg EXCEPT !.call = "work", !.on = w, !.decision = decision])
    /\ UNCHANGED <<rows, workRows>>

\* UPDATE ... WHERE id only.
Patch(r) ==
    /\ pc[r] = "patch"
    /\ work' = [work EXCEPT ![arg[r].on] = arg[r].decision]
    /\ Step(r, IF arg[r].decision \in Rewarded THEN "readWork" ELSE "done")
    /\ UNCHANGED <<rows, flags, entries>>

-----------------------------------------------------------------------------
(* awardTrackContributionRewards *)

\* The contribution of record is not looked for.
FirstStep(reward) == IF reward = "row" THEN "insert" ELSE "find"

Award(r, todo) ==
    GoTo(r, IF todo = <<>> THEN "done" ELSE FirstStep(Head(todo)),
         [arg[r] EXCEPT !.todo = todo])

\* The rewards that are not flagged; hours have no flag.
Owed(flagged) ==
       (IF "impact" \in flagged THEN <<>> ELSE <<"impact">>)
    \o <<"hours">>
    \o (IF "row" \in flagged THEN <<>> ELSE <<"row">>)
    \o (IF "badge" \in flagged THEN <<>> ELSE <<"badge">>)

\* The flags are read here and never again.
ReadWork(r) ==
    /\ pc[r] = "readWork"
    /\ Award(r, Owed(flags[arg[r].on]))
    /\ UNCHANGED <<rows, workRows>>

IsThere(reward, w) ==
    CASE reward = "impact" -> live[w] > 0
      [] reward = "hours"  -> entries[w] > 0
      [] reward = "badge"  -> badge = "active"

Inserted(r) ==
    IF Head(arg[r].todo) = "hours" THEN Award(r, Tail(arg[r].todo)) ELSE Step(r, "flag")

\* Mutant: the flag is set before the reward is inserted.
FindRewardFlagFirst(r) ==
    /\ pc[r] = "find"
    /\ IF IsThere(Head(arg[r].todo), arg[r].on) THEN Inserted(r) ELSE Step(r, "insert")
    /\ flags' = [flags EXCEPT ![arg[r].on] = @ \cup ({Head(arg[r].todo)} \cap Flagged)]
    /\ UNCHANGED <<rows, work, entries>>

FindReward(r) ==
    /\ pc[r] = "find"
    /\ IF IsThere(Head(arg[r].todo), arg[r].on) THEN Inserted(r) ELSE Step(r, "insert")
    /\ UNCHANGED <<rows, workRows>>

InsertWorkImpact(r) ==
    /\ Head(arg[r].todo) = "impact"
    /\ live' = [live EXCEPT ![arg[r].on] = @ + 1]
    /\ Inserted(r)
    /\ UNCHANGED <<contribution, origin, weight, score, hours, badge, milestone, certificate, entries>>

InsertHours(r) ==
    /\ Head(arg[r].todo) = "hours"
    /\ entries' = [entries EXCEPT ![arg[r].on] = @ + 1]
    /\ Inserted(r)
    /\ UNCHANGED rows

InsertRow(r, c) ==
    /\ Head(arg[r].todo) = "row"
    /\ contribution[c] = "none"
    /\ contribution' = [contribution EXCEPT ![c] = "approved"]
    /\ origin' = [origin EXCEPT ![c] = arg[r].on]
    /\ Inserted(r)
    /\ UNCHANGED <<live, weight, score, hours, badge, milestone, certificate, entries>>

\* Here the unique index on active awards may refuse the insert.
InsertWorkBadge(r) ==
    /\ Head(arg[r].todo) = "badge"
    /\ \/ badge = "active" /\ Throw(r) /\ UNCHANGED badge
       \/ badge # "active" /\ badge' = "active" /\ Inserted(r)
    /\ UNCHANGED <<contribution, origin, live, weight, score, hours, milestone, certificate, entries>>

InsertReward(r) ==
    /\ pc[r] = "insert"
    /\ \/ InsertWorkImpact(r)
       \/ InsertHours(r)
       \/ \E c \in Contributions : InsertRow(r, c)
       \/ InsertWorkBadge(r)
    /\ UNCHANGED <<work, flags>>

FlagReward(r) ==
    /\ pc[r] = "flag"
    /\ flags' = [flags EXCEPT ![arg[r].on] = @ \cup {Head(arg[r].todo)}]
    /\ Award(r, Tail(arg[r].todo))
    /\ UNCHANGED <<rows, work, entries>>

-----------------------------------------------------------------------------
(* History *)

\* A call is quiet until another writes.
Observe(r) ==
    LET begun == IF pc[r] = "idle" THEN {r} ELSE {}
        ended == IF pc'[r] = "idle" THEN {r} ELSE {}
    IN
    quiet' = (IF UNCHANGED <<rows, workRows>> THEN quiet \cup begun ELSE quiet \cap {r}) \ ended

\* The contributions that are torn when r begins a call, or dies in one.
Tear(r) ==
    torn' = torn \cup
        {c \in Contributions :
            \/ pc[r] = "idle" /\ arg'[r].on = c /\ arg'[r].call \in {"review", "revoke"} /\ Working(c)
            \/ pc[r] \in WorkingAt /\ arg[r].on = c /\ pc'[r] = "idle"}

Call(r) ==
    \/ RecognitionCalls(r) /\ UNCHANGED workRows
    \/ \E w \in TrackWork :
        \/ \E status \in {"draft", "submitted"} : CreateTrackContribution(r, w, status)
        \/ \E d \in Decisions : ReviewTrackContribution(r, w, d)

Continue(r) ==
    \/ RecognitionSteps(r) /\ UNCHANGED workRows
    \/ Patch(r) \/ ReadWork(r) \/ FindReward(r) \/ InsertReward(r) \/ FlagReward(r)
    \/ Crash(r) /\ UNCHANGED workRows

\* MaxCalls is a bound of the model, not of the code.
Next ==
    \/ /\ calls < MaxCalls
       /\ calls' = calls + 1
       /\ \/ \E r \in Requests : Call(r) /\ Observe(r) /\ Tear(r)
          \/ HoursChange /\ quiet' = {} /\ UNCHANGED <<torn, workRows>>
    \/ \E r \in Requests : Continue(r) /\ Observe(r) /\ Tear(r) /\ UNCHANGED calls

Spec == InitTrackRewards /\ [][Next]_vars

-----------------------------------------------------------------------------
(* Properties *)

\* awardTrackContributionRewards: a flag is never set without the reward it
\* stands for, so that no crash between the two loses a reward.
RewardsAreBacked ==
    \A w \in TrackWork :
        /\ "impact" \in flags[w] => live[w] > 0
        /\ "row" \in flags[w] => \E c \in Contributions : origin[c] = w
        /\ "badge" \in flags[w] => badge # "none"

\* A call during which no other wrote does all of its work, whatever calls that
\* overlapped or died have left before it: an approval makes its contribution
\* count, the score exact, the badge, the milestone and the certificate there; a
\* revocation takes the impact back; a track's decision leaves every reward.
QuietCallsSettle ==
    \A r \in quiet :
        LET a == arg[r] IN
        pc[r] = "done" =>
            /\ a.call = "review" /\ a.decision = "approved" =>
                /\ contribution[a.on] = "approved" /\ live[a.on] > 0
                /\ score = Score
                /\ badge = "active"
                /\ hours => milestone
                /\ a.issuer => certificate[a.on] # "none"
            /\ a.call = "revoke" => live[a.on] = 0 /\ score = Score
            /\ a.call = "work" /\ a.decision \in Rewarded =>
                /\ flags[a.on] = Flagged
                /\ live[a.on] > 0 /\ entries[a.on] > 0
=============================================================================
