--------------------------- MODULE VolunteerHours ---------------------------
(***************************************************************************)
(* The hours of one volunteer (src/modules/volunteering/service.ts and     *)
(* ledger.ts): entries that reviewers decide, adjustments that             *)
(* administrators make, the impact events that approvals earn, and the     *)
(* volunteer's profile with its caches and the level that hours and impact *)
(* promote it to.                                                          *)
(*                                                                         *)
(* Nothing here is a transaction: a decision reads the entry and updates   *)
(* it in two statements, an adjustment checks the total before it inserts, *)
(* and a refresh reads the entries, reads the adjustments, reads the       *)
(* entries again, and writes what they came to.  Volunteers share no row,  *)
(* so one stands for all.                                                  *)
(*                                                                         *)
(* Hours are whole numbers (the code rounds every sum to the hundredth     *)
(* that its columns hold).  An impact event counts the hours of its entry; *)
(* the weights of impact_rules scale every sum alike and are left out, as  *)
(* are the badges that an approval awards (that it asks for the hours to   *)
(* do so, and may repair their cache, is not), the texts of the profile,   *)
(* the history of levels, audit rows and notifications.  The volunteer     *)
(* holds a membership that makes him eligible.  A level is its place in    *)
(* PROGRESSION_LEVELS, from 0.                                             *)
(***************************************************************************)
EXTENDS Integers, FiniteSets, FiniteSetsExt

CONSTANTS Entries, Hours, Deltas, MaxAdjustments,
          MaxLevel, Rules,   \* volunteer_progression_rules that are enabled
          Volunteers, Reviewers, Administrators,   \* requests, by what they call
          None

ASSUME EntriesFinite == IsFiniteSet(Entries)
ASSUME HoursType == Hours \in [Entries -> Nat \ {0}]
ASSUME DeltasType == Deltas \subseteq Int
ASSUME Bound == MaxAdjustments \in Nat

Levels == 0..MaxLevel

ASSUME LevelsType == MaxLevel \in Nat
Rule == [level : Levels, hours : Nat, completed : Nat, score : Nat, manual : BOOLEAN]
ASSUME RulesType == Rules \subseteq Rule

Requests == Volunteers \cup Reviewers \cup Administrators

VARIABLES
    entry,                  \* volunteer_hour_entries: status
    adjusted, adjustments,  \* volunteer_hour_adjustments: their sum and number
    impact,                 \* impact_events: how many for each entry
    profile, level,         \* volunteer_profiles: whether there is one, and its level
    approvedCache, pendingCache, scoreCache,   \* ... and its caches
    pc, arg,                \* where each request is, and its locals
    \* History: the calls during which no other wrote, the entries that two calls
    \* have decided at once, and whether two corrections were ever under way.
    quiet, contested, crossed

ledger   == <<entry, adjusted, adjustments, impact>>
caches   == <<approvedCache, pendingCache, scoreCache>>
person   == <<profile, level>>
callVars == <<pc, arg>>
history  == <<quiet, contested, crossed>>
vars     == <<ledger, caches, person, callVars, history>>

\* call: the function; to: the decision; delta: the adjustment; use: what the
\* total under way is for; total, pending, score, level: what was read; best: a
\* level to assign; cache: the cache as getApprovedHoursForUser found it; answer:
\* what it returns.
NoArg == [call |-> "none", entry |-> None, to |-> "none", delta |-> 0, use |-> "refresh",
          total |-> 0, pending |-> 0, score |-> 0, level |-> 0, best |-> 0, cache |-> 0, answer |-> 0]

HoursOf(status) == SumFunctionOnSet(Hours, {e \in Entries : entry[e] = status})

\* sumApprovedHours
Total == HoursOf("approved") + adjusted

\* calculateImpactScore
Score == SumFunctionOnSet([e \in Entries |-> Hours[e] * impact[e]], Entries)

Init ==
    /\ entry = [e \in Entries |-> "none"]
    /\ adjusted = 0 /\ adjustments = 0
    /\ impact = [e \in Entries |-> 0]
    /\ profile = FALSE /\ level = 0
    /\ approvedCache = 0 /\ pendingCache = 0 /\ scoreCache = 0
    /\ pc  = [r \in Requests |-> "idle"]
    /\ arg = [r \in Requests |-> NoArg]
    /\ quiet = {} /\ contested = {} /\ crossed = FALSE

GoTo(r, label, a) ==
    /\ pc'  = [pc  EXCEPT ![r] = label]
    /\ arg' = [arg EXCEPT ![r] = a]

Return(r) == GoTo(r, "idle", NoArg)

\* Locals that are read no more, reset so as not to tell states apart.
Forget(a) == [a EXCEPT !.entry = None, !.delta = 0, !.total = 0, !.pending = 0,
                       !.score = 0, !.level = 0, !.best = 0, !.cache = 0]

\* recomputeApprovedHours, for the check of an adjustment, for an answer, or for
\* refreshProfileHourCaches.
Recompute(r, use) == GoTo(r, "sumEntries", [Forget(arg[r]) EXCEPT !.use = use])

-----------------------------------------------------------------------------
(* What a call reads first *)

\* activateVolunteerProfile: a new profile (no code makes one inactive).
ActivateVolunteerProfile(r) ==
    /\ pc[r] = "idle"
    /\ ~profile
    /\ GoTo(r, "insertProfile", [NoArg EXCEPT !.call = "activate"])
    /\ UNCHANGED <<ledger, caches, person>>

\* The row comes with level and caches 0; a unique index refuses a second one.
InsertProfile(r) ==
    /\ pc[r] = "insertProfile"
    /\ profile' = TRUE
    /\ IF profile THEN Return(r) ELSE GoTo(r, "done", arg[r])
    /\ UNCHANGED <<ledger, caches, level>>

\* A volunteer needs a profile to submit; an organizer submits for anyone.
SubmitVolunteerHours(r, e) ==
    /\ pc[r] = "idle"
    /\ r \in Volunteers => profile
    /\ entry[e] = "none"
    /\ entry' = [entry EXCEPT ![e] = "pending"]
    /\ GoTo(r, "sumEntries", [NoArg EXCEPT !.call = "submit"])
    /\ UNCHANGED <<adjusted, adjustments, impact, caches, person>>

GetApprovedHoursForUser(r) ==
    /\ pc[r] = "idle"
    /\ GoTo(r, "sumEntries",
            [NoArg EXCEPT !.call = "get", !.use = "answer", !.cache = approvedCache])
    /\ UNCHANGED <<ledger, caches, person>>

\* Mutant: any entry can be decided.
ReviewAny(r, e, decision) ==
    /\ pc[r] = "idle"
    /\ entry[e] # "none"
    /\ GoTo(r, "decide", [NoArg EXCEPT !.call = "review", !.entry = e, !.to = decision])
    /\ UNCHANGED <<ledger, caches, person>>

ReviewVolunteerHours(r, e, decision) ==
    /\ pc[r] = "idle"
    /\ entry[e] = "pending"
    /\ GoTo(r, "decide", [NoArg EXCEPT !.call = "review", !.entry = e, !.to = decision])
    /\ UNCHANGED <<ledger, caches, person>>

AdjustVolunteerHours(r, e, delta) ==
    /\ pc[r] = "idle"
    /\ entry[e] = "approved"
    /\ GoTo(r, "sumEntries", [NoArg EXCEPT !.call = "adjust", !.use = "check", !.delta = delta])
    /\ UNCHANGED <<ledger, caches, person>>

-----------------------------------------------------------------------------
(* The statements that follow *)

WriteDecision(r) ==
    /\ pc[r] = "decide"
    /\ entry' = [entry EXCEPT ![arg[r].entry] = arg[r].to]
    /\ IF arg[r].to = "approved"
       THEN GoTo(r, "insertImpact", arg[r])
       ELSE Recompute(r, "refresh")
    /\ UNCHANGED <<adjusted, adjustments, impact, caches, person>>

InsertImpact(r) ==
    /\ pc[r] = "insertImpact"
    /\ impact' = [impact EXCEPT ![arg[r].entry] = @ + 1]
    /\ GoTo(r, "readEvents", Forget(arg[r]))
    /\ UNCHANGED <<entry, adjusted, adjustments, caches, person>>

\* refreshImpactScore
ReadEvents(r) ==
    /\ pc[r] = "readEvents"
    /\ GoTo(r, "writeScore", [arg[r] EXCEPT !.score = Score])
    /\ UNCHANGED <<ledger, caches, person>>

\* An UPDATE of the profile changes nothing where there is none.
InProfile(value, cache) == IF profile THEN value ELSE cache

\* A review refreshes the score before the hours, an adjustment after.
WriteScore(r) ==
    /\ pc[r] = "writeScore"
    /\ scoreCache' = InProfile(arg[r].score, scoreCache)
    /\ GoTo(r, IF arg[r].call = "adjust" THEN "done" ELSE "readProfile", Forget(arg[r]))
    /\ UNCHANGED <<ledger, approvedCache, pendingCache, person>>

-----------------------------------------------------------------------------
(* evaluateAutoProgression, assignProgressionLevel *)

\* countCompletedOpportunities: no code completes a participation.
Completed == 0

Met(rule, total, score) ==
    /\ ~rule.manual
    /\ rule.hours <= total
    /\ rule.completed <= Completed
    /\ rule.score <= score

\* The highest level whose rule is met, or the present one if it is higher.
Best(total, score, present) ==
    Max({present} \cup {rule.level : rule \in {x \in Rules : Met(x, total, score)}})

\* The impact is that of the cache, the hours are summed again.
ReadProfile(r) ==
    /\ pc[r] = "readProfile"
    /\ \/ ~profile /\ GoTo(r, "readCache", arg[r])
       \/ /\ profile
          /\ GoTo(r, "sumEntries", [arg[r] EXCEPT !.use = "progress", !.score = scoreCache, !.level = level])
    /\ UNCHANGED <<ledger, caches, person>>

EvaluateAutoProgression(r, total) ==
    LET best == Best(total, arg[r].score, arg[r].level) IN
    IF best = arg[r].level
    THEN GoTo(r, "readCache", Forget(arg[r]))
    ELSE GoTo(r, "rereadLevel", [Forget(arg[r]) EXCEPT !.best = best])

\* By hand: any level, up or down.
AssignProgressionLevel(r, to) ==
    /\ pc[r] = "idle"
    /\ profile
    /\ level # to
    /\ GoTo(r, "writeLevel", [NoArg EXCEPT !.call = "assign", !.best = to])
    /\ UNCHANGED <<ledger, caches, person>>

RereadLevel(r) ==
    /\ pc[r] = "rereadLevel"
    /\ IF level = arg[r].best
       THEN GoTo(r, "readCache", Forget(arg[r]))
       ELSE GoTo(r, "writeLevel", arg[r])
    /\ UNCHANGED <<ledger, caches, person>>

WriteLevel(r) ==
    /\ pc[r] = "writeLevel"
    /\ level' = arg[r].best
    /\ IF arg[r].call = "assign"
       THEN GoTo(r, "done", arg[r])
       ELSE GoTo(r, "readCache", Forget(arg[r]))
    /\ UNCHANGED <<ledger, caches, profile>>

-----------------------------------------------------------------------------
(* The totals *)

\* evaluateAutomaticBadges asks for the hours as getApprovedHoursForUser gives
\* them.
EvaluateAutomaticBadges(r) ==
    /\ pc[r] = "readCache"
    /\ GoTo(r, "sumEntries", [arg[r] EXCEPT !.use = "answer", !.cache = approvedCache])
    /\ UNCHANGED <<ledger, caches, person>>

SumEntries(r) ==
    /\ pc[r] = "sumEntries"
    /\ GoTo(r, "sumAdjustments", [arg[r] EXCEPT !.total = HoursOf("approved")])
    /\ UNCHANGED <<ledger, caches, person>>

\* Mutant: the total is not checked.
AdjustUnchecked(r, total) == GoTo(r, "insertAdjustment", [arg[r] EXCEPT !.total = 0])

\* negative_total_blocked
CheckedAdjust(r, total) ==
    IF total + arg[r].delta < 0 THEN Return(r) ELSE GoTo(r, "insertAdjustment", [arg[r] EXCEPT !.total = 0])

\* What follows an answer: a review goes on to refresh the caches, in any case.
Answered(r, a) ==
    IF a.call = "review"
    THEN GoTo(r, "sumEntries", [Forget(a) EXCEPT !.use = "refresh"])
    ELSE GoTo(r, "done", Forget(a))

\* Mutant: an answer does not repair the cache.
AnswerOnly(r, total) ==
    Answered(r, [arg[r] EXCEPT !.answer = IF arg[r].call = "get" THEN total ELSE 0])

\* The cache is refreshed when it is not what was recomputed.
Answer(r, total) ==
    LET a == [arg[r] EXCEPT !.answer = IF arg[r].call = "get" THEN total ELSE 0] IN
    IF total = a.cache \/ ~profile
    THEN Answered(r, a)
    ELSE GoTo(r, "sumEntries", [Forget(a) EXCEPT !.use = "repair"])

SumAdjustments(r) ==
    LET total == arg[r].total + adjusted IN
    /\ pc[r] = "sumAdjustments"
    /\ \/ arg[r].use = "check"   /\ CheckedAdjust(r, total)
       \/ arg[r].use = "answer"  /\ Answer(r, total)
       \/ arg[r].use = "progress" /\ EvaluateAutoProgression(r, total)
       \/ arg[r].use \in {"refresh", "repair"} /\ GoTo(r, "sumPending", [arg[r] EXCEPT !.total = total])
    /\ UNCHANGED <<ledger, caches, person>>

\* MaxAdjustments is a bound of the model, not of the code.
InsertAdjustment(r) ==
    /\ pc[r] = "insertAdjustment"
    /\ adjustments < MaxAdjustments
    /\ adjusted'    = adjusted + arg[r].delta
    /\ adjustments' = adjustments + 1
    /\ Recompute(r, "refresh")
    /\ UNCHANGED <<entry, impact, caches, person>>

SumPending(r) ==
    /\ pc[r] = "sumPending"
    /\ GoTo(r, "writeCaches", [arg[r] EXCEPT !.pending = HoursOf("pending")])
    /\ UNCHANGED <<ledger, caches, person>>

CachesWritten(r) ==
    IF arg[r].use = "repair" THEN Answered(r, arg[r])
    ELSE GoTo(r, IF arg[r].call = "adjust" THEN "readEvents" ELSE "done", Forget(arg[r]))

WriteCaches(r) ==
    /\ pc[r] = "writeCaches"
    /\ approvedCache' = InProfile(arg[r].total, approvedCache)
    /\ pendingCache'  = InProfile(arg[r].pending, pendingCache)
    /\ CachesWritten(r)
    /\ UNCHANGED <<ledger, scoreCache, person>>

Done(r) ==
    /\ pc[r] = "done"
    /\ Return(r)
    /\ UNCHANGED <<ledger, caches, person>>

\* The process dies, or the database is lost, at any statement.
Crash(r) ==
    /\ pc[r] # "idle"
    /\ Return(r)
    /\ UNCHANGED <<ledger, caches, person>>

-----------------------------------------------------------------------------

\* The server actions, by whom they let in.
VolunteerCalls(r) ==
    /\ r \in Volunteers
    /\ \/ ActivateVolunteerProfile(r)
       \/ GetApprovedHoursForUser(r)
       \/ \E e \in Entries : SubmitVolunteerHours(r, e)

ReviewerCalls(r) ==
    /\ r \in Reviewers
    /\ \E e \in Entries :
           \/ SubmitVolunteerHours(r, e)
           \/ \E decision \in {"approved", "rejected"} : ReviewVolunteerHours(r, e, decision)

AdministratorCalls(r) ==
    /\ r \in Administrators
    /\ \/ /\ adjustments < MaxAdjustments
          /\ \E e \in Entries, delta \in Deltas : AdjustVolunteerHours(r, e, delta)
       \/ \E to \in Levels : AssignProgressionLevel(r, to)

Call(r) == VolunteerCalls(r) \/ ReviewerCalls(r) \/ AdministratorCalls(r)

Continue(r) ==
    \/ InsertProfile(r)
    \/ WriteDecision(r)
    \/ InsertImpact(r)
    \/ ReadEvents(r)
    \/ WriteScore(r)
    \/ ReadProfile(r)
    \/ RereadLevel(r)
    \/ WriteLevel(r)
    \/ EvaluateAutomaticBadges(r)
    \/ SumEntries(r)
    \/ SumAdjustments(r)
    \/ InsertAdjustment(r)
    \/ SumPending(r)
    \/ WriteCaches(r)
    \/ Done(r)

\* A call that has read e to decide it, and one that adjusts the total.
Decides(r, e) == pc[r] = "decide" /\ arg[r].entry = e
Adjusts(r)    == arg[r].use = "check"

Contested == {e \in Entries : \E r, q \in Requests : r # q /\ Decides(r, e) /\ Decides(q, e)}
Crossed   == \E r, q \in Requests : r # q /\ Adjusts(r) /\ Adjusts(q)

\* A call begins quiet; a write of another ends that.
Observe(r) ==
    /\ contested' = contested \cup Contested'
    /\ crossed' = (crossed \/ Crossed')
    /\ quiet' = IF UNCHANGED <<ledger, caches, person>>
                THEN IF pc[r] = "idle" THEN quiet \cup {r} ELSE quiet \ {q \in {r} : pc'[q] = "idle"}
                ELSE IF pc[r] = "idle" THEN {r} ELSE quiet \cap {r}

Next == \E r \in Requests : (Call(r) \/ Continue(r) \/ Crash(r)) /\ Observe(r)

Spec == Init /\ [][Next]_vars

-----------------------------------------------------------------------------
(* Properties *)

\* reviewVolunteerHours: hours earn their impact once, and only approved hours
\* do, unless two calls had read the entry undecided at once; those of an approval
\* that died may not earn it.  Corrections, submissions and decisions on other
\* entries may overlap as they will.
DecidedOnceEarnsOnce ==
    \A e \in Entries \ contested :
        /\ impact[e] <= 1
        /\ impact[e] = 1 => entry[e] = "approved"

\* adjustVolunteerHours: no adjustment makes the total negative, though what its
\* check has read is older than its insertion: approvals, submissions and crashes
\* in between do no harm, only another adjustment does, or hours that one of two
\* decisions at once has taken back.
CorrectionsKeepTotal == crossed \/ contested # {} \/ Total >= 0

\* refreshProfileHourCaches, refreshImpactScore, evaluateAutoProgression: a call
\* during which no other wrote leaves the caches it refreshes exact and, after an
\* approval, the volunteer at no lower level than the rules give him, whatever
\* calls that overlapped or died before it have left; hours from before the
\* profile included.  An automatic change of level is a promotion.
QuietCallsRefresh ==
    \A r \in quiet :
        LET call == arg[r].call
            approval == arg[r].to = "approved"
        IN
        /\ pc[r] = "done" /\ call = "get" => arg[r].answer = Total
        /\ pc[r] = "done" /\ profile =>
               /\ call \in {"get", "submit", "review", "adjust"} => approvedCache = Total
               /\ call \in {"submit", "review", "adjust"} => pendingCache = HoursOf("pending")
               /\ approval \/ call = "adjust" => scoreCache = Score
               /\ approval => level >= Best(Total, Score, 0)
        /\ pc[r] = "writeLevel" /\ approval => arg[r].best > level

-----------------------------------------------------------------------------
(* What the documents say and the code does not do *)

\* DOMAIN_MODEL.md: "two concurrent approvals of the same entry yield one
\* decision".  The decision is an UPDATE by id that asks for no status, and each
\* approval inserts an impact event of its own.
ImpactEarnedOnce == \A e \in Entries : impact[e] <= 1

\* RBAC_MATRIX.md: "adjustments never produce negative totals".  Each is checked
\* against a total that does not count the other's.
TotalNeverNegative == Total >= 0
=============================================================================
