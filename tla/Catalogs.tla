------------------------------ MODULE Catalogs ------------------------------
(***************************************************************************)
(* The catalogs the platform runs on (membership types, tracks, roles and  *)
(* permissions, impact rules, hour milestones, card templates, the         *)
(* settings and flags of the platform): filled by the migrations and by    *)
(* seeds that a deployment or an operator runs again and again             *)
(* (scripts/db-migrate.ts, scripts/seed-*.ts, scripts/dev-*.ts), while     *)
(* administrators edit them.                                               *)
(*                                                                         *)
(* A seed takes each entry of its lists, looks for the row, and inserts or *)
(* updates it in another statement.  No call is a transaction.             *)
(*                                                                         *)
(* Entries of one list may come in any order here, and all roles before    *)
(* all of their grants.  Left out: names of anything but tracks, sort      *)
(* orders, time stamps, audit rows, and the permissions the calls ask for. *)
(***************************************************************************)
EXTENDS Naturals, FiniteSets, Sequences

CONSTANTS
    Types,                      \* slugs: membership types
    Preferences, Flags,         \* keys: system settings that are public, feature flags
    Kinds,                      \* contribution types, badge and certificate definitions
    Rules,                      \* impact and progression rules
    Roles, Permissions,
    Tracks,
    Thresholds, AllThresholds,  \* hour milestones: of the seed, and that there may be
    Milestones, Cards,          \* ids of rows
    DefaultCard,                \* the id the seed's card template gets
    Requests, None,
    MaxCalls                    \* bounds the calls of a behaviour

Grants == Roles \X Permissions

\* Rules have no unique index: there may be a row for every call that inserts.
RuleRows(x) == {x} \X (1..Cardinality(Requests))

\* Rows of a key and a value.
PlatformRows == Preferences \cup Flags

Settings ==
    Types \cup Kinds \cup PlatformRows \cup Roles \cup Permissions \cup Grants \cup UNION {RuleRows(x) : x \in Rules}

VARIABLES
    setting,        \* membership_types, impact_rules, roles, permissions, role_permissions, ...
    track,          \* tracks
    milestone,      \* milestone_definitions
    card,           \* membership_card_templates of one scope: the status of each
    pc, arg,        \* where each request is, and its locals
    calls,
    asked,          \* History: the last edit of a setting or a track
    torn,           \* History: the tracks edited while a seed had read them
    settled         \* History: seeds that went through with nothing edited since

rows     == <<setting, track, milestone, card>>
callVars == <<pc, arg>>
history  == <<asked, torn, settled>>
vars     == <<rows, callVars, calls, history>>

\* A setting is there or not, and is as its seed makes it or changed.
Switches == {"none", "on", "off"}

CardStatus == {"draft", "active", "archived"}

NoTrack == [names |-> "none", texts |-> "none", status |-> "none", enabled |-> FALSE, open |-> FALSE]

\* A track as its entry in the list of the operating seed makes it.
SeedTrack == [names |-> "seeded", texts |-> "seeded", status |-> "active", enabled |-> TRUE, open |-> TRUE]

NoMilestone == [threshold |-> None, on |-> FALSE]

\* all: the lists of a seed, stages: those it has still to go through, todo: the
\* rest of the present one, item: the entry it is at; track: the row it found.
\* to, cards, status: of an edit.  alone: nothing has overlapped the call.  (all
\* and alone are read by properties only.)
NoArg == [call |-> "none", all |-> <<>>, stages |-> <<>>, todo |-> {}, item |-> None, track |-> NoTrack,
          to |-> NoMilestone, cards |-> {}, status |-> "none", alone |-> TRUE]

Labels == {"idle", "find", "insert", "update", "check", "setMilestone", "putSetting", "archive", "saveCard", "done"}

\* 0009_seed_official_tracks.sql, for the tracks its list has.
MigratedTracks == [Tracks -> {NoTrack, SeedTrack}]

\* 0011_seed_membership_types.sql and 0013_rbac_catalog_and_role_uniqueness.sql.
MigratedSettings ==
    {s \in [Settings -> {"none", "on"}] :
         \A x \in Settings \ (Types \cup Roles \cup Permissions) : s[x] = "none"}

\* The migrations have put in what the lists held when they were written.
Init ==
    /\ setting \in MigratedSettings
    /\ track \in MigratedTracks
    /\ milestone = [m \in Milestones |-> NoMilestone]
    /\ card = [t \in Cards |-> "none"]
    /\ pc  = [r \in Requests |-> "idle"]
    /\ arg = [r \in Requests |-> NoArg]
    /\ calls = 0
    /\ asked = [x \in Settings \cup Tracks |-> None]
    /\ torn = {}
    /\ settled = {}

-----------------------------------------------------------------------------
(* Calls *)

GoTo(r, label, a) ==
    /\ pc'  = [pc  EXCEPT ![r] = label]
    /\ arg' = [arg EXCEPT ![r] = a]

Step(r, label) == GoTo(r, label, arg[r])
Return(r)      == GoTo(r, "idle", NoArg)

\* An error returned to the caller; nothing is rolled back.
Throw(r) == Return(r)

Busy == {q \in Requests : pc[q] # "idle"}

NotAlone(q) == [arg[q] EXCEPT !.alone = FALSE]

\* A call of several steps: it and those under way have overlapped.
Begin(r, label, a) ==
    /\ pc[r] = "idle"
    /\ pc'  = [pc EXCEPT ![r] = label]
    /\ arg' = [q \in Requests |->
                 CASE q = r       -> [a EXCEPT !.alone = Busy = {}]
                   [] q \in Busy  -> NotAlone(q)
                   [] OTHER       -> arg[q]]

\* An edit of one statement overlaps what is under way.
Edit(r) ==
    /\ pc[r] = "idle"
    /\ arg' = [q \in Requests |-> IF q \in Busy THEN NotAlone(q) ELSE arg[q]]
    /\ settled' = {}
    /\ UNCHANGED pc

-----------------------------------------------------------------------------
(* Seeds *)

ListEntries(stage) ==
    CASE stage = "types"                    -> Types
      [] stage = "preferences"              -> Preferences
      [] stage = "flags"                    -> Flags
      [] stage = "kinds"                    -> Kinds
      [] stage \in {"trackNames", "tracks"} -> Tracks
      [] stage = "card"                     -> {DefaultCard}
      [] stage = "milestones"               -> Thresholds
      [] stage = "rules"                    -> Rules
      [] stage = "permissions"              -> Permissions
      [] stage = "roles"                    -> Roles
      [] stage = "grants"                   -> Grants

Lists ==
    {"types", "preferences", "flags", "kinds", "trackNames", "tracks", "card",
     "milestones", "rules", "permissions", "roles", "grants"}

\* Of the lists in the code: none is empty, a slug of a track is not mistaken for
\* a key of another table, and the seed's card is one of the scope.
ListsAreFilled ==
    /\ \A list \in Lists : ListEntries(list) # {}
    /\ None \notin Thresholds
    /\ Tracks \cap Settings = {}
    /\ DefaultCard \in Cards

Seed(r, stages) ==
    /\ Begin(r, "find", [NoArg EXCEPT !.call = "seed", !.all = stages, !.stages = stages,
                                      !.todo = ListEntries(stages[1])])
    /\ UNCHANGED <<rows, history>>

TrackStages == <<"tracks", "kinds">>

SeedTracksOperatingCatalog(r) == Seed(r, TrackStages)

\* seedMembershipCatalog goes on to the seed of tracks and to
\* seedDefaultCardTemplate.
SeedMembershipCatalog(r) == Seed(r, <<"types", "trackNames">> \o TrackStages \o <<"card">>)

SeedRecognitionCatalog(r) == Seed(r, <<"kinds", "milestones">>)

SeedVolunteerCatalog(r) == Seed(r, <<"rules">>)

SeedSystemSettings(r) == Seed(r, <<"preferences", "flags">>)

\* Mutant: grants are made before there are permissions to grant.
SeedGrantsFirst(r) == Seed(r, <<"roles", "grants", "permissions">>)

SeedRbacCatalog(r) == Seed(r, <<"permissions", "roles", "grants">>)

\* What is left of a seed once it is done with entry i; after the last list it
\* has gone through.
Rest(a, i) ==
    LET left  == a.todo \ {i}
        later == Tail(a.stages)
    IN
    IF left # {} \/ later = <<>>
    THEN [a EXCEPT !.todo = left, !.item = None, !.track = NoTrack]
    ELSE [a EXCEPT !.stages = later, !.todo = ListEntries(later[1]), !.item = None, !.track = NoTrack]

GoOn(r) ==
    LET a == Rest(arg[r], arg[r].item) IN
    GoTo(r, IF a.todo = {} THEN "done" ELSE "find", a)

\* The row of entry i of a list is there.
Present(stage, i) ==
    CASE stage \in {"trackNames", "tracks"} -> track[i] # NoTrack
      [] stage = "card"                     -> card[i] # "none"
      [] stage = "milestones"               -> \E m \in Milestones : milestone[m].threshold = i
      [] stage = "rules"                    -> \E x \in RuleRows(i) : setting[x] # "none"
      [] OTHER                              -> setting[i] # "none"

\* A grant whose role or permission is missing is passed over.
Grantable(i) == setting[i[1]] # "none" /\ setting[i[2]] # "none"

Find(r, i) ==
    LET a     == [arg[r] EXCEPT !.item = i]
        stage == a.stages[1]
        next  == Rest(a, i)
    IN
    /\ pc[r] = "find"
    /\ i \in a.todo
    /\ \/ /\ stage \in {"trackNames", "tracks"}
          /\ Present(stage, i)
          /\ GoTo(r, "update", [a EXCEPT !.track = track[i]])
       \/ /\ stage \notin {"trackNames", "tracks"}
          /\ Present(stage, i) \/ (stage = "grants" /\ ~Grantable(i))
          /\ GoTo(r, IF next.todo = {} THEN "done" ELSE "find", next)
       \/ /\ ~Present(stage, i)
          /\ stage = "grants" => Grantable(i)
          /\ GoTo(r, "insert", a)
    /\ UNCHANGED <<rows, history>>

\* A unique index (on the slug, the pair, the kind and threshold) refuses a row
\* that has come in since; but for the impact rules.
Insert(r) ==
    LET i     == arg[r].item
        stage == arg[r].stages[1]
    IN
    /\ pc[r] = "insert"
    /\ \/ stage # "rules" /\ Present(stage, i) /\ Throw(r) /\ UNCHANGED rows
       \/ /\ stage # "rules" => ~Present(stage, i)
          /\ GoOn(r)
          /\ CASE stage \in {"trackNames", "tracks"} ->
                    /\ track' = [track EXCEPT ![i] =
                           IF stage = "tracks" THEN SeedTrack ELSE [SeedTrack EXCEPT !.texts = "none"]]
                    /\ UNCHANGED <<setting, milestone, card>>
               [] stage = "card" ->
                    /\ card' = [card EXCEPT ![i] = "active"]
                    /\ UNCHANGED <<setting, track, milestone>>
               [] stage = "milestones" ->
                    /\ \E m \in Milestones :
                         /\ milestone[m] = NoMilestone
                         /\ milestone' = [milestone EXCEPT ![m] = [threshold |-> i, on |-> TRUE]]
                    /\ UNCHANGED <<setting, track, card>>
               [] stage = "rules" ->
                    /\ \E x \in RuleRows(i) :
                         setting[x] = "none" /\ setting' = [setting EXCEPT ![x] = "on"]
                    /\ UNCHANGED <<track, milestone, card>>
               [] OTHER ->
                    /\ setting' = [setting EXCEPT ![i] = "on"]
                    /\ UNCHANGED <<track, milestone, card>>
    /\ UNCHANGED history

\* Mutant: the whole row is set back to what the seed says.
ReseededAsNew(stage, now, read) == SeedTrack

\* What an update makes of a row: a suspended or disabled track is active and
\* enabled again, an archived one stays so, and applicationsOpen is what was read.
Reseeded(stage, now, read) ==
    IF stage = "trackNames" THEN [now EXCEPT !.names = "seeded"]
    ELSE [names |-> "seeded", texts |-> "seeded", enabled |-> TRUE, open |-> read.open,
          status |-> IF read.status = "archived" THEN "archived" ELSE "active"]

\* Mutant: the list of names clears what it has no column for.
UpdateClearing(r) ==
    LET i == arg[r].item IN
    /\ pc[r] = "update"
    /\ track' = [track EXCEPT ![i] =
           [Reseeded(arg[r].stages[1], @, arg[r].track) EXCEPT
               !.texts = IF arg[r].stages[1] = "trackNames" THEN "none" ELSE @]]
    /\ GoOn(r)
    /\ UNCHANGED <<setting, milestone, card, history>>

Update(r) ==
    LET i == arg[r].item IN
    /\ pc[r] = "update"
    /\ track' = [track EXCEPT ![i] = Reseeded(arg[r].stages[1], @, arg[r].track)]
    /\ GoOn(r)
    /\ UNCHANGED <<setting, milestone, card, history>>

-----------------------------------------------------------------------------
(* Edits *)

\* updateMembershipType, updateImpactWeight (of any row of the rule): only rows
\* that are there.
UpdateSetting(r, x, to) ==
    /\ Edit(r)
    /\ setting[x] # "none"
    /\ setting' = [setting EXCEPT ![x] = to]
    /\ asked' = [asked EXCEPT ![x] = to]
    /\ UNCHANGED <<track, milestone, card, torn>>

\* updateFeatureFlag: only flags that are there.
UpdateFeatureFlag(r, x, to) == UpdateSetting(r, x, to)

\* updateSystemSetting: one that is there is updated, another inserted.
UpdateSystemSetting(r, x, to) ==
    \/ UpdateSetting(r, x, to)
    \/ /\ setting[x] = "none"
       /\ Begin(r, "putSetting", [NoArg EXCEPT !.call = "setting", !.item = x, !.status = to])
       /\ UNCHANGED <<rows, history>>

\* The unique index on the key refuses one that has come in since.
InsertSetting(r) ==
    LET x == arg[r].item IN
    /\ pc[r] = "putSetting"
    /\ IF setting[x] # "none"
       THEN Throw(r) /\ UNCHANGED <<setting, asked, settled>>
       ELSE /\ setting' = [setting EXCEPT ![x] = arg[r].status]
            /\ asked' = [asked EXCEPT ![x] = arg[r].status]
            /\ settled' = {}
            /\ Step(r, "done")
    /\ UNCHANGED <<track, milestone, card, torn>>

\* updateTrack and configureTrack write the columns of the patch.
EditTrack(r, k, row) ==
    /\ Edit(r)
    /\ track[k] # NoTrack
    /\ track' = [track EXCEPT ![k] = row]
    /\ asked' = [asked EXCEPT ![k] = row]
    /\ torn' = IF \E q \in Requests : pc[q] = "update" /\ arg[q].item = k
               THEN torn \cup {k} ELSE torn \ {k}
    /\ UNCHANGED <<setting, milestone, card>>

UpdateTrack(r, k, on) ==
    EditTrack(r, k, [track[k] EXCEPT !.names = "edited", !.texts = "edited", !.enabled = on])

ConfigureTrack(r, k) ==
    \/ \E open \in BOOLEAN : EditTrack(r, k, [track[k] EXCEPT !.open = open])
    \/ \E status \in {"active", "suspended", "archived"} :
           EditTrack(r, k, [track[k] EXCEPT !.status = status])

\* updateMilestoneDefinition: the row is read, the threshold compared with the
\* other rows if it is to change, and all of the row written.
UpdateMilestone(r, m, th, on) ==
    /\ milestone[m] # NoMilestone
    /\ Begin(r, IF th = milestone[m].threshold THEN "setMilestone" ELSE "check",
             [NoArg EXCEPT !.call = "milestone", !.item = m, !.to = [threshold |-> th, on |-> on]])
    /\ UNCHANGED <<rows, history>>

\* A patch leaves out what it does not change; the row then keeps what was read.
MilestonePatches(m) ==
    {<<milestone[m].threshold, on>> : on \in BOOLEAN}
        \cup {<<th, milestone[m].on>> : th \in AllThresholds}

Rivals(m, th) == {n \in Milestones \ {m} : milestone[n].threshold = th}

CheckThreshold(r) ==
    /\ pc[r] = "check"
    /\ IF Rivals(arg[r].item, arg[r].to.threshold) # {} THEN Throw(r) ELSE Step(r, "setMilestone")
    /\ UNCHANGED <<rows, history>>

SetMilestone(r) ==
    LET a == arg[r] IN
    /\ pc[r] = "setMilestone"
    /\ IF Rivals(a.item, a.to.threshold) # {} THEN Throw(r) /\ UNCHANGED <<milestone, settled>>
       ELSE /\ Step(r, "done")
            /\ milestone' = [milestone EXCEPT ![a.item] = a.to]
            /\ settled' = {}
    /\ UNCHANGED <<setting, track, card, asked, torn>>

\* saveCardTemplate: one that is to be active has the others archived first, one
\* by one; then the row is updated, or inserted.
SaveCard(r, t, status) ==
    LET others == IF status = "active" THEN {u \in Cards \ {t} : card[u] = "active"} ELSE {} IN
    /\ \A q \in Requests : card[t] = "none" => arg[q].item # t
    /\ card[t] = "none" => t # DefaultCard
    /\ Begin(r, IF others = {} THEN "saveCard" ELSE "archive",
             [NoArg EXCEPT !.call = "card", !.item = t, !.cards = others, !.status = status])
    /\ UNCHANGED <<rows, history>>

ArchiveCard(r, u) ==
    LET left == arg[r].cards \ {u} IN
    /\ pc[r] = "archive"
    /\ u \in arg[r].cards
    /\ card' = [card EXCEPT ![u] = "archived"]
    /\ settled' = {}
    /\ GoTo(r, IF left = {} THEN "saveCard" ELSE "archive", [arg[r] EXCEPT !.cards = left])
    /\ UNCHANGED <<setting, track, milestone, asked, torn>>

WriteCard(r) ==
    /\ pc[r] = "saveCard"
    /\ card' = [card EXCEPT ![arg[r].item] = arg[r].status]
    /\ settled' = {}
    /\ Step(r, "done")
    /\ UNCHANGED <<setting, track, milestone, asked, torn>>

-----------------------------------------------------------------------------

\* A seed that nothing overlapped has settled its lists.
Finish(r) ==
    /\ pc[r] = "done"
    /\ settled' = IF arg[r].alone /\ arg[r].call = "seed" THEN settled \cup {arg[r].all} ELSE settled
    /\ Return(r)
    /\ UNCHANGED <<rows, asked, torn>>

\* The process dies, or one of its statements throws.
Crash(r) == pc[r] # "idle" /\ Return(r) /\ UNCHANGED <<rows, history>>

\* The scripts; db-migrate.ts runs that of roles at every start.
SeedCalls(r) ==
    \/ SeedMembershipCatalog(r) \/ SeedTracksOperatingCatalog(r)
    \/ SeedRecognitionCatalog(r) \/ SeedVolunteerCatalog(r) \/ SeedRbacCatalog(r)
    \/ SeedSystemSettings(r)

EditCalls(r) ==
    \/ \E x \in Types \cup UNION {RuleRows(y) : y \in Rules}, to \in {"on", "off"} : UpdateSetting(r, x, to)
    \/ \E k \in Tracks : ConfigureTrack(r, k) \/ \E on \in BOOLEAN : UpdateTrack(r, k, on)
    \/ \E m \in Milestones : \E patch \in MilestonePatches(m) : UpdateMilestone(r, m, patch[1], patch[2])
    \/ \E t \in Cards, status \in CardStatus : SaveCard(r, t, status)

SettingCalls(r) ==
    \E to \in {"on", "off"} :
        \/ \E x \in Preferences : UpdateSystemSetting(r, x, to)
        \/ \E x \in Flags : UpdateFeatureFlag(r, x, to)

Continue(r) ==
    \/ \E i \in arg[r].todo : Find(r, i)
    \/ Insert(r) \/ Update(r)
    \/ InsertSetting(r)
    \/ CheckThreshold(r) \/ SetMilestone(r)
    \/ \E u \in Cards : ArchiveCard(r, u)
    \/ WriteCard(r)
    \/ Finish(r)

\* MaxCalls is a bound of the model, not of the code.
Next ==
    \/ /\ calls < MaxCalls
       /\ calls' = calls + 1
       /\ \E r \in Requests : SeedCalls(r) \/ EditCalls(r) \/ SettingCalls(r)
    \/ \E r \in Requests : (Continue(r) \/ Crash(r)) /\ UNCHANGED calls

Spec == Init /\ [][Next]_vars

-----------------------------------------------------------------------------
(* Properties *)

\* scripts/seed-membership.ts, scripts/seed-tracks.ts and db-migrate.ts count on
\* idempotent seeds: once a seed has gone through, the same seed changes no row
\* until something is edited, though it works on tables other seeds write and
\* its own lists overlap, and though others run at the same time.
SeedingIsIdempotent ==
    [][\A r \in Requests :
           pc[r] \in {"insert", "update"} /\ pc'[r] # pc[r] /\ arg[r].all \in settled
               => UNCHANGED rows]_vars

\* A seed that nothing overlapped and that came to its end has left every entry
\* of its lists in the catalog, whatever was there before.
SeedsAreComplete ==
    \A r \in Requests :
        pc[r] = "done" /\ arg[r].alone /\ arg[r].call = "seed" =>
            \A s \in 1..Len(arg[r].all) : \A i \in ListEntries(arg[r].all[s]) : Present(arg[r].all[s], i)

\* What administrators set stands, however often seeds run: a type, a setting, a
\* flag or the row of a rule as it was last set; whether a track takes
\* applications, and that it is archived, unless a seed had just read the track.
\* A milestone and the one active card are as asked when an edit that was alone
\* ends; later seeds and edits may change either.  (Whether a track
\* is suspended or disabled does not stand: every seed of tracks makes them active
\* and enabled.)
EditsStand ==
    /\ \A x \in Settings : asked[x] # None => setting[x] = asked[x]
    /\ \A k \in Tracks \ torn : asked[k] # None =>
           /\ track[k].open = asked[k].open
           /\ asked[k].status = "archived" => track[k].status = "archived"
    /\ \A r \in Requests :
           LET a == arg[r] IN
           pc[r] = "done" /\ a.alone =>
               /\ a.call = "milestone" => milestone[a.item] = a.to
               /\ a.call = "card" /\ a.status = "active" => {t \in Cards : card[t] = "active"} = {a.item}
=============================================================================
