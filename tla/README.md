# Strategy Execution Clinic: a TLA+ development

The Strategy Execution Clinic is a membership platform: a Next.js application
whose server code (`src/src/modules/*/service.ts`) keeps its state in PostgreSQL
through Drizzle. This directory models the parts of it where several requests,
workers or crashes meet, checks them with TLC, and proves the central ones with
TLAPS.

Paths below are relative to the repository (`src/` here).

## 1. The system

Every operation is an async function of a module's `service.ts`, called by a
server action, a page or a script. There is no in-process state to speak of: a
call reads rows, decides, and writes rows, and *each `await` is a database
statement of its own*. Only a few functions open a transaction, and only two
take row locks (`issueMembershipInTx`, `reviewApplication` of volunteering). So
the concurrency of the system is the interleaving of the statements of
concurrent calls, at PostgreSQL's default isolation (read committed), together
with what its unique indexes refuse; and its failure mode is a call that ends
between two statements, because the process died or a statement threw.

| Component | State it keeps | Operations | What is hard | What makes it correct |
| --- | --- | --- | --- | --- |
| membership | applications, memberships, histories | create, edit, submit, withdraw, review, approve, issue directly, suspend, reactivate, revoke | approvals racing approvals and other decisions; a transaction that needs a second connection; a partial unique index | one active membership per holder and type; approved means issued; one review issues one membership |
| credentials | one credential per membership | issue, sync with the membership, change by an administrator, verify, list, backfill | the credential follows the membership in later statements, and calls overtake each other | what is shown as active was active; no active membership stays without a credential |
| notifications | outbox, in-app rows, preferences | schedule, drain the outbox, retry, switch channels off | at-least-once sending, worker crashes, retries, idempotency keys | deliveries are counted; required messages are shown once; every row settles; only channels that were on are used |
| volunteering | opportunities, applications, participations, hours, adjustments, caches, levels | publish, apply, review, withdraw, attend, submit/review/adjust hours, promote | places under a row lock; unlocked decisions; caches recomputed in several statements | places never exceeded; accepted means a place; undisturbed calls leave exact caches and levels |
| tracks | track memberships, applications, leadership, contributions | apply, review, assign, appoint and revoke leaders, suspend with the membership, review contributions | two-statement updates against partial unique indexes; rewards looked up before inserted | one primary track, one active leader; badges agree with both; no reward is lost |
| recognition | contributions, impact events and score, badges, milestones, certificates | submit, review, revoke, award, issue, weigh | look up, then insert; a chain of follow-ups that any throw breaks | impact follows the status; a repeated or undisturbed call completes what others left |
| identity | users, profiles, one-time codes, sessions, roles, rate limits | sync with the identity provider, request and verify codes, sign out, bootstrap | accounts made in four inserts; identities that change e-mails; attempt counters without locks | a bound account stays its identity's, where sign-ins of two identities do not overlap; who signs in has an account and a role; accounts are whole |
| consultations, meetings | requests, messages, rooms, participants | create, assign, answer, schedule, join, run | permissions against assignments that change; partial failures | who schedules may run; assignments are told to who may read them |
| public profiles | settings, profile, directory | update, show, search | rows written whole from stale reads; pages built from several reads | a page shows what was allowed; an undisturbed update sticks |
| catalogs, settings | types, tracks, roles, rules, milestones, cards, flags | seed, edit | seeds that run again at each deployment, beside edits | seeds are idempotent, complete, and undo no edit |
| content | editorial pages, consents to them | seed, edit and publish, read, consent | a seed cut short, run again over pages that were edited; an open page that outlives its version | the seed completes its list and leaves what was saved; a consent names the text that was read |
| support, admin, audit | one or two tables each | create, edit, list | last writer wins | local |

Interactions:

* membership calls credentials after its transaction commits
  (`syncCredentialWithMembership`, `issueCredentialForMembership`), tracks when a
  membership is lost (`suspendTrackPrivilegesForUser`), and notifications after
  that: *calls, not messages*, so a crash in between loses them;
* every module calls `writeAudit`, which always takes a connection of its own,
  even inside a transaction;
* volunteering, tracks and recognition call each other to refresh caches,
  scores and badges: an approved hour entry evaluates badges, a track's decision
  inserts impact, hours and a contribution of record;
* the notification worker (`scripts/process-notifications.ts`) is a process of
  its own and shares the outbox with the web process; `scripts/worker-health.ts`
  drains it too;
* `scripts/db-migrate.ts` seeds roles at every start, and operators run the
  other seeds, on the rows that administrators edit.

## 2. Modules

In every module a variable stands for a table, or for the columns that a
property tells apart; a request `r` is at label `pc[r]` of its function with
locals `arg[r]`; there is one action per database statement; and a crash may end
a call before any of them. What a property needs to remember of the past is a
history variable, named so where it is declared, which no guard reads.

| Module | Models | State and actions |
| --- | --- | --- |
| `MembershipRegistry` | what the memberships table promises | a membership is issued, deactivated, reactivated; `Issue` and `Reactivate` are possible only when the holder has no other active one of the type |
| `Membership` | `membership/service.ts`, the indexes of its tables, the row lock of `issueMembershipInTx`, the pool of `shared/db/client.ts` | `CreateApplication`, `CreateCheckActive`, `CreateInsert` are the three statements of `createApplication`, and so on. `lock[a]` is the transaction that has `a`'s row lock, `conn` the requests that hold a connection. A crash rolls the open transaction back |
| `Credentials` | `credentials/service.ts` as the membership service, its pages and the backfill call it | composes `MembershipRegistry` (its `Issue`, `Deactivate`, `Reactivate` are the committed status changes) with the credential table: a status change is followed by the calls that issue or sync the credential |
| `Notifications` | `notifications/service.ts` and the worker | `status[k]`, `attempts[k]` are the outbox row of idempotency key `k`; services schedule, workers `FetchDue`, `Claim`, `NextRow`, `Send`, `MarkSent` or `MarkFailed`, administrators retry. `shared` remembers the rows that two of them had in hand at once. The mail server is external |
| `Volunteering` | opportunities, applications, participations and attendance of `volunteering/service.ts` | rows keyed by <<opportunity, user>>, as their unique indexes are; `lock[o]` is the row lock of an acceptance; the writes of the transaction are one step, since they are seen at its commit |
| `VolunteerHours` | hour entries, adjustments, impact events, the profile with its caches and level | `SumEntries`, `SumAdjustments`, `SumPending`, `WriteCaches` are a refresh, which a check, an answer, a review or a promotion asks for. `quiet`: the calls during which nobody else wrote; `contested`, `crossed`: the entries that two calls decided at once, and whether two corrections overlapped |
| `Seats` | a seat that one holder at a time has | `Take` a vacant seat, `Vacate`: a holder is never replaced in one step |
| `TrackRoster` | `tracks/service.ts`, `tracks/scope.ts`: applications, members, leaders, badges, the loss of the clinic membership | `Clear`/`Find`/`Put` set a primary track, `RevokeLeader`/`InsertLeader` appoint a leader, the `Sync*` steps are `syncTrackBadges`; unique indexes refuse a statement, which then throws. Implements `Seats` for leaders and for primary tracks |
| `Recognition` | one member's contributions, impact, score, badge, milestone and certificates (`recognition/service.ts`) | the chain of `reviewContribution` (decide, impact, score, badge, milestone, certificate) and of `revokeContribution`, step by step |
| `TrackRewards` | contributions of a track and their rewards, composed with `Recognition` | EXTENDS it: `ReviewTrackContribution`, then for each reward `FindReward`, `InsertReward`, `FlagReward` on the same rows |
| `Accounts` | `identity/`: accounts, codes, sessions, buckets, bootstrap | `Plan` is `planClerkUserMapping`; `InsertUser`, `InsertProfile`, `InsertContact`, `InsertMember` the skeleton; `Wrong`, `Consume`, `InsertSession` the login. The identity provider's e-mails change around it at any moment; `contested` remembers the addresses at which sign-ins of two identities overlap |
| `Desk` | `consultations/`, `meetings/`, and what `rbac/catalog.ts` lets a role do there | `Can(u, p)` is `requirePermission` over `RolePermissions`; a call's reads and checks are one step, each of its writes another |
| `Privacy` | `identity/profile/service.ts`, the public profile of `recognition/service.ts`, preferences of `notifications/service.ts` | updates (find, insert, read again, write) and pages (settings, then one step per section); `allowed` and `had` remember what a page might show |
| `Catalogs` | the seeds of `scripts/` and the edits of `admin`, `membership/catalog-service.ts`, `recognition`, `tracks`, `credentials/templates.ts` | a seed is a sequence of lists; for each entry `Find`, then `Insert` or `Update` |
| `Content` | `content/`: the pages, their seed and editors (`shared/ui/cms-article.tsx`, `policy-consent-form.tsx`, `scripts/dev-local.ts`) | `StartServer`, `Find`, `WriteBlock`, `ServerUp` are a start, which `Stop` may cut short anywhere; `UpdateContentBlock` and `Save` an edit; `CmsArticle` and `RecordPolicyConsent` an open page and its form. `published` remembers the versions that were public |
| `DeskView`, `PrivacyView`, `CatalogsView`, `ContentView` | | each the component of its name by `INSTANCE`, unchanged, with names of its own for the constants and variables that other components have as well (`deskPc` is `Desk`'s `pc`), so that a run or a proof may have two of them at once |
| `*Proofs` | | the theorems of section 5: `MembershipProofs` (also of `Catalogs`), `CredentialsProofs` (also of `Privacy`), `NotificationsProofs` (also of `Content`), `VolunteeringProofs`, `HoursProofs`, `TrackRosterProofs`, `TrackRewardsProofs` (with `Recognition`), `AccountsProofs` (also of `Desk`) |
| `MC*` | | symmetry and the constants that are functions. `MCPrivacy` has `Privacy` and `Volunteering` side by side, `MCCatalogs` has `Catalogs` and `VolunteerHours`, `MCTrackRewards` has `TrackRewards` and `Content` |

`Credentials` does not use `Membership` itself but its abstraction, which
`Membership` is proved to implement: the credential code only sees committed
status changes, and the registry is exactly those. `TrackRoster` sees of the
clinic membership only whether there is an active one.

Pages are seeded by `scripts/dev-local.ts`, by `scripts/dev-reset.ts` and by
`scripts/run-e2e.ts`, each with the server not yet up (the last two on a database
that they have just emptied or made): so no edit overlaps that seed. Time moves
on between two writes of a page; its titles and bodies are one text.

Audit rows, history rows, texts and dates are left out, except where they
matter: an audit row in mid-transaction needs a second connection, and that is
in `Membership`; a term or a session that is over is in `TrackRoster` and
`Accounts`. Permissions are in `Desk`, where they decide what may be done; the
callers of the other modules are those whom the guards let through.

## 3. Runs

| Run | Bounds | What it shows |
| --- | --- | --- |
| `membership` | one holder, one type, one application, 2 memberships, 2 concurrent calls, 3 connections | one active membership per holder and type; approved implies issued; the service implements `MembershipRegistry`; every call returns |
| `credentials` | one membership, 2 calls | what verification and lists call active was an active membership during the call; a credential becomes active only when its membership was; an active membership gets its credential |
| `notifications` | 2 keys of which 1 required, 2 services, 2 workers, 2 administrators (in 3 processes), 2 attempts, 2 retries; either all at one key, or both keys with one administrator and 1 retry | deliveries are counted of every row that no two had in hand at once, required messages are shown once, every row settles |
| `two_workers` | 1 key, 2 workers | *violated*: a row is claimed by one worker |
| `tracks` | 2 members, 2 tracks, one application, 2 assignments, 2 calls at once and 3 in all | primary tracks and primary leaders are `Seats`; undisturbed calls leave just the badges that are due |
| `rewards_and_content` | 2 contributions, one track contribution, 2 calls at once and 4 in all; or 2 pages (a draft, and one whose former copy the seed knows), 2 requests, 4 edits and pages opened, 2 starts | impact follows the status; a flag never precedes its reward; undisturbed calls do all of their work, whatever was left before. The seed of pages completes its list, edits stay, a consent names what was read |
| `identity` | 2 e-mails, 2 identities, 2 codes, 2 sessions, 2 attempts, 2 codes per window, 2 calls at once and 4 in all | bindings are kept at addresses where sign-ins of two identities do not overlap; who signs in has an account and a role; accounts are whole |
| `desk` | 3 users, 3 roles, one consultation, one meeting, 2 calls at once and 5 in all | who schedules a meeting finds it and may run it; assignments are told to those who can open them |
| `pages_and_places` | 2 members, a section shown at first and one hidden, one handle, 2 calls at once and 3 in all; or one opportunity with one place, 2 volunteers, 2 calls | pages and notifications use what was allowed; undisturbed updates stick. Places are never exceeded; accepted means a place |
| `catalogs_and_hours` | one entry in each list (two milestones and two cards), 2 calls at once and 3 in all; or 2 entries of one hour, one correction of -2, 3 progression rules, one volunteer, 2 reviewers of whom one is an administrator and one the volunteer, of the entries at most one decided by two calls at once | seeds are idempotent and complete; edits stand. Hours that no two calls decided at once earn their impact once; a correction that no other overlapped keeps the total; a call during which nobody else wrote leaves exact caches and the level that is due |
| `double_decision` | 2 reviewers | *violated*: approved hours earn their impact once |
| `crossed_corrections` | 2 administrators, 2 corrections of -2 | *violated*: the total is never negative |

Crashes may come anywhere in all of them. Each passing run's properties fail
under a plausible change of the code, given in `PROJECT.json` as a mutant.

Why these bounds are enough to be interesting. Every race here is between two
calls over the rows of one or two people. In `membership` the second membership
is that of a direct issue, which races the approval of the application; the
proofs of section 5 remove the bound. `PoolSize` 3 leaves a connection for the
audit rows of two calls. Credentials of different memberships share nothing, so
one membership stands for all. In `Notifications` two keys allow a batch of two,
and a crash between its rows; two attempts are the least with a back-off and a
last one. Two workers and two administrators race at one key; a process that is
a service, a worker and an administrator in turn stands for one of each. One place and two volunteers are the least for a race for the last
place. A correction of -2 is possible only when both entries are
approved; only negative corrections can be refused. Two reviewers race for one
entry in `catalogs_and_hours` as in `double_decision`: the property of the former
(`DecidedOnceEarnsOnce`) says what holds of the entries that did not meet such a
race, the violation run shows what happens to those that did. So do
`CorrectionsKeepTotal` and `crossed_corrections` for two administrators. In `tracks`, 3 calls are the least for a
leader who is appointed, replaced and asked about, or for a race whose traces a
third call meets; the loss of a membership and the end of a term count as calls.
Of rewards, the fourth call repeats one after two that raced. `desk` needs
a requester, an expert and an administrator, any of whom may be the same and each of whom has at
most one role at first, and five calls to grant another, create, assign, assign
again and schedule.

`MaxCalls`, the retries, the in-app rows of one key and the number of codes,
sessions and adjustments bound the behaviours and are no limits of the code. Where the
calls of a behaviour are bounded, or everything may be settled (`notifications`),
a run may end, so `CHECK_DEADLOCK FALSE` stands there; in `membership` and
`credentials` deadlock is checked.

Fairness. A request that can take its next statement eventually does: the event
loop and PostgreSQL schedule them. For row locks and connections, which are
queues in PostgreSQL and in the driver, this is strong fairness per request
(`Membership`); in `Credentials` no step is disabled once enabled, and weak
fairness is enough. Callers are not obliged to call, and a crash is never
obliged to happen. The worker is run again by cron, so a due row is claimed
again unless the worker dies each time before it has (`SF` on `Claim`), and a
back-off ends. The other modules are checked for safety alone: their calls wait
for nothing.

Three runs check two components side by side: in `pages_and_places`,
`catalogs_and_hours` and `rewards_and_content` a behaviour is one of the first or
one of the second, and the other rests at its initial state. The two share no row,
so their interleavings would show nothing that either does not. Two starts of the
server are the least for one that finds what another, cut short, has left.
For the same reason, in `pages_and_places` the calls in flight are of one kind: of
the settings and pages, of the profile and the directory, or of the preferences and
notices. Where several model values stand for rows that are yet to be made (codes,
sessions, assignments, contributions), the first is made first, and the others are
not tried in its place.

Only what an error in the code could spoil is a type invariant of a run: in
`VolunteerHours`, `Recognition`, `Desk`, `Privacy`, `Catalogs` and `Content` the
rows are sets and functions over small sets, and their other properties would
show a value out of place. All of them are proved as parts of the inductive
invariants of section 5 (`Shape`, `DeskShape`, `PageShape`, `CatalogShape`,
`ContentTypeOK`).

## 4. What the code does otherwise than its documents say

Three are violation runs and findings:

* the outbox claim claims what is claimed, so two workers send one e-mail
  (`two_workers`, `ClaimedByOne`; `docs/operations/WORKER.md:13`);
* two reviewers decide one hour entry, and its impact counts twice
  (`double_decision`, `ImpactEarnedOnce`; `DOMAIN_MODEL.md:147`);
* two administrators' corrections, each checked against the same total, bring it
  below zero (`crossed_corrections`, `TotalNeverNegative`; `RBAC_MATRIX.md:96`).

The others were met while modelling; the models follow the code in each.

Membership and credentials:

* an approval is overwritten by a status change that read the application
  before it (`docs/membership/MEMBERSHIP_LIFECYCLE.md:15`, "Terminal");
* duplicate open applications are looked for and not excluded (`SECURITY.md:116`);
* as many approvals at once as the pool has connections wait for ever, each with
  one and in want of another (`MEMBERSHIP_LIFECYCLE.md:69`, "exactly one
  membership"; the pool has 10). `EveryCallReturns` is checked with one to spare;
* a revoked membership may be reactivated;
* a public verification reads credential and membership at two moments, and may
  say active of a credential that was effective at neither (`DOMAIN_MODEL.md:137`).
  `VerifiedActiveWasMember` says what it does promise;
* the holder's list shows the credential's own expiry only, where verification
  falls back on the membership's.

Notifications:

* two administrators who retry one failed row have both read `FAILED`, and each
  writes `PENDING` by the row's id (`notifications/service.ts:220-235`): when the
  row is sent between the two writes, the second queues it again, and a `SENT`
  e-mail is sent a second time (`docs/operations/WORKER.md:9`, "idempotent
  delivery"). One administrator does the same beside two
  workers that have claimed the row, of which one fails for good and one sends;
* outbox row and in-app row are two inserts, and no "same DB transaction
  boundary" (`docs/operations/NOTIFICATIONS.md`): a call that dies in between is
  a duplicate when repeated, and the recipient is never shown it in the
  application;
* where no e-mail is sent, no row remembers the idempotency key.

Volunteering:

* overlapping calls leave caches that do not match (`DOMAIN_MODEL.md:145`);
* no code completes a participation, so no seeded rule for a level above the
  first is ever met: `Completed == 0` in `VolunteerHours`.

Tracks and recognition:

* a replaced leader keeps the leader's badge, since an appointment syncs the new
  leader's only (`tracks/catalog.ts:159`: "Active primary leadership assignment");
  the badge also outlives the term;
* no call submits a drafted contribution, or one whose changes were requested;
* two leaders who decide at once, or a call repeated after a crash, give impact,
  hours and the contribution of record twice (`tracks.integration.test.ts:235`,
  "protects duplicate rewards", decides one after the other);
* the badge that loses a race throws out of an approval's follow-ups before the
  certificate; a revocation that dies before the impact is refused when repeated.

Identity:

* a late `UPDATE` takes a bound account over. The sync of identity k1 reads the
  account of e unbound (`clerk-sync.ts:282-287`) and decides to link it; k1 gives
  e up and k2 takes it; k2's sync reads the account unbound too and links it; then
  k1's `UPDATE`, which names the user's id alone (313-320), binds it to k1. Read
  one after the other, k1 would be a conflict (`email_bound_to_other_clerk_user`,
  `clerk-sync.ts:66-68` and `clerk-sync.test.ts:50`). Addresses of such syncs are
  `contested` until the last of them has ended, and `BindingIsKept` and the sync's
  part of `CallsSettle` are about the others;
* one code opens two sessions when it is entered twice in parallel: it is read
  unconsumed by both and consumed later (`SECURITY.md:36`, "single use", and 122,
  "one-time"; the test, `identity.integration.test.ts:85`, enters it twice in turn);
* a user whose identity changes its e-mail is refused from then on; an account
  whose creation died is never completed;
* parallel wrong codes count as one attempt, parallel requests as one of the
  limit.

Public profiles:

* no public page asks whether the profile is public: `buildPublicMemberProfile`
  (`recognition/service.ts:941`) reads the flags of `public_profile_settings` and
  never `profiles.visibility`, which only the directory reads (1082)
  (`DOMAIN_MODEL.md:164`, "Public if enabled"; `PRODUCT_REQUIREMENTS.md:366-368`,
  "profile public/private", "Private records are hidden by default");
* the directory lists the headline and the tracks of a member who has switched
  `showHeadline` or `showTracks` off, both of which the page honours;
* overlapping updates of settings or a profile lose one of them; the first
  settings row, made twice, throws in a page.

Consultations, meetings, catalogs:

* a closed consultation may be assigned again, and an expert who takes over is
  not told, since the idempotency key is that of the first;
* two changes of a meeting's status at once may revive one that is over
  (`docs/SECURITY_AND_ACCESS_REVIEW.md:13` lists the transitions);
* every seed of tracks makes suspended and disabled tracks active again;
* a milestone whose threshold is edited comes back at the next seed;
* two saves of card templates at once leave two active;
* the rows of `feature_flags` are read by no code that decides
  (`docs/operations/SETTINGS.md:7`): `isFlagEnabled` reads the environment.

Not disagreements, but worth knowing when reading the models: nothing writes
`users.status`, and `assignRole` is called by scripts and tests only, so
`SuspendUser` and `GrantRole` stand for operators; the seeds of volunteering,
recognition and settings are called by development and end-to-end scripts.

## 5. Proofs

Every safety property that a passing run checks is proved here. Four of the
modules prove theorems about a second specification besides their own, which
they take from its view: a theorem about `CatalogsSpec`, `PrivacySpec`,
`ContentSpec` or `DeskSpec` is about that one alone. The run `desk` is of that
specification; `pages_and_places`, `catalogs_and_hours` and `rewards_and_content`
check each of the other three beside a component that has a module of its own.

`MembershipProofs` proves, for every set of users, types, applications,
memberships and requests and every pool size, the safety that the run
`membership` checks (`TypeCorrect`, `OneActive`, `Approved`,
`RegistryImplemented`) and three facts about the transaction that it rests on:
the review is still there when it commits (`ReviewHeld`), an approval returns its
own membership (`ApprovalReturns`), and an issuance uses up one review
(`IssuanceUsesReview`). The assumptions are those of the module: `None` is no
member of the sets and the pool is not empty.

The argument has two inductive invariants.

1. `Shape`: `TypeOK`, strengthened with what makes rows and locals well formed.
   An inserted application has an owner and a type, an inserted membership too,
   and a request's locals name rows that exist at the labels that use them. Types
   alone are not inductive, since a write of a local has to be known to be a
   value of the column it goes to.
2. `KeyHeld`: a request inside the transaction holds the row lock of its
   application, and only one request does. It needs `Shape`, and gives that the
   application stays under review from the re-read to the commit, since every
   other writer of the row waits for the lock.

`OneActive` follows from `Shape` alone, as the unique index refuses; the
interest is in `Approved` and `ApprovalReturns`, which rest on both. For
`RegistryImplemented` each step of the service is mapped to `Issue`,
`Deactivate`, `Reactivate` or a stutter of the registry (`RegistryStep`).

`VolunteeringProofs` proves what the run `pages_and_places` checks of places (`TypeCorrect`,
`PlacesKept`, `Accepted`), for any number of opportunities, calls and (finitely
many) volunteers, and any number of places. `Shape` is as above. `RowLock` adds
that a transaction past its `SELECT ... FOR UPDATE` has the row, and that whoever
has a row is such a transaction (`LockHeld`). So a participation can only be
inserted by the one call that has the row, and any other call that has counted
has another opportunity's row: `CountKept`. `PlacesKept` follows, as an insertion
adds one participant where the count was below the places. That participations
are never taken away (`PlacesAsBefore`) needs that an attendance is written to a
participation that exists (`AttendsPlace`), and gives `Accepted`.

`CredentialsProofs`, for any memberships, holders, types and calls, proves
`TypeCorrect`, `VerifiedActive` and `ActivationEarned`. `Seen` ties the history
`saw` to the labels: a call that is about to activate a credential, or to answer
that one is active (`Earned`), has its membership among those it saw active. A
read puts it there, and so does a reactivation while the call is under way;
nothing but the call's own start takes it out.

`NotificationsProofs`, for any number of services, workers and administrators,
proves `ShownOnce`, `TypeCorrect` (with its bound on attempts) and `Counting`. The
insert of the outbox row lets one call of a key through to the in-app row
(`Shown`). The other two are about the rows outside the history `shared`: no two
processes have had such a row in hand at once, be they workers or administrators
(`Apart`), and so `Knows` says what whoever has it may count on: that it is still
`PENDING` at the claim, `PROCESSING` with the attempts that were read in the loop,
`FAILED` at a retry. `Counted` ties the attempts and the deliveries of a row to its
status. Of a row that two have claimed neither holds, as `two_workers` and
section 4 show.

`TrackRosterProofs`, for any members, tracks, calls and crashes, proves
`TypeCorrect`, `SeatsKept` and `QuietCallsSettle`. The unique indexes keep
`OneHolder`; `SeatsKept` then maps each statement to `Take`, `Vacate` or a stutter
of both instances of `Seats` (`LeadersMove`, `TracksMove`): no statement
replaces a holder. `SettlingAt` says, label by label, which of the two badges a
call that nobody overlapped has already put right.

`TrackRewardsProofs`, for any rows, calls and crashes, proves `ImpactFollows`,
`RewardsBacked` and `QuietSettle`, from three invariants over `Shape`.

1. `Following`: the status and the impact of a contribution at each label of the
   one call on it, as long as no two overlapped there and none died (outside
   `torn`).
2. `Backing`: at label `flag` the reward at hand is there, and stays so. A
   contribution made from track work stays one; a revocation takes back the events
   of contributions, never those of track work, and leaves a badge's row.
3. `Settled`: how far a call that is still quiet has come: which of badge,
   milestone, certificate and flags it has made sure of, and that what it has not
   is on its list `todo`. It needs `Backing`, since a flag found set is taken
   for its reward.

The score is the sum of the live events; the proofs use only that it is computed
from the events that were read, so none needs an induction over them.

`AccountsProofs`, for any addresses, identities, codes, sessions and requests,
proves `TypeCorrect`, `CallsSettled`, `BindingKept` and `MadeWhole`. `Knows` is what a
call has made sure of so far; `Grows` is why nobody else can undo it: rows, roles
and the end of a session are for good. Bindings are not, when a late link
overwrites one (section 4). `Mapped` says of a sign-in at an address that is not
contested what it knows of the binding: unbound or its own identity's before it
links or creates, and its own ever after, since whoever else writes there writes
the same identity. The number of codes is finite.

In `NotificationsProofs`, of `Content`, for any pages, texts, requests, edits and
starts: `SeedsComplete`, `EditsStayed` and `ConsentsNameTexts`. `Seeding`: what the
seed has gone through is complete, and the entry at hand is as it was found, as
nobody edits before the server is up. For consents, `Public`: no version is later
than the clock, so that a page and a time have one text; and what is public, open
or consented to is among what was published.

In `CredentialsProofs`, of `Privacy`, for any members, sections, handles and calls:
`PagesShow` and `UpdatesStick`. `Holding` says what a page or a list rests on: what it
has put together was allowed, and was there, at some moment since its call began,
and so was what it is still to read; the settings a page has read were those of
such a moment. `Sticking` is the other's: while no other update of its row
overlaps, the row is as the update read it but for what the update has written.
A page that makes the missing first row of the settings is the interesting case:
it makes the row the update would have found.

In `AccountsProofs`, of `Desk`, for any users, consultations, meetings and calls:
`CreatorsRunTheirMeetings` and `RequestersAreTold`. Roles are only added, but more
roles are not more of everything: what a user may do as a member he may do still.
`CreatorsStand`: whoever is making a meeting may create meetings, and will be its
host or manages meetings anyhow. `Telling`: a call on its way to the
notices has its expert among those the assignments served, the expert of a
consultation may answer it, and the requester was told once no call is still to
tell him.

`HoursProofs` proves the properties of `VolunteerHours` for any entries, hours,
adjustments, rules and calls.

* `HoursEarnOnce`, for any number of reviewers, is about the entries that no two
  calls had read undecided at once (outside `contested`; those are decided twice,
  section 4). `Deciding`: whoever is about to decide on such an entry read it
  undecided, and it still is; and an approved entry that a call is still to give
  its event has none yet.
* `TotalsStay`, for any number of administrators, holds until two corrections
  overlap (`crossed`) or an entry is decided twice. `Balanced`: the approved hours
  that a running adjustment counted are still there, or more, and the adjustments
  are those it counted, so that the total stays at least what it was checked
  against.
* `QuietRefreshes` rests on `Quietly`: a call during which nobody else
  wrote knows, label by label, what the rows say (`Known`).

The totals are sums over sets. That an element adds its hours, and that a sum of no
negative hours grows with its set, would be inductions over a set, and the
library's induction theorem is out of the provers' reach. But the library also
says that the subsets of a finite set are well founded, so a law that failed would
fail on a smallest set (`Smallest`), and that refutes it. The model states that
entries are finite (`EntriesFinite`).

In `MembershipProofs`, of `Catalogs`, for any lists, tables, calls and edits:
`CatalogsAreSeeded`, `CatalogsKeepEdits` and `CatalogsSeedOnce`. `Knows` is what a call
that nothing has overlapped may count on: the lists it has gone through are
complete, the list it is at but for its `todo` too, and of a card's rivals only
those it is still to archive are active. `Counts` is what any seed may count on:
nobody has gone through its lists since it missed an entry, and the track it has
read is, in what seeds leave alone, as it was read unless it was edited.
`ThroughOK`: the lists that were gone through stay as they say until the next edit,
since no seed undoes another's row (`Grows`). The third theorem then needs that an
update of a row that is as its list says writes what is there (`UpdateQuiet`).
They rest on an assumption, `SeedsHaveEntries`, true of the code's lists: none is
empty, a track's slug is no key of another table, no threshold is missing, and the
card of the seed is one of its scope.

The assumptions on constants are those the modules state: `None` is no row;
`Contributions` and `TrackWork` are different tables (`RowsApart`); limits are
positive and bounds are numbers; `Required` are keys; the bootstrap address is one
address or none; the pool has a connection; users, codes and entries of hours are
finite; the lists of the catalogs are filled; the roles that are granted are roles
of the code. TLC evaluates each on the constants of a run. No theorem has a
hypothesis of its own.

Only model-checked is liveness (`EveryCallReturns`, `EventuallySettled`,
`EveryActiveMembershipIsCredentialed`): it rests on fairness and so on `ENABLED`,
which the prover does not treat. That TLC finds no deadlock in `membership`
and `credentials` is not proved either.

## 6. Plan

Done: the components in the order of how much depends on them: membership,
volunteering, credentials, notifications, tracks and recognition, identity and
content; hours, consultations and meetings, public profiles and catalogs; each
with the proofs of its safety. Left, if the code grows there:

1. support and announcements, once more than one of their writes has to agree;
2. the levels above the first, once code completes a participation (section 4);
3. the refinement of more components by an abstract specification, as
   `MembershipRegistry` and `Seats` are of theirs: an outbox with at-least-once
   delivery is the next.

## 7. Not modelled

Pages, forms, translations, card rendering, templates and escaping; support
(one actor and one table, last writer wins); dashboards, searches
and announcements of the administration; what an organizer may see
(`volunteering/scope.ts`); the provider of meeting rooms and the identity
provider, beyond what the code reads of them; passkeys (tables only); the
placeholder modules. `PROJECT.json` says of each component what is left out and
why.
