------------------------------ MODULE Privacy ------------------------------
(***************************************************************************)
(* What members show in public: the settings of the public profile and the *)
(* pages built from them (src/modules/recognition/service.ts, "Public      *)
(* profile / directory"), and the member's own profile with its visibility *)
(* (src/modules/identity/profile/service.ts); and the channels on which    *)
(* they want to be notified of what they may switch off                    *)
(* (src/modules/notifications/service.ts).                                 *)
(*                                                                         *)
(* An update reads the row, and then writes all of it: what the patch says *)
(* and, for the rest, what was read.  A page reads the settings once and   *)
(* then the rows of each section they allow.  No call is a transaction.    *)
(*                                                                         *)
(* A section stands for any of the flags of the settings, showTracks among *)
(* them, and its content for what the section lists or the field it shows. *)
(* The member's name, texts, memberships and level, which a page shows     *)
(* whatever the settings say, are left out, as are the headline and tracks *)
(* in the directory, which shows them in the same way, the limit on the    *)
(* rate of searches and the rewriting of a handle into its allowed         *)
(* characters.  The visibility of the member's own profile is read by the  *)
(* directory and by no page.  Preferences are those of one category that   *)
(* is not required, where email is sent; what a notification goes on to is *)
(* in Notifications.                                                       *)
(***************************************************************************)
EXTENDS Naturals, FiniteSets

CONSTANTS
    Users, Sections, Handles, Requests, None,
    Shown,          \* the sections that new settings show
    Awards,         \* the sections of what has a public code of its own
    MaxCalls        \* bounds the calls of a behaviour, and the changes around them

\* The channels of a notification, in the order in which they are looked up.
Channels == {"email", "in_app"}

VARIABLES
    settings,       \* public_profile_settings: whether there is a row, the
                    \* sections it shows and its handle
    profile,        \* profiles and profile_contacts: the flags that are set
    preference,     \* notification_preferences: "none", "on" or "off" for each channel
    content,        \* the sections a user has something in
    pc, arg,        \* where each request is, and its locals
    calls,
    allowed, had    \* History: what each page might show, and had to show, at
                    \* some moment of its call

rows     == <<settings, profile, preference, content>>
callVars == <<pc, arg>>
vars     == <<rows, callVars, calls, allowed, had>>

NoSettings == [exists |-> FALSE, shown |-> {}, handle |-> None]

\* A row made by an insert that names nothing but its user.
NewSettings == [exists |-> TRUE, shown |-> Shown, handle |-> None]

\* user: whose rows; patch: of the settings or of the profile; read: the row as
\* it was read; page: what is shown so far, todo: the sections to come; want: the
\* row that was asked for, and alone: no other update of the row has overlapped
\* this one, both read by properties only.
NoArg == [call |-> "none", user |-> None, patch |-> {}, handle |-> "keep", read |-> NoSettings,
          page |-> {}, todo |-> {}, want |-> NoSettings, alone |-> TRUE]

Labels == {"idle", "find", "insert", "again", "taken", "update", "section", "shown",
           "write", "contact", "insertPreference", "writePreference", "channel",
           "listed", "done"}

Fields == {"visibility", "directoryOptIn", "legalName"}

Init ==
    /\ settings \in [Users -> {NoSettings, NewSettings}]
    /\ profile = [u \in Users |-> {}]
    /\ preference = [u \in Users |-> [c \in Channels |-> "none"]]
    /\ content = [u \in Users |-> Sections]
    /\ pc  = [r \in Requests |-> "idle"]
    /\ arg = [r \in Requests |-> NoArg]
    /\ calls = 0
    /\ allowed = [r \in Requests |-> {}]
    /\ had = [r \in Requests |-> {}]

-----------------------------------------------------------------------------
(* Calls *)

GoTo(r, label, a) ==
    /\ pc'  = [pc  EXCEPT ![r] = label]
    /\ arg' = [arg EXCEPT ![r] = a]

Step(r, label) == GoTo(r, label, arg[r])
Return(r)      == GoTo(r, "idle", NoArg)

\* An error returned to the caller; nothing is rolled back.
Throw(r) == Return(r)

Begin(r, label, a) == pc[r] = "idle" /\ GoTo(r, label, a) /\ UNCHANGED rows

\* An update of u's row begins; those of it that are under way are not alone.
BeginUpdate(r, label, a) ==
    LET others == {q \in Requests : arg[q].call = a.call /\ arg[q].user = a.user} IN
    /\ pc[r] = "idle"
    /\ pc'  = [pc EXCEPT ![r] = label]
    /\ arg' = [q \in Requests |->
                 IF q = r THEN [a EXCEPT !.alone = others = {}]
                 ELSE IF q \in others THEN [arg[q] EXCEPT !.alone = FALSE]
                 ELSE arg[q]]
    /\ UNCHANGED rows

\* A patch is a set of pairs of a flag and its new value.
Patched(set, patch) ==
    {x \in set : <<x, FALSE>> \notin patch} \cup {x \in Sections \cup Fields : <<x, TRUE>> \in patch}

PatchedSettings(s, patch, h) ==
    [exists |-> TRUE, shown |-> Patched(s.shown, patch),
     handle |-> IF h = "keep" THEN s.handle ELSE h]

-----------------------------------------------------------------------------
(* getOrCreatePublicProfileSettings, of an update or of a page *)

Find(r) ==
    LET s == settings[arg[r].user] IN
    /\ pc[r] = "find"
    /\ IF s.exists THEN GoTo(r, "taken", [arg[r] EXCEPT !.read = s]) ELSE Step(r, "insert")
    /\ UNCHANGED rows

\* The unique index on the user refuses a second row.
Insert(r) ==
    LET u == arg[r].user IN
    /\ pc[r] = "insert"
    /\ \/ settings[u].exists /\ Throw(r) /\ UNCHANGED settings
       \/ /\ ~settings[u].exists
          /\ settings' = [settings EXCEPT ![u] = NewSettings]
          /\ Step(r, "again")
    /\ UNCHANGED <<profile, preference, content>>

FindAgain(r) ==
    /\ pc[r] = "again"
    /\ GoTo(r, "taken", [arg[r] EXCEPT !.read = settings[arg[r].user]])
    /\ UNCHANGED rows

-----------------------------------------------------------------------------
(* updatePublicProfileSettings *)

UpdateSettings(r, u, patch, h) ==
    LET s == IF settings[u].exists THEN settings[u] ELSE NewSettings IN
    BeginUpdate(r, "find", [NoArg EXCEPT !.call = "settings", !.user = u, !.patch = patch,
                            !.handle = h, !.want = PatchedSettings(s, patch, h)])

Owner(h) == {u \in Users : settings[u].handle = h}

\* A page goes on to its sections here.
Taken(r) ==
    LET a == arg[r] IN
    /\ pc[r] = "taken"
    /\ \/ /\ a.call = "page"
          /\ GoTo(r, "section", [a EXCEPT !.todo = a.read.shown])
       \/ /\ a.call = "settings"
          /\ IF a.handle \in Handles /\ Owner(a.handle) \ {a.user} # {} THEN Throw(r)
             ELSE Step(r, "update")
    /\ UNCHANGED rows

\* Mutant: what the patch leaves out goes back to how it was made.
UpdateFromDefaults(r) ==
    LET a == arg[r] IN
    /\ pc[r] = "update"
    /\ IF a.handle \in Handles /\ Owner(a.handle) \ {a.user} # {}
       THEN Throw(r) /\ UNCHANGED settings
       ELSE /\ settings' = [settings EXCEPT ![a.user] = PatchedSettings(NewSettings, a.patch, a.handle)]
            /\ Step(r, "done")
    /\ UNCHANGED <<profile, preference, content>>

\* The unique index on the handle refuses one that was taken since.
Update(r) ==
    LET a == arg[r] IN
    /\ pc[r] = "update"
    /\ IF a.handle \in Handles /\ Owner(a.handle) \ {a.user} # {}
       THEN Throw(r) /\ UNCHANGED settings
       ELSE /\ settings' = [settings EXCEPT ![a.user] = PatchedSettings(a.read, a.patch, a.handle)]
            /\ Step(r, "done")
    /\ UNCHANGED <<profile, preference, content>>

-----------------------------------------------------------------------------
(* updateOwnProfile *)

UpdateProfile(r, u, patch) ==
    BeginUpdate(r, "write", [NoArg EXCEPT !.call = "profile", !.user = u, !.patch = patch,
                             !.read.shown = profile[u],
                             !.want.shown = Patched(profile[u], patch)])

\* Every field of profiles; the legal name stands in profile_contacts.
Write(r) ==
    LET a == arg[r]
        u == a.user
    IN
    /\ pc[r] = "write"
    /\ profile' = [profile EXCEPT ![u] =
           (Patched(a.read.shown, a.patch) \ {"legalName"}) \cup (@ \cap {"legalName"})]
    /\ Step(r, IF <<"legalName", TRUE>> \in a.patch THEN "contact" ELSE "done")
    /\ UNCHANGED <<settings, preference, content>>

Contact(r) ==
    /\ pc[r] = "contact"
    /\ profile' = [profile EXCEPT ![arg[r].user] = @ \cup {"legalName"}]
    /\ Step(r, "done")
    /\ UNCHANGED <<settings, preference, content>>

-----------------------------------------------------------------------------
(* updateNotificationPreference, and scheduleNotification up to its inserts *)

UpdatePreference(r, u, c, on) ==
    BeginUpdate(r, IF preference[u][c] = "none" THEN "insertPreference" ELSE "writePreference",
                [NoArg EXCEPT !.call = "preference", !.user = u, !.patch = {<<c, on>>}])

\* Whether the patch switches the channel on.
Switched(patch, c) == IF <<c, TRUE>> \in patch THEN "on" ELSE "off"

SetPreference(u, patch) ==
    preference' = [preference EXCEPT ![u] =
        [c \in Channels |-> IF \E x \in patch : x[1] = c THEN Switched(patch, c) ELSE @[c]]]

\* The unique index on user, category and channel refuses a second row.
InsertPreference(r) ==
    LET a == arg[r] IN
    /\ pc[r] = "insertPreference"
    /\ IF \E x \in a.patch : preference[a.user][x[1]] # "none"
       THEN Throw(r) /\ UNCHANGED preference
       ELSE SetPreference(a.user, a.patch) /\ Step(r, "done")
    /\ UNCHANGED <<settings, profile, content>>

WritePreference(r) ==
    /\ pc[r] = "writePreference"
    /\ SetPreference(arg[r].user, arg[r].patch)
    /\ Step(r, "done")
    /\ UNCHANGED <<settings, profile, content>>

ScheduleNotification(r, u) ==
    Begin(r, "channel", [NoArg EXCEPT !.call = "notify", !.user = u, !.todo = Channels])

\* isChannelEnabled: without a row a channel is on.
Enabled(u) == {c \in Channels : preference[u][c] # "off"}

IsChannelEnabled(r, c) ==
    LET left == arg[r].todo \ {c} IN
    /\ pc[r] = "channel"
    /\ c \in arg[r].todo
    /\ c = "in_app" => "email" \notin arg[r].todo
    /\ GoTo(r, IF left = {} THEN "shown" ELSE "channel",
            [arg[r] EXCEPT !.todo = left, !.page = @ \cup ({c} \cap Enabled(arg[r].user))])
    /\ UNCHANGED rows

-----------------------------------------------------------------------------
(* Pages *)

\* Mutant: the page of a handle reads the settings as those of a new member.
PageOfUnread(r, u) ==
    Begin(r, "section", [NoArg EXCEPT !.call = "page", !.user = u, !.todo = Shown])

\* getPublicMemberProfileByHandle and ByCredentialCode, buildPublicMemberProfile.
\* The code leads to the member whatever the settings are.
Page(r, u) ==
    Begin(r, "find", [NoArg EXCEPT !.call = "page", !.user = u])

PageByHandle(r, h) == \E u \in Owner(h) : Page(r, u)

\* Each allowed section is read on its own.
Section(r, s) ==
    /\ pc[r] = "section"
    /\ s \in arg[r].todo
    /\ GoTo(r, "section", [arg[r] EXCEPT !.todo = @ \ {s},
               !.page = @ \cup ({s} \cap content[arg[r].user])])
    /\ UNCHANGED rows

ShowPage(r) == pc[r] = "section" /\ arg[r].todo = {} /\ Step(r, "shown") /\ UNCHANGED rows

\* A code is verified whatever the settings say.
Verified(u, s) == {s} \cap content[u]

VerifyPublicCode(r, u, s) ==
    Begin(r, "shown", [NoArg EXCEPT !.call = "code", !.user = u, !.page = Verified(u, s)])

\* The picture to share of what is verified.
GetShareCardPayload(r, u, s) == Verified(u, s) # {} /\ VerifyPublicCode(r, u, s)

Open(u) == {"visibility", "directoryOptIn"} \subseteq profile[u]

\* listDirectoryMembers: the members are chosen by one query.
ListDirectory(r) ==
    Begin(r, "listed", [NoArg EXCEPT !.call = "list", !.page = {u \in Users : Open(u)}])

Finish(r) == pc[r] \in {"shown", "listed", "done"} /\ Return(r) /\ UNCHANGED rows

\* A request dies, or one of its statements throws.
Crash(r) == pc[r] # "idle" /\ Return(r) /\ UNCHANGED rows

\* A badge is issued or revoked, a contribution approved or withdrawn, ...
ContentChanges(u, s) ==
    /\ content' = [content EXCEPT ![u] = IF s \in @ THEN @ \ {s} ELSE @ \cup {s}]
    /\ UNCHANGED <<settings, profile, preference, callVars>>

-----------------------------------------------------------------------------

SettingsCalls(r) ==
    \E u \in Users, x \in Sections, to \in BOOLEAN :
        \/ UpdateSettings(r, u, {<<x, to>>}, "keep")
        \/ \E h \in Handles \cup {None} :
               UpdateSettings(r, u, {}, h) \/ UpdateSettings(r, u, {<<x, to>>}, h)

ProfileCalls(r) ==
    \E u \in Users, to \in BOOLEAN :
        \/ \E x \in {"visibility", "directoryOptIn"} :
               UpdateProfile(r, u, {<<x, to>>}) \/ UpdateProfile(r, u, {<<x, to>>, <<"legalName", TRUE>>})
        \/ UpdateProfile(r, u, {<<"visibility", to>>, <<"directoryOptIn", to>>})

PageCalls(r) ==
    \/ \E u \in Users : Page(r, u)
    \/ \E h \in Handles : PageByHandle(r, h)
    \/ \E u \in Users, s \in Awards : VerifyPublicCode(r, u, s) \/ GetShareCardPayload(r, u, s)
    \/ ListDirectory(r)

NotificationCalls(r) ==
    \E u \in Users :
        \/ ScheduleNotification(r, u)
        \/ \E c \in Channels, on \in BOOLEAN : UpdatePreference(r, u, c, on)

Continue(r) ==
    \/ Find(r) \/ Insert(r) \/ FindAgain(r) \/ Taken(r) \/ Update(r)
    \/ Write(r) \/ Contact(r)
    \/ InsertPreference(r) \/ WritePreference(r)
    \/ \E c \in Channels : IsChannelEnabled(r, c)
    \/ \E s \in Sections : Section(r, s)
    \/ ShowPage(r) \/ Finish(r)

\* What a page or a list may show at this moment.
Showable(a) ==
    CASE a.call = "page"   -> IF settings[a.user].exists THEN settings[a.user].shown ELSE Shown
      [] a.call = "list"   -> {u \in Users : Open(u)}
      [] a.call = "notify" -> Enabled(a.user)
      [] a.call = "code"   -> Awards
      [] OTHER             -> {}

Present(a) ==
    CASE a.call \in {"page", "code"} -> content[a.user]
      [] a.call = "list"             -> Users
      [] a.call = "notify"           -> Channels
      [] OTHER                       -> {}

Keep(seen, now) == [r \in Requests |-> IF arg'[r].call = "none" THEN {} ELSE seen[r] \cup now[r]]

\* MaxCalls is a bound of the model, not of the code.
Next ==
    /\ \/ /\ calls < MaxCalls
          /\ calls' = calls + 1
          /\ \/ \E r \in Requests : SettingsCalls(r) \/ ProfileCalls(r) \/ PageCalls(r) \/ NotificationCalls(r)
             \/ \E u \in Users, s \in Sections : ContentChanges(u, s)
       \/ \E r \in Requests : (Continue(r) \/ Crash(r)) /\ UNCHANGED calls
    /\ allowed' = Keep(allowed, [r \in Requests |-> Showable(arg[r])'])
    /\ had'     = Keep(had,     [r \in Requests |-> Present(arg[r])'])

Spec == Init /\ [][Next]_vars

-----------------------------------------------------------------------------
(* Properties *)

\* PRIVACY_MODEL.md, "Members control visibility flags": a page shows a section
\* that a flag of public_profile_settings guards, and the directory a member with
\* the flags of the profile, only if the flag was set at some moment of the
\* request, and shows nothing that was gone when the request came, though settings
\* change and rows are withdrawn while the page is built.  So does a notification
\* go to the channels that were on at some moment of its call.  (Whether the
\* profile is public is not asked by the code of a page, nor therefore here.)
PagesFollowTheFlags ==
    \A r \in Requests :
        pc[r] \in {"section", "channel", "shown", "listed"} => arg[r].page \subseteq allowed[r] \cap had[r]

\* updatePublicProfileSettings, updateOwnProfile, updateNotificationPreference: an
\* update that no other update of the same row overlapped leaves what the member
\* asked for and, in the rest, what stood there, whether the row was there or the
\* update or a page had to make it.
QuietUpdatesStick ==
    \A r \in Requests :
        LET a == arg[r] IN
        pc[r] = "done" /\ a.alone =>
            CASE a.call = "settings"   -> settings[a.user] = a.want
              [] a.call = "profile"    -> profile[a.user] = a.want.shown
              [] a.call = "preference" ->
                     \A x \in a.patch : preference[a.user][x[1]] = Switched(a.patch, x[1])
=============================================================================
