------------------------------ MODULE Content ------------------------------
(***************************************************************************)
(* The editorial pages (src/modules/content): the blocks a seed makes and  *)
(* brings up to date, administrators edit and publish, and members consent *)
(* to (src/shared/ui/cms-article.tsx, policy-consent-form.tsx).            *)
(*                                                                         *)
(* The seed runs when scripts/dev-local.ts starts, before it starts the    *)
(* server on a database that outlives it: no edit overlaps a seed, but     *)
(* either may be cut short, and the seed begins again at the next start.   *)
(* A page that a member has open outlives the server as well.              *)
(*                                                                         *)
(* A block's titles and bodies are one text, as it is after sanitizing,    *)
(* and time moves on between two writes of a block.  Left out: sort        *)
(* orders, kinds, the date of publication (which nothing reads), languages,*)
(* audit rows, and the permission of the editors.                          *)
(***************************************************************************)
EXTENDS Naturals

CONSTANTS
    Slugs,
    Refreshed,      \* those whose former factory copy shouldRefreshFactoryCopy knows
    Drafts,         \* those that the seed makes as drafts
    Edited,         \* texts that administrators write
    Requests,
    MaxCalls,       \* bounds the edits and the pages opened
    MaxStarts       \* bounds the starts of the server

VARIABLES
    block,          \* content_blocks
    consents,       \* consent_records
    server,
    todo, seed,     \* the entries the seed has still to do, and where it is
    pc, arg,        \* where each request or open page is, and its locals
    clock,          \* the time of the last write: one more with each
    calls, starts,
    published       \* History: what has been public, and since when

rows     == <<block, consents>>
seedVars == <<server, todo, seed>>
callVars == <<pc, arg>>
vars     == <<rows, seedVars, callVars, clock, calls, starts, published>>

\* "old": a copy of the factory that the seed has since replaced.  An
\* administrator may write a text that looks like it.
Texts  == {"old", "seed"} \cup Edited
Status == {"draft", "published"}

\* edited: updated_by is set; at: updated_at.
NoBlock == [text |-> "none", status |-> "none", edited |-> FALSE, at |-> 0]
Factory == [text : {"old", "seed"}, status : Status, edited : {FALSE}, at : {0}]
NoArg   == [slug |-> "none", text |-> "none", status |-> "none", at |-> 0]
NoSeed  == [step |-> "find", slug |-> "none"]

\* CONTENT_SEEDS
SeedStatus(s) == IF s \in Drafts THEN "draft" ELSE "published"
SeedBlock(s)  == [text |-> "seed", status |-> SeedStatus(s), edited |-> FALSE, at |-> clock + 1]

\* The database is empty, or as former seeds have left it.
Init ==
    /\ block \in [Slugs -> {NoBlock} \cup Factory]
    /\ consents = {}
    /\ server = "down"
    /\ todo = {}
    /\ seed = NoSeed
    /\ pc  = [r \in Requests |-> "idle"]
    /\ arg = [r \in Requests |-> NoArg]
    /\ clock = 0
    /\ calls = 0
    /\ starts = 0
    /\ published = {[slug |-> s, text |-> block[s].text, at |-> 0] :
                      s \in {t \in Slugs : block[t].status = "published"}}

-----------------------------------------------------------------------------
(* Steps *)

GoTo(r, label, a) ==
    /\ pc'  = [pc  EXCEPT ![r] = label]
    /\ arg' = [arg EXCEPT ![r] = a]

Return(r) == GoTo(r, "idle", NoArg)

\* The INSERT or UPDATE of a block.
Write(s, b) ==
    /\ block' = [block EXCEPT ![s] = b]
    /\ clock' = clock + 1
    /\ published' = published \cup
         (IF b.status = "published" THEN {[slug |-> s, text |-> b.text, at |-> b.at]} ELSE {})

-----------------------------------------------------------------------------
(* seedContentCatalog, as the server starts *)

\* MaxStarts is a bound of the model, not of the code.
StartServer ==
    /\ server = "down"
    /\ starts < MaxStarts
    /\ starts' = starts + 1
    /\ server' = "seeding"
    /\ todo' = Slugs
    /\ seed' = NoSeed
    /\ UNCHANGED <<rows, callVars, clock, calls, published>>

\* Mutant: the edits of administrators are not looked for.
RefreshAlways(s) == s \in Refreshed /\ block[s].text = "old"

\* shouldRefreshFactoryCopy
ShouldRefresh(s) == ~block[s].edited /\ s \in Refreshed /\ block[s].text = "old"

\* Mutant: an entry that has a row is taken to be done.
FindOnly(s) ==
    /\ seed.step = "find"
    /\ IF block[s] = NoBlock
       THEN seed' = [step |-> "insert", slug |-> s] /\ UNCHANGED todo
       ELSE seed' = NoSeed /\ todo' = todo \ {s}

\* The entries may come in any order here.
Find(s) ==
    /\ seed.step = "find"
    /\ \/ /\ block[s] = NoBlock
          /\ seed' = [step |-> "insert", slug |-> s]
          /\ UNCHANGED todo
       \/ /\ block[s] # NoBlock
          /\ ShouldRefresh(s)
          /\ seed' = [step |-> "update", slug |-> s]
          /\ UNCHANGED todo
       \/ /\ block[s] # NoBlock
          /\ ~ShouldRefresh(s)
          /\ seed' = NoSeed
          /\ todo' = todo \ {s}

FindBlock(s) == Find(s) /\ UNCHANGED <<block, clock, published>>

\* The update leaves updated_by as it is.
WriteBlock(s) ==
    /\ seed.step \in {"insert", "update"}
    /\ seed.slug = s
    /\ Write(s, IF seed.step = "insert" THEN SeedBlock(s)
                ELSE [SeedBlock(s) EXCEPT !.edited = block[s].edited])
    /\ seed' = NoSeed
    /\ todo' = todo \ {s}

SeedContentCatalog ==
    /\ server = "seeding"
    /\ \E s \in todo : FindBlock(s) \/ WriteBlock(s)
    /\ UNCHANGED <<consents, server, callVars, calls, starts>>

ServerUp ==
    /\ server = "seeding"
    /\ todo = {}
    /\ server' = "up"
    /\ UNCHANGED <<rows, todo, seed, callVars, clock, calls, starts, published>>

\* The process ends, or is killed, with what it was doing; pages stay open.
Stop ==
    /\ server # "down"
    /\ server' = "down"
    /\ todo' = {}
    /\ seed' = NoSeed
    /\ pc'  = [r \in Requests |-> IF pc[r] = "save" THEN "idle" ELSE pc[r]]
    /\ arg' = [r \in Requests |-> IF pc[r] = "save" THEN NoArg ELSE arg[r]]
    /\ UNCHANGED <<rows, clock, calls, starts, published>>

-----------------------------------------------------------------------------
(* Administrators *)

\* MaxCalls is a bound of the model, not of the code.
Begin(r, label, a) ==
    /\ server = "up"
    /\ calls < MaxCalls
    /\ calls' = calls + 1
    /\ pc[r] = "idle"
    /\ GoTo(r, label, a)

\* updateContentBlock finds the row; the form sends all texts and the status.
UpdateContentBlock(r, s, text, status) ==
    /\ block[s] # NoBlock
    /\ Begin(r, "save", [slug |-> s, text |-> text, status |-> status, at |-> 0])
    /\ UNCHANGED <<rows, seedVars, clock, starts, published>>

\* Mutant: updated_at is left as it was.
SaveUndated(r) ==
    LET s == arg[r].slug IN
    /\ pc[r] = "save"
    /\ Write(s, [text |-> arg[r].text, status |-> arg[r].status, edited |-> TRUE, at |-> block[s].at])
    /\ Return(r)
    /\ UNCHANGED <<consents, seedVars, calls, starts>>

Save(r) ==
    /\ pc[r] = "save"
    /\ Write(arg[r].slug, [text |-> arg[r].text, status |-> arg[r].status, edited |-> TRUE,
                           at |-> clock + 1])
    /\ Return(r)
    /\ UNCHANGED <<consents, seedVars, calls, starts>>

-----------------------------------------------------------------------------
(* Readers *)

\* CmsArticle: an article that is not public is shown as under review, without the form.
CmsArticle(r, s) ==
    /\ block[s].status = "published"
    /\ Begin(r, "article", [slug |-> s, text |-> block[s].text, status |-> "published",
                            at |-> block[s].at])
    /\ UNCHANGED <<rows, seedVars, clock, starts, published>>

\* recordPolicyConsent: of the version the page was made with, which is not looked
\* at again.  text: what the member has read, kept for properties only.
RecordPolicyConsent(r) ==
    /\ pc[r] = "article"
    /\ server = "up"
    /\ consents' = consents \cup {[slug |-> arg[r].slug, text |-> arg[r].text, at |-> arg[r].at]}
    /\ Return(r)
    /\ UNCHANGED <<block, seedVars, clock, calls, starts, published>>

ClosePage(r) ==
    /\ pc[r] = "article"
    /\ Return(r)
    /\ UNCHANGED <<rows, seedVars, clock, calls, starts, published>>

-----------------------------------------------------------------------------

Next ==
    \/ StartServer \/ SeedContentCatalog \/ ServerUp \/ Stop
    \/ \E r \in Requests :
        \/ \E s \in Slugs, text \in {"old"} \cup Edited, status \in Status :
             UpdateContentBlock(r, s, text, status)
        \/ \E s \in Slugs : CmsArticle(r, s)
        \/ Save(r) \/ RecordPolicyConsent(r) \/ ClosePage(r)

Spec == Init /\ [][Next]_vars

-----------------------------------------------------------------------------
(* Properties *)

\* seedContentCatalog: when the server is up every page of the seed's list is there,
\* and none has still a former copy of the factory that no one has edited, though
\* earlier starts were cut short between the entries.
SeedsAreComplete ==
    server = "up" => \A s \in Slugs : block[s] # NoBlock /\ ~ShouldRefresh(s)

\* LEGACY_FACTORY_HOME_HERO, "Never overwrite admin-edited blocks": what an
\* administrator has saved changes only when one saves again, at whatever starts of
\* the server, and also when it looks like a former copy of the factory.
EditsStay ==
    [][\A s \in Slugs :
        block[s].edited /\ block'[s] # block[s] =>
            block'[s].edited /\ \E r \in Requests : pc[r] = "save" /\ arg[r].slug = s]_vars

\* cms-article, recordPolicyConsent: a consent names a version of a page by the time
\* it was saved; that version has been public, and one text only, the one the member
\* has read, has been public under it, though the page was edited, withdrawn or
\* seeded anew between the reading and the consent.
ConsentNamesItsText ==
    \A c \in consents : {v.text : v \in {p \in published : p.slug = c.slug /\ p.at = c.at}} = {c.text}
=============================================================================
