---------------------------- MODULE CatalogsView ----------------------------
(***************************************************************************)
(* Catalogs beside another component: what other components name as well,  *)
(* the types, the requests, their locals and the bound, has a name of its  *)
(* own here, so that a module may EXTEND both.                             *)
(***************************************************************************)
CONSTANTS
    SeededTypes, Preferences, Flags, Kinds, ImpactRules, Roles, Permissions, Tracks,
    Thresholds, AllThresholds, Milestones, Cards, DefaultCard,
    CatalogRequests, NoEntry, MaxCatalogCalls

VARIABLES
    setting, track, milestone, card, asked, torn, settled,
    catalogPc, catalogArg, catalogCalls

C == INSTANCE Catalogs WITH
    Types <- SeededTypes, Rules <- ImpactRules, Requests <- CatalogRequests, None <- NoEntry,
    MaxCalls <- MaxCatalogCalls,
    pc <- catalogPc, arg <- catalogArg, calls <- catalogCalls

ASSUME SeedsHaveEntries == C!ListsAreFilled

CatalogsSpec == C!Spec

\* Catalogs.tla's: a seed that went through changes nothing when it runs again;
\* one that nothing overlapped is complete; the edits of administrators stand.
CatalogSeedingIsIdempotent == C!SeedingIsIdempotent
CatalogSeedsAreComplete    == C!SeedsAreComplete
CatalogEditsStand          == C!EditsStand
=============================================================================
