---------------------------- MODULE ContentView ----------------------------
(***************************************************************************)
(* Content beside another component: what other components name as well,   *)
(* the requests, their locals and the bound, has a name of its own here,   *)
(* so that a module may EXTEND both.                                       *)
(***************************************************************************)
CONSTANTS
    Slugs, Refreshed, Drafts, Edited,
    ContentRequests, MaxContentCalls, MaxStarts

VARIABLES
    block, consents, server, todo, seed, clock, starts, published,
    contentPc, contentArg, contentCalls

Pages == INSTANCE Content WITH
    Requests <- ContentRequests, MaxCalls <- MaxContentCalls,
    pc <- contentPc, arg <- contentArg, calls <- contentCalls

ContentSpec == Pages!Spec

\* Content.tla's: when the server is up its pages are seeded; an edit stands until
\* the next one; and a consent names the text that was read.
SeedsAreComplete    == Pages!SeedsAreComplete
EditsStay           == Pages!EditsStay
ConsentNamesItsText == Pages!ConsentNamesItsText
=============================================================================
