----------------------------- MODULE MCAccounts -----------------------------
(***************************************************************************)
(* Accounts on small sets of addresses, identities, codes and sessions.    *)
(* Codes and sessions that are not yet used are all the same, so the first *)
(* of them is used first.                                                  *)
(***************************************************************************)
EXTENDS Accounts, TLC

CONSTANTS FirstCode, FirstSession

InOrder ==
    /\ code[FirstCode] = NoCode => \A c \in Codes : code[c] = NoCode
    /\ session[FirstSession] = NoSession => \A s \in Sessions : session[s] = NoSession

MCNext == Next /\ InOrder'

MCSpec == Init /\ [][MCNext]_vars

Symmetry == Permutations(Clerks) \cup Permutations(Requests)
=============================================================================
