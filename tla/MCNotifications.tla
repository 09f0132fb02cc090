-------------------------- MODULE MCNotifications --------------------------
(***************************************************************************)
(* The outbox on small sets of keys and processes.                          *)
(*                                                                         *)
(* All of the processes at both keys are too many states, so a behaviour    *)
(* is either crowded, with every process at one key, or it has both keys,   *)
(* and Double, who schedules, delivers and retries, only schedules, and one *)
(* email is retried by hand.  Both keys make batches of two rows.           *)
(***************************************************************************)
EXTENDS Notifications

CONSTANTS Double, SecondKey

VARIABLE crowded

mcVars == <<vars, crowded>>

InScope ==
    /\ crowded' = crowded
    /\ crowded  => \A p \in Procs : arg'[p].key # SecondKey
    /\ ~crowded => pc'[Double] \in {"idle", "insertOutbox", "insertInApp"} /\ retries' <= 1

MCInit == Init /\ crowded \in BOOLEAN

MCNext == Next /\ InScope

MCSpec ==
    /\ MCInit /\ [][MCNext]_mcVars
    /\ \A w \in Workers : WF_mcVars(Process(w) /\ InScope) /\ SF_mcVars(Claim(w) /\ InScope)
    /\ \A k \in Keys : WF_mcVars(BackoffOver(k) /\ InScope)
=============================================================================
