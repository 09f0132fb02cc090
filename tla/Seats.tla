------------------------------- MODULE Seats -------------------------------
(***************************************************************************)
(* Seats that one holder at a time may have, and that pass from one holder *)
(* to the next by way of being vacant: never two holders, and never a      *)
(* holder put in the place of another in one step.  A reader may find any  *)
(* seat vacant.  TrackRoster.tla is shown to implement it twice: a track's *)
(* primary leader, and a member's primary track.                           *)
(***************************************************************************)
CONSTANTS Seat, Holder

VARIABLE holders

Init == holders = [s \in Seat |-> {}]

Take(s, h) ==
    /\ holders[s] = {}
    /\ holders' = [holders EXCEPT ![s] = {h}]

\* A suspension may vacate several seats in one statement.
Vacate ==
    /\ holders' \in [Seat -> SUBSET Holder]
    /\ \A s \in Seat : holders'[s] \in {{}, holders[s]}

Next == Vacate \/ \E s \in Seat, h \in Holder : Take(s, h)

Spec == Init /\ [][Next]_holders
=============================================================================
