------------------------- MODULE MembershipRegistry -------------------------
(***************************************************************************)
(* What the membership component promises, without applications, requests, *)
(* locks or races: memberships are issued once, active, to one holder and  *)
(* of one type; their status then moves freely among active, suspended and *)
(* revoked; and no holder ever has two active memberships of one type.     *)
(* Membership.tla is shown to implement it.                                *)
(***************************************************************************)
CONSTANTS Users, Types, Memberships, None

VARIABLES memStatus, memOwner, memType

registry == <<memStatus, memOwner, memType>>

Init ==
    /\ memStatus = [m \in Memberships |-> "none"]
    /\ memOwner  = [m \in Memberships |-> None]
    /\ memType   = [m \in Memberships |-> None]

Active(u, t) ==
    {m \in Memberships : memStatus[m] = "active" /\ memOwner[m] = u /\ memType[m] = t}

Issue(m, u, t) ==
    /\ memStatus[m] = "none"
    /\ Active(u, t) = {}
    /\ memStatus' = [memStatus EXCEPT ![m] = "active"]
    /\ memOwner'  = [memOwner  EXCEPT ![m] = u]
    /\ memType'   = [memType   EXCEPT ![m] = t]

Deactivate(m, to) ==
    /\ memStatus[m] # "none"
    /\ memStatus' = [memStatus EXCEPT ![m] = to]
    /\ UNCHANGED <<memOwner, memType>>

Reactivate(m) ==
    /\ memStatus[m] # "none"
    /\ Active(memOwner[m], memType[m]) \subseteq {m}
    /\ memStatus' = [memStatus EXCEPT ![m] = "active"]
    /\ UNCHANGED <<memOwner, memType>>

Next ==
    \E m \in Memberships :
        \/ \E u \in Users, t \in Types : Issue(m, u, t)
        \/ \E to \in {"suspended", "revoked"} : Deactivate(m, to)
        \/ Reactivate(m)

Spec == Init /\ [][Next]_registry
=============================================================================
