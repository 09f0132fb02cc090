------------------------------ MODULE DeskView ------------------------------
(***************************************************************************)
(* Desk beside another component: what other components name as well, the  *)
(* requests, their locals and the bounds, has a name of its own here, so   *)
(* that a module may EXTEND both.                                          *)
(***************************************************************************)
CONSTANTS
    Users, Consultations, Meetings, Granted, Ready,
    DeskRequests, Nobody, MaxDeskCalls

VARIABLES
    role, consultation, message, room, participant, told, served,
    deskPc, deskArg, deskCalls, deskDied

D == INSTANCE Desk WITH
    Requests <- DeskRequests, None <- Nobody, MaxCalls <- MaxDeskCalls,
    pc <- deskPc, arg <- deskArg, calls <- deskCalls, died <- deskDied

ASSUME ReadyType == Ready \in BOOLEAN
ASSUME GrantedAssumption == Granted \subseteq D!RoleSlugs

DeskSpec == D!Spec

\* Desk.tla's: who scheduled a meeting finds it and may run it; and assignments
\* are told to those who can open them.
CreatorMayRunIt    == D!CreatorMayRunIt
AssignmentsAreTold == D!AssignmentsAreTold
=============================================================================
