------------------------------ MODULE MCCoord ------------------------------
(* An instance of CoordPresence for TLC: what the environment may do. The  *)
(* user logs out, at any moment, and in again; or a server is lost, or an  *)
(* answer, and a call asks for a bridge.                                   *)
EXTENDS CoordPresence

Budget(login, logout, fault, call) ==
    [login |-> login, logout |-> logout, fault |-> fault, call |-> call]

LogoutOrTrouble == {Budget(2, 1, 0, 0), Budget(1, 0, 1, 1)}

OneLogout == {Budget(2, 1, 0, 0)}
=============================================================================
