---------------------------- MODULE MCMatchmaker ----------------------------
(***************************************************************************)
(* A server that restarts and advertises an address that is not its own,   *)
(* and one started here on demand that may advertise the other's.          *)
(***************************************************************************)
EXTENDS Matchmaker, TLC

CONSTANTS x, h

MCRemote == {x}
MCSpawned == {h}
MCHost == (x :> "X") @@ (h :> "home")
MCClaimed == (x :> "home") @@ (h :> "X")
MCPort == x :> 2
MCName == (x :> "world") @@ (h :> "world")
=============================================================================
