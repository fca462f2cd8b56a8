---------------------------- MODULE MCClientOut ----------------------------
(* Small instances of ClientOut for TLC. *)
EXTENDS ClientOut

CONSTANT c1

OneClient == {c1}
=============================================================================
