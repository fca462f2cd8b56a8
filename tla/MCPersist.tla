------------------------------ MODULE MCPersist ------------------------------
(* Small instances of Persist. *)
EXTENDS Persist

WorldOnly == {{"world"}}
WorldAndSigns == {{"world", "signs"}}
SignsOnly == {{"signs"}}
=============================================================================
