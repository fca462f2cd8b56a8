--------------------------- MODULE MCRegionServe ---------------------------
(* Small instances of RegionServe for TLC. *)
EXTENDS RegionServe, TLC

CONSTANTS c1, c2

MCClients == {c1, c2}
OneClient == {c1}
MCSymmetry == Permutations(MCClients)   \* no action or property names a client

\* The easternmost chunk of the first box, and a column 4096 blocks away that shares a
\* generation slot with it although no box holds both.
AliasedCells == {<<33, 8>>, <<4129, 8>>}
AliasedPoints == {<<24, 8>>}

\* One box over two columns.
SharedCells == {<<3, 8>>, <<20, 8>>}
SharedPoints == {<<8, 8>>}

\* Five boxes that overlap on one column, and a column outside them.
CrowdedCells == {<<40, 40>>, <<104, 40>>}
CrowdedPoints == {<<24, 40>>, <<40, 40>>, <<56, 40>>, <<40, 24>>, <<40, 56>>}
=============================================================================
