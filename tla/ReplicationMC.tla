---------------------------- MODULE ReplicationMC -----------------------------
(***************************************************************************)
(* Small instances of the replication for TLC.                             *)
(***************************************************************************)
EXTENDS Replication, TLC

CONSTANTS w, x, y, z

\* Hashes between the nodes 1, 3, 5 and below all of them.  With these three
\* nodes up, x belongs to another node, y and z to their origins, z across the
\* wrap; w is created later.
MCHash == (w :> 2) @@ (x :> 4) @@ (y :> 4) @@ (z :> 0)
MCLocal == (1 :> {x}) @@ (3 :> {y}) @@ (5 :> {z}) @@ (7 :> {})
MCChangeable == {<<1, w>>, <<3, y>>}
===============================================================================
