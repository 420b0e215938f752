----------------------------- MODULE SyncAgentMC ------------------------------
(***************************************************************************)
(* Small instances of the sync agents for TLC.                             *)
(***************************************************************************)
EXTENDS SyncAgent, TLC

CONSTANTS a, b, c

\* Two nodes have a local file of the same name; each locks "its" file as
\* launchNode does.  Node 1's folder may also be empty.
MCFolders  == (1 :> {{a}, {}}) @@ (2 :> {{b}}) @@ (3 :> {{a}})
MCLockable == {<<1, a>>, <<2, b>>, <<3, a>>}

\* The file of node 2 is deleted; one turns up at node 3, and is deleted there
\* listed or not.
MCAdditions == {<<3, c>>}
MCDeletable == {<<2, b>>, <<3, c>>}

\* Locks only.
SameFolders  == [n \in {1, 2, 3} |-> {{a}}]
SameLockable == {<<1, a>>, <<3, a>>}

Nothing == {}
===============================================================================
