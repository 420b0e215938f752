---------------------------- MODULE NameServerMC ------------------------------
(***************************************************************************)
(* Small instances of the name server for TLC.                             *)
(***************************************************************************)
EXTENDS NameServerDirectory, TLC

CONSTANTS ip1, ip2

WorkersAlike == Permutations(Worker)

ARequest(o, i, a) == [op |-> o, id |-> i, addr |-> a]

MCNodeId == {1, 2, 3}

\* Nodes 1 and 2 are registered at the start.
MCInitMap == [i \in MCNodeId |-> IF i = 3 THEN NoAddr ELSE ip1]

\* Readers, leaves and failure reports about 1 and 2; node 3 joins.
LiveRequests ==
    {ARequest("get", 2, ip1), ARequest("file", 0, ip1), ARequest("scan", 0, ip1),
     ARequest("delete", 2, ip1), ARequest("fail", 1, ip1)}

\* With the handlers that leave a lock behind, and reports about the joining node.
AllRequests ==
    {ARequest("get", 3, ip1), ARequest("file", 0, ip1), ARequest("scan", 0, ip1),
     ARequest("delete", 2, ip1), ARequest("fail", 3, ip1), ARequest("put", 2, ip2),
     ARequest("post", 3, ip2)}

\* POST of a new node (test/Setup.http), PUT of a new node (run()).
PostRequests == {ARequest("post", 3, ip1), ARequest("get", 1, ip1)}
PutRequests  == {ARequest("put", 3, ip1)}

\* A neighbour reports node 3, which has been restarted and is joining again.
RaceRequests == {ARequest("fail", 3, ip1)}

\* A neighbour reports node 2, which is dead, while node 3 joins.
ReportRequests == {ARequest("fail", 2, ip1)}

\* Node 1 leaves while node 3 joins.
StallRequests == {ARequest("delete", 1, ip1)}

NoArrivals == {}
CoreArrivals == {ARequest("discover", 3, ip1)}
===============================================================================
