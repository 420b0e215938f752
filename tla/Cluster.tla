-------------------------------- MODULE Cluster --------------------------------
(***************************************************************************)
(* The system as the browser's monitor pages see it: the name server's map *)
(* of nodes, and which processes answer.  Everything here happens behind   *)
(* the monitor's back; the modules of the pages add the requests.          *)
(*                                                                         *)
(* A node is registered before it is set up (until then its API answers    *)
(* 400 with no body), and its entry stays when it crashes until somebody   *)
(* reports it.                                                             *)
(***************************************************************************)
EXTENDS RingOrder

CONSTANTS
    MaxId,          \* the largest value Hashing.hash returns (32767)
    Node,           \* the ids of the nodes
    MaxEvents       \* bound on what happens, here and to a page

ASSUME ClusterAssumption ==
    /\ MaxId \in Nat /\ Node \subseteq 0 .. MaxId
    /\ MaxEvents \in Nat

VARIABLES
    registered,     \* the nodes in the name server's map
    up,             \* the nodes that are set up: they answer GET /node
    nsUp,           \* the name server answers
    events          \* how much has happened, for the bound

cluster == <<registered, up, nsUp, events>>

ClusterTypeOK ==
    /\ registered \subseteq Node
    /\ up \subseteq registered
    /\ nsUp \in BOOLEAN
    /\ events \in 0 .. MaxEvents

ClusterInit ==
    /\ registered \in SUBSET Node /\ up = registered
    /\ nsUp = TRUE /\ events = 0

Event  == events < MaxEvents /\ events' = events + 1
Change == Event /\ UNCHANGED nsUp

Register(n) ==
    /\ nsUp /\ n \notin registered /\ Change
    /\ registered' = registered \union {n}
    /\ UNCHANGED up

SetUp(n) ==
    /\ n \in registered \ up /\ Change
    /\ up' = up \union {n}
    /\ UNCHANGED registered

Crash(n) ==
    /\ n \in up /\ Change
    /\ up' = up \ {n}
    /\ UNCHANGED registered

Deregister(n) ==
    /\ nsUp /\ n \in registered \ up /\ Change
    /\ registered' = registered \ {n}
    /\ UNCHANGED up

Outage ==
    /\ nsUp /\ Event
    /\ nsUp' = FALSE
    /\ UNCHANGED <<registered, up>>

Repair ==
    /\ ~ nsUp /\ nsUp' = TRUE
    /\ UNCHANGED <<registered, up, events>>

ClusterNext ==
    \/ \E n \in Node : Register(n) \/ SetUp(n) \/ Crash(n) \/ Deregister(n)
    \/ Outage \/ Repair

(***************************************************************************)
(* What node n answers: whom it takes for its neighbours.  (Module Ring    *)
(* shows how far that is true.)                                            *)
(***************************************************************************)
Neighbours(n) == {GetNextNode(registered, n), GetPrevNode(registered, n)}
================================================================================
