------------------------------ MODULE AtomicRing ------------------------------
(***************************************************************************)
(* The ring as it is when one membership change is carried out completely  *)
(* before the next one starts: a join (N2NListener.discoveryHandler at     *)
(* every member, the name server's offer at the new node), a voluntary     *)
(* leave (Node.shutdown and N2NListener.shutdownHandler at the neighbours) *)
(* or a reported failure (NameServerController.failNode and                *)
(* N2NListener.failureHandler at the neighbours).                          *)
(*                                                                         *)
(* This is what the three handlers promise together; module Ring says what *)
(* becomes of the promise when their packets are delayed, lost or          *)
(* overtaken by other changes.                                             *)
(***************************************************************************)
EXTENDS RingOrder

CONSTANTS
    MaxId,               \* the largest value Hashing.hash returns (32767)
    NodeId               \* the hashes of the names of the nodes there are

ASSUME NodeIdAssumption == MaxId \in Nat /\ NodeId \subseteq 0 .. MaxId

VARIABLES
    members,             \* the nodes in the ring = the name server's map
    next,                \* nextNodeId of each node
    prev                 \* prevNodeId of each node

vars == <<members, next, prev>>

TypeOK ==
    /\ members \subseteq NodeId
    /\ next \in [NodeId -> NodeId]
    /\ prev \in [NodeId -> NodeId]

(***************************************************************************)
(* A node outside the ring has no pointers in the code; here it points to  *)
(* itself, which nothing reads.                                            *)
(***************************************************************************)
Init ==
    /\ members = {}
    /\ next = [i \in NodeId |-> i]
    /\ prev = [i \in NodeId |-> i]

(***************************************************************************)
(* The offer: the name server has registered m and looks its neighbours up *)
(* in the new map; the members run discoveryHandler.                       *)
(***************************************************************************)
Join(m) ==
    /\ m \notin members
    /\ members' = members \union {m}
    /\ next' = [i \in NodeId |->
                   IF i = m THEN GetNextNode(members', m)
                   ELSE IF i \in members THEN NextOnDiscovery(i, prev[i], next[i], m)
                   ELSE i]
    /\ prev' = [i \in NodeId |->
                   IF i = m THEN GetPrevNode(members', m)
                   ELSE IF i \in members THEN PrevOnDiscovery(i, prev[i], next[i], m)
                   ELSE i]

\* Bug in shutdown: only the previous node is told.
LeaveHalf(m) ==
    /\ m \in members
    /\ members' = members \ {m}
    /\ next' = [i \in NodeId |-> IF i = m THEN i
                                 ELSE IF i = prev[m] THEN next[m] ELSE next[i]]
    /\ prev' = [prev EXCEPT ![m] = m]

(***************************************************************************)
(* The Shutdown packets carry m's own pointers: its previous node takes    *)
(* over m's next, its next node takes over m's prev.                       *)
(***************************************************************************)
Leave(m) ==
    /\ m \in members
    /\ members' = members \ {m}
    /\ next' = [i \in NodeId |-> IF i = m THEN i
                                 ELSE IF i = prev[m] THEN next[m] ELSE next[i]]
    /\ prev' = [i \in NodeId |-> IF i = m THEN i
                                 ELSE IF i = next[m] THEN prev[m] ELSE prev[i]]

(***************************************************************************)
(* A failure: the nodes that have m for a neighbour ask the name server    *)
(* for both their pointers.                                                *)
(***************************************************************************)
Fail(m) ==
    LET asks(i) == i \in members' /\ (next[i] = m \/ prev[i] = m)
    IN  /\ m \in members
        /\ members' = members \ {m}
        /\ next' = [i \in NodeId |-> IF i = m THEN i
                       ELSE IF asks(i) THEN GetNextNode(members', i) ELSE next[i]]
        /\ prev' = [i \in NodeId |-> IF i = m THEN i
                       ELSE IF asks(i) THEN GetPrevNode(members', i) ELSE prev[i]]

Next == \E m \in NodeId : Join(m) \/ Leave(m) \/ Fail(m)

Spec == Init /\ [][Next]_vars

-------------------------------------------------------------------------------
(***************************************************************************)
(* Every member's pointers lead to its neighbours among all the members:   *)
(* what the case analysis of discoveryHandler, the contents of the         *)
(* Shutdown packets and the name server's lookups establish together.  It  *)
(* is stated against IsNext / IsPrev, not against the lookups themselves.  *)
(***************************************************************************)
RingIsClosed ==
    \A i \in members : /\ IsNext(members, i, next[i])
                       /\ IsPrev(members, i, prev[i])

(***************************************************************************)
(* The two directions of the ring agree: my next node's previous node is   *)
(* me.  A handler that moves one pointer but not its counterpart at the    *)
(* other node breaks it.                                                   *)
(***************************************************************************)
NeighboursAgree ==
    \A i \in members : prev[next[i]] = i /\ next[prev[i]] = i

===============================================================================
