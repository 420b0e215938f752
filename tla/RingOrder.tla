------------------------------ MODULE RingOrder ------------------------------
(***************************************************************************)
(* The order of the ring of nodes: node ids are numbers (the 15-bit hash   *)
(* of the node's name), every node's next is the registered node with the  *)
(* next higher id and the highest one's next is the lowest.                *)
(*                                                                         *)
(* The first half translates the lookups of the name server's TreeMap      *)
(* (NameServer.java), the second half the case analysis by which a node    *)
(* that hears a new node's broadcast decides which of its two pointers to  *)
(* move (N2NListener.discoveryHandler).  IsNext and IsPrev are the         *)
(* reference definitions that both are checked and proved against.         *)
(***************************************************************************)
EXTENDS Integers

Above(S, i) == {j \in S : j > i}
Below(S, i) == {j \in S : j < i}
Least(S)    == CHOOSE j \in S : \A k \in S : j <= k
Greatest(S) == CHOOSE j \in S : \A k \in S : k <= j

(***************************************************************************)
(* getNextNode / getPrevNode: -1 when no node is registered.  The id asked *)
(* for need not be registered (a file's hash, a node just deleted).        *)
(***************************************************************************)
NoNode == -1

\* Bug in getNextNode: no wrap to firstKey.
GetNextNodeUnwrapped(S, i) == IF Above(S, i) = {} THEN NoNode ELSE Least(Above(S, i))

GetNextNode(S, i) ==
    IF S = {} THEN NoNode
    ELSE IF Above(S, i) # {} THEN Least(Above(S, i)) ELSE Least(S)

GetPrevNode(S, i) ==
    IF S = {} THEN NoNode
    ELSE IF Below(S, i) # {} THEN Greatest(Below(S, i)) ELSE Greatest(S)

(***************************************************************************)
(* The reference: going up from i (wrapping around after the highest id)   *)
(* no member of S is met strictly between i and n.                         *)
(***************************************************************************)
StrictlyBetween(i, k, n) ==
    IF i < n THEN i < k /\ k < n ELSE i < k \/ k < n

IsNext(S, i, n) == n \in S /\ \A k \in S : k # i => ~ StrictlyBetween(i, k, n)
IsPrev(S, i, p) == p \in S /\ \A k \in S : k # i => ~ StrictlyBetween(p, k, i)

\* Bug in discoveryHandler: the lowest node misses a new highest one.
DiscoveryMovesUnwrapped(i, prev, next, m) ==
    IF i = prev /\ i = next THEN {"next", "prev"}
    ELSE (IF (m > i /\ (next < i \/ m < next)) \/ (m < next /\ next < i) THEN {"next"} ELSE {})
           \union (IF m < i /\ (prev > i \/ m > prev) THEN {"prev"} ELSE {})

(***************************************************************************)
(* discoveryHandler: which pointers node i, with pointers prev and next,   *)
(* moves to the new node m.  The cases are tried in the order of the code. *)
(***************************************************************************)
DiscoveryMoves(i, prev, next, m) ==
    CASE i = prev /\ i = next -> {"next", "prev"}
      [] ~(i = prev /\ i = next) /\ prev = next /\ next > i ->
             IF m > i /\ m < next THEN {"next"} ELSE {"prev"}
      [] ~(i = prev /\ i = next) /\ prev = next /\ ~(next > i) ->
             IF m < i /\ m > next THEN {"prev"} ELSE {"next"}
      [] prev # next ->
             IF \/ m > i /\ next < i
                \/ m < next /\ next < i
             THEN {"next"}
             ELSE IF \/ m < i /\ prev > i
                     \/ m > prev /\ prev > i
             THEN {"prev"}
             ELSE IF m > i /\ next > m THEN {"next"}
             ELSE IF m < i /\ prev < m THEN {"prev"}
             ELSE {}

NextOnDiscovery(i, prev, next, m) ==
    IF "next" \in DiscoveryMoves(i, prev, next, m) THEN m ELSE next

PrevOnDiscovery(i, prev, next, m) ==
    IF "prev" \in DiscoveryMoves(i, prev, next, m) THEN m ELSE prev
==============================================================================
