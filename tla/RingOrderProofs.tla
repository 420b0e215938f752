--------------------------- MODULE RingOrderProofs ---------------------------
(***************************************************************************)
(* What the operators of RingOrder do, for every set of ids: the TreeMap   *)
(* lookups return the neighbours of the reference definition, and the case *)
(* analysis of discoveryHandler moves exactly the pointers that a new node *)
(* changes.                                                                *)
(***************************************************************************)
EXTENDS RingOrder, WellFoundedInduction, TLAPS

(***************************************************************************)
(* firstKey() of a map that is not empty exists and is a smallest key.     *)
(***************************************************************************)
LEMMA LeastExists ==
    ASSUME NEW S, S \subseteq Nat, S # {}
    PROVE  Least(S) \in S /\ \A k \in S : Least(S) <= k
<1>1. PICK x \in S : \A y \in S : ~ (<<y, x>> \in OpToRel(<, Nat))
  BY NatLessThanWellFounded, WFMin
<1>2. \A y \in S : x <= y
  <2> TAKE y \in S
  <2>1. <<y, x>> \notin OpToRel(<, Nat)
    BY <1>1
  <2>2. ~ (y < x)
    BY <2>1 DEF OpToRel
  <2> QED BY <2>2
<1> QED BY <1>2 DEF Least

(***************************************************************************)
(* lastKey() likewise; the ids are bounded, they are 15-bit hashes.        *)
(***************************************************************************)
LEMMA GreatestExists ==
    ASSUME NEW M \in Nat, NEW S, S \subseteq 0 .. M, S # {}
    PROVE  Greatest(S) \in S /\ \A k \in S : k <= Greatest(S)
<1> DEFINE T == {M - k : k \in S}
<1>1. T \subseteq Nat /\ T # {}
  <2>1. \A k \in S : M - k \in Nat
    OBVIOUS
  <2> QED BY <2>1
<1>2. Least(T) \in T /\ \A t \in T : Least(T) <= t
  <2> HIDE DEF T
  <2> QED BY <1>1, LeastExists
<1>3. PICK x \in S : Least(T) = M - x
  BY <1>2
<1>4. \A k \in S : k <= x
  <2> TAKE k \in S
  <2>1. M - x <= M - k
    BY <1>2, <1>3
  <2> QED BY <2>1
<1> QED BY <1>4 DEF Greatest

(***************************************************************************)
(* getNextNode returns the reference successor, registered id or not.      *)
(***************************************************************************)
LEMMA GetNextNodeIsNext ==
    ASSUME NEW S, S \subseteq Nat, S # {}, NEW i \in Nat
    PROVE  IsNext(S, i, GetNextNode(S, i))
<1>1. CASE Above(S, i) # {}
  <2>1. Above(S, i) \subseteq Nat
    BY DEF Above
  <2>2. /\ Least(Above(S, i)) \in Above(S, i)
        /\ \A k \in Above(S, i) : Least(Above(S, i)) <= k
    BY <1>1, <2>1, LeastExists
  <2>3. GetNextNode(S, i) = Least(Above(S, i))
    BY <1>1 DEF GetNextNode
  <2>4. PICK n \in S : n = GetNextNode(S, i) /\ n > i /\ \A k \in S : k > i => n <= k
    BY <2>2, <2>3 DEF Above
  <2> QED BY <2>4 DEF IsNext, StrictlyBetween
<1>2. CASE Above(S, i) = {}
  <2>1. Least(S) \in S /\ \A k \in S : Least(S) <= k
    BY LeastExists
  <2>2. GetNextNode(S, i) = Least(S)
    BY <1>2 DEF GetNextNode
  <2>3. \A k \in S : k <= i
    BY <1>2 DEF Above
  <2>4. PICK n \in S : n = GetNextNode(S, i) /\ \A k \in S : n <= k
    BY <2>1, <2>2
  <2> QED BY <2>3, <2>4 DEF IsNext, StrictlyBetween
<1> QED BY <1>1, <1>2

(***************************************************************************)
(* getPrevNode returns the reference predecessor, registered id or not.    *)
(***************************************************************************)
LEMMA GetPrevNodeIsPrev ==
    ASSUME NEW M \in Nat, NEW S, S \subseteq 0 .. M, S # {}, NEW i \in Nat
    PROVE  IsPrev(S, i, GetPrevNode(S, i))
<1>1. CASE Below(S, i) # {}
  <2>1. Below(S, i) \subseteq 0 .. M
    BY DEF Below
  <2>2. /\ Greatest(Below(S, i)) \in Below(S, i)
        /\ \A k \in Below(S, i) : k <= Greatest(Below(S, i))
    BY <1>1, <2>1, GreatestExists
  <2>3. GetPrevNode(S, i) = Greatest(Below(S, i))
    BY <1>1 DEF GetPrevNode
  <2>4. PICK n \in S : n = GetPrevNode(S, i) /\ n < i /\ \A k \in S : k < i => k <= n
    BY <2>2, <2>3 DEF Below
  <2> QED BY <2>4 DEF IsPrev, StrictlyBetween
<1>2. CASE Below(S, i) = {}
  <2>1. Greatest(S) \in S /\ \A k \in S : k <= Greatest(S)
    BY GreatestExists
  <2>2. GetPrevNode(S, i) = Greatest(S)
    BY <1>2 DEF GetPrevNode
  <2>3. \A k \in S : i <= k
    BY <1>2 DEF Below
  <2>4. PICK n \in S : n = GetPrevNode(S, i) /\ \A k \in S : k <= n
    BY <2>1, <2>2
  <2> QED BY <2>3, <2>4 DEF IsPrev, StrictlyBetween
<1> QED BY <1>1, <1>2

-------------------------------------------------------------------------------
(***************************************************************************)
(* The lookups return an id or NoNode, whatever id is asked for.           *)
(***************************************************************************)
LEMMA LookupsInInt ==
    ASSUME NEW M \in Nat, NEW S, S \subseteq 0 .. M, NEW i \in Int
    PROVE  GetNextNode(S, i) \in Int /\ GetPrevNode(S, i) \in Int
<1>1. CASE S = {}
  BY <1>1 DEF GetNextNode, GetPrevNode, NoNode
<1>2. CASE S # {}
  <2>1. S \subseteq Nat /\ \A x \in S : x \in Int
    OBVIOUS
  <2>2. Above(S, i) \subseteq Nat
    BY <2>1 DEF Above
  <2>3. Below(S, i) \subseteq 0 .. M
    BY DEF Below
  <2>4. Least(S) \in Int
    <3>1. Least(S) \in S
      BY <1>2, <2>1, LeastExists
    <3>2. \A x \in S : x \in Int
      BY <2>1
    <3> QED BY <3>1, <3>2, Zenon
  <2>7. Greatest(S) \in Int
    <3>1. Greatest(S) \in S
      BY <1>2, GreatestExists
    <3>2. \A x \in S : x \in Int
      BY <2>1
    <3> QED BY <3>1, <3>2, Zenon
  <2>5. Above(S, i) # {} => Least(Above(S, i)) \in Above(S, i)
    BY <2>2, LeastExists
  <2>6. Below(S, i) # {} => Greatest(Below(S, i)) \in Below(S, i)
    BY <2>3, GreatestExists
  <2>8. Above(S, i) # {} => Least(Above(S, i)) \in Int
    BY <2>2, <2>5
  <2>9. Below(S, i) # {} => Greatest(Below(S, i)) \in Int
    BY <2>3, <2>6
  <2> QED BY <1>2, <2>4, <2>7, <2>8, <2>9 DEF GetNextNode, GetPrevNode
<1> QED BY <1>1, <1>2

(***************************************************************************)
(* The two reference relations are converses on the members of a ring, and *)
(* each has at most one value.                                             *)
(***************************************************************************)
LEMMA NextPrevConverse ==
    ASSUME NEW S, S \subseteq Nat, NEW i \in S, NEW j \in S
    PROVE  IsNext(S, i, j) <=> IsPrev(S, j, i)
BY DEF IsNext, IsPrev, StrictlyBetween

(***************************************************************************)
(* A member has one successor.                                             *)
(***************************************************************************)
LEMMA NextUnique ==
    ASSUME NEW S, S \subseteq Nat, NEW i \in S, NEW n, NEW k,
           IsNext(S, i, n), IsNext(S, i, k)
    PROVE  n = k
BY DEF IsNext, StrictlyBetween

LEMMA PrevUnique ==
    ASSUME NEW S, S \subseteq Nat, NEW i \in S, NEW n, NEW k,
           IsPrev(S, i, n), IsPrev(S, i, k)
    PROVE  n = k
BY DEF IsPrev, StrictlyBetween

(***************************************************************************)
(* discoveryHandler: a member whose pointers are right in the old ring has *)
(* the right pointers in the ring with the new node, whichever of its      *)
(* cases applies.                                                          *)
(***************************************************************************)
LEMMA DiscoveryKeepsNext ==
    ASSUME NEW S, S \subseteq Nat, NEW i \in S, NEW m \in Nat, m \notin S,
           NEW n, NEW p, IsNext(S, i, n), IsPrev(S, i, p)
    PROVE  IsNext(S \union {m}, i, NextOnDiscovery(i, p, n, m))
<1>1. n \in S /\ p \in S /\ n \in Nat /\ p \in Nat /\ i \in Nat
  BY DEF IsNext, IsPrev
<1>2. CASE i = p /\ i = n
  BY <1>1, <1>2
     DEF IsNext, IsPrev, StrictlyBetween, NextOnDiscovery, DiscoveryMoves
<1>3. CASE ~ (i = p /\ i = n) /\ p = n /\ n > i
  BY <1>1, <1>3
     DEF IsNext, IsPrev, StrictlyBetween, NextOnDiscovery, DiscoveryMoves
<1>4. CASE ~ (i = p /\ i = n) /\ p = n /\ ~ (n > i)
  BY <1>1, <1>4
     DEF IsNext, IsPrev, StrictlyBetween, NextOnDiscovery, DiscoveryMoves
<1>5. CASE p # n
  BY <1>1, <1>5
     DEF IsNext, IsPrev, StrictlyBetween, NextOnDiscovery, DiscoveryMoves
<1> QED BY <1>2, <1>3, <1>4, <1>5

(***************************************************************************)
(* The nine cases of N2NListener.discoveryHandler leave the previous       *)
(* pointer right for the ring with the new node in it.                     *)
(***************************************************************************)
LEMMA DiscoveryKeepsPrev ==
    ASSUME NEW S, S \subseteq Nat, NEW i \in S, NEW m \in Nat, m \notin S,
           NEW n, NEW p, IsNext(S, i, n), IsPrev(S, i, p)
    PROVE  IsPrev(S \union {m}, i, PrevOnDiscovery(i, p, n, m))
<1>1. n \in S /\ p \in S /\ n \in Nat /\ p \in Nat /\ i \in Nat
  BY DEF IsNext, IsPrev
<1>2. CASE i = p /\ i = n
  BY <1>1, <1>2
     DEF IsNext, IsPrev, StrictlyBetween, PrevOnDiscovery, DiscoveryMoves
<1>3. CASE ~ (i = p /\ i = n) /\ p = n /\ n > i
  BY <1>1, <1>3
     DEF IsNext, IsPrev, StrictlyBetween, PrevOnDiscovery, DiscoveryMoves
<1>4. CASE ~ (i = p /\ i = n) /\ p = n /\ ~ (n > i)
  BY <1>1, <1>4
     DEF IsNext, IsPrev, StrictlyBetween, PrevOnDiscovery, DiscoveryMoves
<1>5. CASE p # n
  BY <1>1, <1>5
     DEF IsNext, IsPrev, StrictlyBetween, PrevOnDiscovery, DiscoveryMoves
<1> QED BY <1>2, <1>3, <1>4, <1>5

(***************************************************************************)
(* The Shutdown packets: the leaving node's own next is right for its      *)
(* previous node, its prev for its next node.                              *)
(***************************************************************************)
LEMMA ShutdownKeepsNext ==
    ASSUME NEW S, S \subseteq Nat, NEW i \in S, NEW m \in S, i # m, NEW n,
           IsNext(S, i, m), IsNext(S, m, n)
    PROVE  IsNext(S \ {m}, i, n)
BY DEF IsNext, StrictlyBetween

(***************************************************************************)
(* The predecessor of a leaving predecessor takes its place.               *)
(***************************************************************************)
LEMMA ShutdownKeepsPrev ==
    ASSUME NEW S, S \subseteq Nat, NEW i \in S, NEW m \in S, i # m, NEW p,
           IsPrev(S, i, m), IsPrev(S, m, p)
    PROVE  IsPrev(S \ {m}, i, p)
BY DEF IsPrev, StrictlyBetween
===============================================================================
