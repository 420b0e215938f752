-------------------------- MODULE AtomicRingProofs ---------------------------
(***************************************************************************)
(* One membership change at a time keeps the ring closed, for every set of *)
(* node ids.  The inductive invariant is the type invariant together with  *)
(* RingIsClosed itself; the work is in the lemmas of RingOrderProofs.      *)
(***************************************************************************)
EXTENDS AtomicRing, RingOrderProofs

(***************************************************************************)
(* The ids are numbers that can be compared.                               *)
(***************************************************************************)
LEMMA IdsAreNaturals == NodeId \subseteq Nat /\ MaxId \in Nat
BY NodeIdAssumption

(***************************************************************************)
(* The reference neighbours of a member are members.                       *)
(***************************************************************************)
LEMMA NeighboursAreMembers ==
    ASSUME TypeOK, RingIsClosed, NEW i \in members
    PROVE  next[i] \in members /\ prev[i] \in members
BY DEF RingIsClosed, IsNext, IsPrev

(***************************************************************************)
(* A join, a leave and a failure each keep the ring closed.                *)
(***************************************************************************)
LEMMA JoinKeepsRing ==
    ASSUME TypeOK, RingIsClosed, NEW m \in NodeId, Join(m)
    PROVE  RingIsClosed'
<1>1. members' = members \union {m} /\ m \notin members /\ members' \subseteq NodeId
  BY DEF Join, TypeOK
<1>2. members' \subseteq 0 .. MaxId /\ members' \subseteq Nat /\ members' # {} /\ m \in Nat
  BY <1>1, NodeIdAssumption, IdsAreNaturals
<1> SUFFICES ASSUME NEW i \in members'
             PROVE  IsNext(members', i, next'[i]) /\ IsPrev(members', i, prev'[i])
  BY DEF RingIsClosed
<1>3. CASE i = m
  <2>1. next'[i] = GetNextNode(members', m) /\ prev'[i] = GetPrevNode(members', m)
    BY <1>3 DEF Join
  <2>2. IsNext(members', m, GetNextNode(members', m))
    BY <1>2, GetNextNodeIsNext
  <2>3. IsPrev(members', m, GetPrevNode(members', m))
    BY <1>2, IdsAreNaturals, GetPrevNodeIsPrev
  <2> QED BY <1>3, <2>1, <2>2, <2>3
<1>4. CASE i # m
  <2>1. i \in members /\ i \in NodeId /\ members \subseteq Nat
    BY <1>1, <1>2, <1>4 DEF TypeOK
  <2>2. /\ next'[i] = NextOnDiscovery(i, prev[i], next[i], m)
        /\ prev'[i] = PrevOnDiscovery(i, prev[i], next[i], m)
    BY <1>4, <2>1 DEF Join
  <2>3. IsNext(members, i, next[i]) /\ IsPrev(members, i, prev[i])
    BY <2>1 DEF RingIsClosed
  <2>4. IsNext(members \union {m}, i, NextOnDiscovery(i, prev[i], next[i], m))
    BY <1>1, <1>2, <2>1, <2>3, DiscoveryKeepsNext
  <2>5. IsPrev(members \union {m}, i, PrevOnDiscovery(i, prev[i], next[i], m))
    BY <1>1, <1>2, <2>1, <2>3, DiscoveryKeepsPrev
  <2> QED BY <1>1, <2>2, <2>4, <2>5
<1> QED BY <1>3, <1>4

(***************************************************************************)
(* A member with the leaving node for its next is the leaving node's prev, *)
(* and the other way round: that is why the two packets reach all the      *)
(* pointers that have to move.                                             *)
(***************************************************************************)
LEMMA LeaverHasTwoNeighbours ==
    ASSUME TypeOK, RingIsClosed, NEW m \in members, NEW i \in members
    PROVE  (next[i] = m <=> i = prev[m]) /\ (prev[i] = m <=> i = next[m])
<1>1. members \subseteq Nat /\ next[m] \in members /\ prev[m] \in members
  BY IdsAreNaturals, NeighboursAreMembers DEF TypeOK
<1>2. /\ IsNext(members, i, next[i]) /\ IsPrev(members, i, prev[i])
      /\ IsNext(members, m, next[m]) /\ IsPrev(members, m, prev[m])
  BY DEF RingIsClosed
<1>3. ASSUME next[i] = m PROVE i = prev[m]
  <2>1. IsPrev(members, m, i)
    BY <1>1, <1>2, <1>3, NextPrevConverse
  <2> QED BY <1>1, <1>2, <2>1, PrevUnique
<1>4. ASSUME i = prev[m] PROVE next[i] = m
  <2>1. IsNext(members, i, m)
    BY <1>1, <1>2, <1>4, NextPrevConverse
  <2> QED BY <1>1, <1>2, <2>1, NextUnique
<1>5. ASSUME prev[i] = m PROVE i = next[m]
  <2>1. IsNext(members, m, i)
    BY <1>1, <1>2, <1>5, NextPrevConverse
  <2> QED BY <1>1, <1>2, <2>1, NextUnique
<1>6. ASSUME i = next[m] PROVE prev[i] = m
  <2>1. IsPrev(members, i, m)
    BY <1>1, <1>2, <1>6, NextPrevConverse
  <2> QED BY <1>1, <1>2, <2>1, PrevUnique
<1> QED BY <1>3, <1>4, <1>5, <1>6

(***************************************************************************)
(* A node that leaves hands each neighbour the other one (Node.java        *)
(* shutdown): the ring stays closed.                                       *)
(***************************************************************************)
LEMMA LeaveKeepsRing ==
    ASSUME TypeOK, RingIsClosed, NEW m \in NodeId, Leave(m)
    PROVE  RingIsClosed'
<1>1. m \in members /\ members' = members \ {m} /\ members \subseteq Nat
  BY IdsAreNaturals DEF Leave, TypeOK
<1> SUFFICES ASSUME NEW i \in members'
             PROVE  IsNext(members', i, next'[i]) /\ IsPrev(members', i, prev'[i])
  BY DEF RingIsClosed
<1>2. i \in members /\ i # m /\ i \in NodeId
  BY <1>1 DEF TypeOK
<1>3. /\ IsNext(members, i, next[i]) /\ IsPrev(members, i, prev[i])
      /\ IsNext(members, m, next[m]) /\ IsPrev(members, m, prev[m])
  BY <1>1, <1>2 DEF RingIsClosed
<1>4. IsNext(members', i, next'[i])
  <2>1. CASE i = prev[m]
    <3>1. next'[i] = next[m] /\ next[i] = m
      BY <1>1, <1>2, <2>1, LeaverHasTwoNeighbours DEF Leave
    <3> QED BY <1>1, <1>2, <1>3, <3>1, ShutdownKeepsNext
  <2>2. CASE i # prev[m]
    <3>1. next'[i] = next[i] /\ next[i] # m
      BY <1>1, <1>2, <2>2, LeaverHasTwoNeighbours DEF Leave
    <3> QED BY <1>1, <1>3, <3>1 DEF IsNext
  <2> QED BY <2>1, <2>2
<1>5. IsPrev(members', i, prev'[i])
  <2>1. CASE i = next[m]
    <3>1. prev'[i] = prev[m] /\ prev[i] = m
      BY <1>1, <1>2, <2>1, LeaverHasTwoNeighbours DEF Leave
    <3> QED BY <1>1, <1>2, <1>3, <3>1, ShutdownKeepsPrev
  <2>2. CASE i # next[m]
    <3>1. prev'[i] = prev[i] /\ prev[i] # m
      BY <1>1, <1>2, <2>2, LeaverHasTwoNeighbours DEF Leave
    <3> QED BY <1>1, <1>3, <3>1 DEF IsPrev
  <2> QED BY <2>1, <2>2
<1> QED BY <1>4, <1>5

(***************************************************************************)
(* The neighbours of a failed node ask the name server again               *)
(* (N2NListener.failureHandler): the ring stays closed.                    *)
(***************************************************************************)
LEMMA FailKeepsRing ==
    ASSUME TypeOK, RingIsClosed, NEW m \in NodeId, Fail(m)
    PROVE  RingIsClosed'
<1>1. m \in members /\ members' = members \ {m} /\ members' \subseteq 0 .. MaxId
  BY NodeIdAssumption DEF Fail, TypeOK
<1> SUFFICES ASSUME NEW i \in members'
             PROVE  IsNext(members', i, next'[i]) /\ IsPrev(members', i, prev'[i])
  BY DEF RingIsClosed
<1>2. i \in members /\ i # m /\ i \in NodeId /\ i \in Nat
  BY <1>1, IdsAreNaturals DEF TypeOK
<1>3. IsNext(members, i, next[i]) /\ IsPrev(members, i, prev[i])
  BY <1>2 DEF RingIsClosed
<1>4. CASE next[i] = m \/ prev[i] = m
  <2>1. next'[i] = GetNextNode(members', i) /\ prev'[i] = GetPrevNode(members', i)
    BY <1>2, <1>4 DEF Fail
  <2>2. members' \subseteq Nat /\ members' # {}
    BY <1>1, IdsAreNaturals
  <2>3. IsNext(members', i, GetNextNode(members', i))
    BY <1>2, <2>2, GetNextNodeIsNext
  <2>4. IsPrev(members', i, GetPrevNode(members', i))
    BY <1>1, <1>2, <2>2, IdsAreNaturals, GetPrevNodeIsPrev
  <2> QED BY <2>1, <2>3, <2>4
<1>5. CASE ~ (next[i] = m \/ prev[i] = m)
  <2>1. next'[i] = next[i] /\ prev'[i] = prev[i]
    BY <1>2, <1>5 DEF Fail
  <2> QED BY <1>1, <1>3, <1>5, <2>1 DEF IsNext, IsPrev
<1> QED BY <1>4, <1>5

-------------------------------------------------------------------------------
(***************************************************************************)
(* The invariant that is inductive: the types alone are not, because the   *)
(* pointers of a member are ids only as long as the ring is closed.        *)
(***************************************************************************)
Inv == TypeOK /\ RingIsClosed

(***************************************************************************)
(* A closed ring with the pointer functions of the three actions is typed. *)
(***************************************************************************)
LEMMA NextTyped ==
    ASSUME Inv, Next, RingIsClosed'
    PROVE  TypeOK'
<1> PICK m \in NodeId : Join(m) \/ Leave(m) \/ Fail(m)
  BY DEF Next
<1>1. members' \subseteq NodeId
  BY DEF Inv, TypeOK, Join, Leave, Fail
<1>2. \A i \in members' : next'[i] \in NodeId /\ prev'[i] \in NodeId
  BY <1>1 DEF RingIsClosed, IsNext, IsPrev
<1>3. next' = [i \in NodeId |-> next'[i]] /\ prev' = [i \in NodeId |-> prev'[i]]
  BY DEF Join, Leave, Fail
<1>4. \A i \in NodeId \ members' : next'[i] \in NodeId /\ prev'[i] \in NodeId
  BY DEF Join, Leave, Fail, Inv, TypeOK
<1> QED BY <1>1, <1>2, <1>3, <1>4 DEF TypeOK

(***************************************************************************)
(* The induction: Init, the three actions and stuttering.                  *)
(***************************************************************************)
LEMMA Invariance == Spec => []Inv
<1>1. Init => Inv
  BY DEF Init, Inv, TypeOK, RingIsClosed
<1>2. Inv /\ [Next]_vars => Inv'
  <2> SUFFICES ASSUME Inv, [Next]_vars PROVE Inv'
    OBVIOUS
  <2>1. CASE Next
    <3>1. RingIsClosed'
      BY <2>1, JoinKeepsRing, LeaveKeepsRing, FailKeepsRing DEF Inv, Next
    <3> QED BY <2>1, <3>1, NextTyped DEF Inv
  <2>2. CASE UNCHANGED vars
    BY <2>2 DEF vars, Inv, TypeOK, RingIsClosed
  <2> QED BY <2>1, <2>2
<1> QED BY <1>1, <1>2, PTL DEF Spec

(***************************************************************************)
(* The two directions of a closed ring agree, so a Shutdown packet sent to *)
(* a node's own neighbours reaches the nodes that point back at it.        *)
(***************************************************************************)
LEMMA ClosedRingAgrees ==
    ASSUME Inv
    PROVE  NeighboursAgree
<1> SUFFICES ASSUME NEW i \in members
             PROVE  prev[next[i]] = i /\ next[prev[i]] = i
  BY DEF NeighboursAgree
<1>1. next[i] \in members /\ prev[i] \in members
  BY NeighboursAreMembers DEF Inv
<1>2. prev[next[i]] = i
  BY <1>1, LeaverHasTwoNeighbours DEF Inv
<1>3. next[prev[i]] = i
  BY <1>1, LeaverHasTwoNeighbours DEF Inv
<1> QED BY <1>2, <1>3

(***************************************************************************)
(* In every reachable state the members are nodes and every pointer has    *)
(* the name of a node.                                                     *)
(***************************************************************************)
THEOREM TypeCorrect == Spec => []TypeOK
<1>1. Inv => TypeOK
  BY DEF Inv
<1> QED BY <1>1, Invariance, PTL

(***************************************************************************)
(* The ring is closed in every reachable state: after any sequence of      *)
(* joins, leaves and failures, each carried out before the next, every     *)
(* member's pointers lead to its neighbours among all the members.         *)
(***************************************************************************)
THEOREM RingStaysClosed == Spec => []RingIsClosed
<1>1. Inv => RingIsClosed
  BY DEF Inv
<1> QED BY <1>1, Invariance, PTL

(***************************************************************************)
(* In every reachable state my next node's previous node is me and my      *)
(* previous node's next node is me.                                        *)
(***************************************************************************)
THEOREM NeighboursStayConsistent == Spec => []NeighboursAgree
<1>1. Inv => NeighboursAgree
  BY ClosedRingAgrees
<1> QED BY <1>1, Invariance, PTL
===============================================================================
