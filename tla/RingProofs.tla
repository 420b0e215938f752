------------------------------ MODULE RingProofs ------------------------------
(***************************************************************************)
(* The types of the ring, and that it is closed whenever it is quiet and   *)
(* nobody who is up is reported, when nodes start and leave one at a time. *)
(***************************************************************************)
EXTENDS Ring, RingOrderProofs

(***************************************************************************)
(* TypeOK in its parts.  Beside the types: every field that a handler      *)
(* takes a node's id from holds one.                                       *)
(***************************************************************************)
NodesOK ==
    /\ status \in [Node -> Status]
    /\ next \in [Node -> Node] /\ prev \in [Node -> Node]
    /\ nextUn \in [Node -> 0 .. PingLimit + 1]
    /\ prevUn \in [Node -> 0 .. PingLimit + 1]
    /\ pinger \in [Node -> {"sleep", "next", "prev"}]

ServerOK == reg \subseteq Node /\ nsTask \in Node \union {NoNode}

MessageOK(m) ==
    /\ m \in Message
    /\ m.type \in {"Offer", "Denied"} => m.to \in Node
    /\ m.type = "Offer" => m.x \in Node /\ m.y \in Node
    /\ m.type \in {"ShutdownNext", "ShutdownPrev"} => m.x \in Node
    /\ m.type \in {"Discovery", "Ping", "PingAck", "PingNack"} => m.from \in Node

WireOK == \A m \in msgs : MessageOK(m)

SpentOK == spent \in [starts : 0 .. MaxStarts, leaves : 0 .. MaxLeaves,
                      crashes : 0 .. MaxCrashes, losses : 0 .. MaxLosses]

TypeInv == NodesOK /\ ServerOK /\ WireOK /\ SpentOK

LEMMA TypeInvTypes == TypeInv => TypeOK
BY DEF TypeInv, TypeOK, NodesOK, ServerOK, WireOK, SpentOK, MessageOK

-------------------------------------------------------------------------------
(***************************************************************************)
(* The operators.                                                          *)
(***************************************************************************)
LEMMA NodeFacts ==
    /\ MaxId \in Nat /\ Node \subseteq 0 .. MaxId /\ Node \subseteq Nat
    /\ NoNode \notin Node /\ NS = NoNode
BY RingAssumption DEF NoNode, NS

LEMMA Lookups ==
    ASSUME NEW S, S \subseteq Node, S # {}, NEW i \in Node
    PROVE  /\ GetNextNode(S, i) \in S /\ IsNext(S, i, GetNextNode(S, i))
           /\ GetPrevNode(S, i) \in S /\ IsPrev(S, i, GetPrevNode(S, i))
<1>1. S \subseteq Nat /\ S \subseteq 0 .. MaxId /\ MaxId \in Nat /\ i \in Nat
  BY NodeFacts
<1>2. IsNext(S, i, GetNextNode(S, i))
  BY <1>1, GetNextNodeIsNext
<1>3. IsPrev(S, i, GetPrevNode(S, i))
  BY <1>1, GetPrevNodeIsPrev
<1> QED BY <1>2, <1>3 DEF IsNext, IsPrev

LEMMA PreviousOf ==
    ASSUME ServerOK, nsTask # NoNode
    PROVE  GetPrevNode(reg, nsTask) \in Node \union {NoNode}
<1>1. CASE reg = {}
  BY <1>1 DEF GetPrevNode
<1>2. CASE reg # {}
  BY <1>2, Lookups DEF ServerOK
<1> QED BY <1>1, <1>2

LEMMA MsgFields ==
    ASSUME NEW type, NEW to, NEW from, NEW x, NEW y
    PROVE  LET m == Msg(type, to, from, x, y)
           IN  m.type = type /\ m.to = to /\ m.from = from /\ m.x = x /\ m.y = y
BY DEF Msg

LEMMA MsgTyped ==
    ASSUME NEW type \in Type, NEW to \in Node \union {NS}, NEW from \in Node \union {NS},
           NEW x \in Node \union {NoNode}, NEW y \in Node \union {NoNode},
           type \in {"Offer", "Denied"} => to \in Node,
           type = "Offer" => x \in Node /\ y \in Node,
           type \in {"ShutdownNext", "ShutdownPrev"} => x \in Node,
           type \in {"Discovery", "Ping", "PingAck", "PingNack"} => from \in Node
    PROVE  MessageOK(Msg(type, to, from, x, y))
BY DEF Msg, MessageOK, Message

LEMMA TakesTypes ==
    ASSUME WireOK, NEW m, NEW R, Takes(m, R), \A r \in R : MessageOK(r)
    PROVE  WireOK'
<1>1. \A r \in msgs' : MessageOK(r)
  BY DEF WireOK, Takes
<1> QED BY <1>1 DEF WireOK, MessageOK

LEMMA SendsTypes ==
    ASSUME WireOK, NEW R, msgs' = msgs \union R, \A r \in R : MessageOK(r)
    PROVE  WireOK'
<1>1. \A r \in msgs' : MessageOK(r)
  BY DEF WireOK
<1> QED BY <1>1 DEF WireOK, MessageOK

LEMMA StopTypes ==
    ASSUME NodesOK, NEW i \in Node, Stop(i)
    PROVE  NodesOK'
<1>1. 0 \in 0 .. PingLimit + 1 /\ "gone" \in Status
  BY RingAssumption DEF Status
<1> QED BY <1>1 DEF NodesOK, Stop

LEMMA FailNodeTypes ==
    ASSUME ServerOK, WireOK, NEW n \in Node \union {NoNode}, FailNode(n)
    PROVE  WireOK' /\ reg' \subseteq Node
<1> DEFINE left == reg \ {n}
           told == IF n \notin reg THEN Running
                   ELSE IF left = {} THEN {} ELSE {GetNextNode(left, n), GetPrevNode(left, n)}
           R    == {Msg("Failure", i, NS, n, NoNode) : i \in told}
<1>1. told \subseteq Node
  <2>1. CASE n \notin reg \/ left = {}
    BY <2>1 DEF Running
  <2>2. CASE n \in reg /\ left # {}
    <3>1. left \subseteq Node /\ n \in Node
      BY <2>2 DEF ServerOK
    <3>2. GetNextNode(left, n) \in left /\ GetPrevNode(left, n) \in left
      BY <2>2, <3>1, Lookups
    <3> QED BY <2>2, <3>1, <3>2
  <2> QED BY <2>1, <2>2
<1>2. \A r \in R : MessageOK(r)
  <2>1. ASSUME NEW i \in told PROVE MessageOK(Msg("Failure", i, NS, n, NoNode))
    BY <1>1, MsgTyped DEF Type
  <2> QED BY <2>1
<1>3. msgs' = msgs \union R /\ reg' = left
  BY DEF FailNode
<1> HIDE DEF R
<1> QED BY <1>2, <1>3, SendsTypes DEF ServerOK

LEMMA RefreshTypes ==
    ASSUME NodesOK, ServerOK, NEW i \in Node, Refresh(i)
    PROVE  next' \in [Node -> Node] /\ prev' \in [Node -> Node]
<1>1. CASE i \notin reg
  BY <1>1 DEF Refresh, NodesOK, pointers
<1>2. CASE i \in reg
  <2>1. GetNextNode(reg, i) \in Node /\ GetPrevNode(reg, i) \in Node
    BY <1>2, Lookups DEF ServerOK
  <2> QED BY <1>2, <2>1 DEF Refresh, Point, NodesOK
<1> QED BY <1>1, <1>2

LEMMA ResetTypes ==
    ASSUME NodesOK, NEW i \in Node, NEW id, ResetFor(i, id) \/ ResetBoth(i)
    PROVE  nextUn' \in [Node -> 0 .. PingLimit + 1] /\ prevUn' \in [Node -> 0 .. PingLimit + 1]
<1>1. 0 \in 0 .. PingLimit + 1
  BY RingAssumption
<1> QED BY <1>1 DEF NodesOK, ResetFor, ResetBoth

LEMMA SpentTypes ==
    ASSUME SpentOK,
           \/ spent.starts < MaxStarts /\ spent' = [spent EXCEPT !.starts = @ + 1]
           \/ spent.leaves < MaxLeaves /\ spent' = [spent EXCEPT !.leaves = @ + 1]
           \/ spent.crashes < MaxCrashes /\ spent' = [spent EXCEPT !.crashes = @ + 1]
           \/ spent.losses < MaxLosses /\ spent' = [spent EXCEPT !.losses = @ + 1]
    PROVE  SpentOK'
<1>1. MaxStarts \in Nat /\ MaxLeaves \in Nat /\ MaxCrashes \in Nat /\ MaxLosses \in Nat
  BY RingAssumption
<1> QED BY <1>1 DEF SpentOK

-------------------------------------------------------------------------------
(***************************************************************************)
(* The environment and the name server.                                    *)
(***************************************************************************)
LEMMA BroadcastTypes ==
    ASSUME NEW i \in Node
    PROVE  \A r \in Broadcast(i) : MessageOK(r)
<1>1. ASSUME NEW k \in (Running \ {i}) \union {NS} PROVE MessageOK(Signal("Discovery", k, i))
  BY MsgTyped DEF Signal, Type, Running
<1> QED BY <1>1 DEF Broadcast

LEMMA StartTypes ==
    ASSUME TypeInv, NEW i \in Node, Start(i) \/ Resend(i)
    PROVE  TypeInv'
<1>1. WireOK'
  BY BroadcastTypes, SendsTypes DEF TypeInv, Start, Resend
<1>2. CASE Start(i)
  <2>1. SpentOK'
    BY <1>2, SpentTypes DEF TypeInv, Start
  <2>2. NodesOK'
    BY <1>2 DEF TypeInv, Start, NodesOK, Status, pointers, counters
  <2> QED BY <1>1, <1>2, <2>1, <2>2 DEF TypeInv, Start, ServerOK
<1>3. CASE Resend(i)
  BY <1>1, <1>3 DEF TypeInv, Resend, NodesOK, ServerOK, SpentOK, nodeVars, pointers, counters
<1> QED BY <1>2, <1>3

LEMMA LeaveTypes ==
    ASSUME TypeInv, NEW i \in Node, Leave(i) \/ Crash(i)
    PROVE  TypeInv'
<1>1. SpentOK'
  BY SpentTypes DEF TypeInv, Leave, Crash
<1>2. CASE Leave(i)
  <2>1. NodesOK'
    BY <1>2 DEF TypeInv, Leave, NodesOK, Status, pointers, counters
  <2> QED BY <1>1, <1>2, <2>1 DEF TypeInv, Leave, ServerOK, WireOK, MessageOK
<1>3. CASE Crash(i)
  <2>1. NodesOK'
    BY <1>3, StopTypes DEF TypeInv, Crash
  <2> QED BY <1>1, <1>3, <2>1 DEF TypeInv, Crash, ServerOK, WireOK, MessageOK
<1> QED BY <1>2, <1>3

LEMMA SendShutdownTypes ==
    ASSUME TypeInv, NEW i \in Node, SendShutdown(i)
    PROVE  TypeInv'
<1>1. NodesOK'
  BY StopTypes DEF TypeInv, SendShutdown
<1>2. next[i] \in Node /\ prev[i] \in Node
  BY DEF TypeInv, NodesOK
<1>3. MessageOK(Msg("ShutdownNext", prev[i], i, next[i], NoNode))
  BY <1>2, MsgTyped DEF Type
<1>4. MessageOK(Msg("ShutdownPrev", next[i], i, prev[i], NoNode))
  BY <1>2, MsgTyped DEF Type
<1>5. WireOK'
  <2> DEFINE R == {Msg("ShutdownNext", prev[i], i, next[i], NoNode),
                   Msg("ShutdownPrev", next[i], i, prev[i], NoNode)}
  <2>1. WireOK /\ msgs' = msgs \union R /\ \A r \in R : MessageOK(r)
    BY <1>3, <1>4 DEF TypeInv, SendShutdown
  <2> HIDE DEF R
  <2> QED BY <2>1, SendsTypes
<1> QED BY <1>1, <1>5 DEF TypeInv, SendShutdown, ServerOK, SpentOK

LEMMA RegisterTypes ==
    ASSUME TypeInv, NEW m \in msgs, Register(m)
    PROVE  TypeInv'
<1>1. m.from \in Node
  BY DEF TypeInv, WireOK, MessageOK, Register
<1>2. CASE m.from \in reg
  <2>1. MessageOK(Signal("Denied", m.from, NS))
    BY <1>1, MsgTyped DEF Signal, Type
  <2>2. WireOK'
    BY <1>2, <2>1, TakesTypes DEF TypeInv, Register
  <2> QED BY <1>2, <2>2
          DEF TypeInv, Register, NodesOK, ServerOK, SpentOK, nodeVars, pointers, counters
<1>3. CASE m.from \notin reg
  <2>1. reg' = reg \union {m.from} /\ reg' \subseteq Node
    BY <1>1, <1>3 DEF TypeInv, Register, ServerOK
  <2>2. GetNextNode(reg', m.from) \in Node /\ GetPrevNode(reg', m.from) \in Node
    BY <1>1, <2>1, Lookups
  <2>3. MessageOK(Msg("Offer", m.from, NS, GetNextNode(reg', m.from), GetPrevNode(reg', m.from)))
    BY <1>1, <2>2, MsgTyped DEF Type
  <2>4. WireOK'
    BY <1>3, <2>3, TakesTypes DEF TypeInv, Register
  <2> QED BY <1>1, <1>3, <2>1, <2>4
          DEF TypeInv, Register, NodesOK, ServerOK, SpentOK, nodeVars, pointers, counters
<1> QED BY <1>2, <1>3

LEMMA TellPreviousTypes ==
    ASSUME TypeInv, TellPrevious
    PROVE  TypeInv'
<1>1. WireOK' /\ reg' \subseteq Node
  <2>1. CASE GetPrevNode(reg, nsTask) \in Running
    BY <2>1 DEF TypeInv, TellPrevious, WireOK, MessageOK, ServerOK
  <2>2. CASE GetPrevNode(reg, nsTask) \notin Running
    BY <2>2, PreviousOf, FailNodeTypes DEF TypeInv, TellPrevious
  <2> QED BY <2>1, <2>2
<1> QED BY <1>1
    DEF TypeInv, TellPrevious, NodesOK, ServerOK, SpentOK, nodeVars, pointers, counters

-------------------------------------------------------------------------------
(***************************************************************************)
(* The packets and the pings.                                              *)
(***************************************************************************)
LEMMA OfferTypes ==
    ASSUME TypeInv, NEW m \in msgs, RecvOffer(m) \/ RecvDenied(m)
    PROVE  TypeInv'
<1>1. Takes(m, {}) /\ MessageOK(m) /\ m.to \in Node
  BY DEF TypeInv, WireOK, MessageOK, RecvOffer, RecvDenied
<1>2. WireOK'
  BY <1>1, TakesTypes DEF TypeInv
<1>3. CASE RecvOffer(m)
  <2>1. m.x \in Node /\ m.y \in Node
    BY <1>1, <1>3 DEF MessageOK, RecvOffer
  <2>2. NodesOK'
    BY <1>1, <1>3, <2>1 DEF TypeInv, RecvOffer, Point, NodesOK, Status, counters
  <2> QED BY <1>2, <1>3, <2>2 DEF TypeInv, RecvOffer, ServerOK, SpentOK
<1>4. CASE RecvDenied(m)
  <2>1. NodesOK'
    BY <1>1, <1>4, StopTypes DEF TypeInv, RecvDenied
  <2> QED BY <1>2, <1>4, <2>1 DEF TypeInv, RecvDenied, ServerOK, SpentOK
<1> QED BY <1>3, <1>4

LEMMA RecvDiscoveryTypes ==
    ASSUME TypeInv, NEW m \in msgs, RecvDiscovery(m)
    PROVE  TypeInv'
<1>1. m.to \in Node /\ m.from \in Node /\ Takes(m, {})
  BY DEF TypeInv, WireOK, MessageOK, RecvDiscovery, Hears, Up
<1>2. WireOK'
  BY <1>1, TakesTypes DEF TypeInv
<1>3. next[m.to] \in Node /\ prev[m.to] \in Node
  BY <1>1 DEF TypeInv, NodesOK
<1>4. /\ NextOnDiscovery(m.to, prev[m.to], next[m.to], m.from) \in Node
      /\ PrevOnDiscovery(m.to, prev[m.to], next[m.to], m.from) \in Node
  BY <1>1, <1>3 DEF NextOnDiscovery, PrevOnDiscovery
<1>5. NodesOK'
  BY <1>1, <1>4 DEF TypeInv, RecvDiscovery, Point, NodesOK, counters
<1> QED BY <1>2, <1>5 DEF TypeInv, RecvDiscovery, ServerOK, SpentOK

LEMMA RecvShutdownTypes ==
    ASSUME TypeInv, NEW m \in msgs, RecvShutdown(m)
    PROVE  TypeInv'
<1>1. m.to \in Node /\ m.x \in Node /\ Takes(m, {})
  BY DEF TypeInv, WireOK, MessageOK, RecvShutdown, Hears, Up
<1>2. WireOK'
  BY <1>1, TakesTypes DEF TypeInv
<1>3. next' \in [Node -> Node] /\ prev' \in [Node -> Node]
  <2>1. next \in [Node -> Node] /\ prev \in [Node -> Node]
    BY DEF TypeInv, NodesOK
  <2> QED BY <1>1, <2>1 DEF RecvShutdown, Point, pointers
<1> QED BY <1>2, <1>3 DEF TypeInv, RecvShutdown, NodesOK, ServerOK, SpentOK, counters

LEMMA RecvFailureTypes ==
    ASSUME TypeInv, NEW m \in msgs, RecvFailure(m)
    PROVE  TypeInv'
<1>1. m.to \in Node /\ Takes(m, {}) /\ ResetBoth(m.to)
  BY DEF RecvFailure, Hears, Up
<1>2. WireOK'
  BY <1>1, TakesTypes DEF TypeInv
<1>3. next' \in [Node -> Node] /\ prev' \in [Node -> Node]
  <2>1. CASE Refresh(m.to)
    BY <1>1, <2>1, RefreshTypes DEF TypeInv
  <2>2. CASE UNCHANGED pointers
    BY <2>2 DEF TypeInv, NodesOK, pointers
  <2> QED BY <2>1, <2>2 DEF RecvFailure
<1>4. nextUn' \in [Node -> 0 .. PingLimit + 1] /\ prevUn' \in [Node -> 0 .. PingLimit + 1]
  BY <1>1, ResetTypes DEF TypeInv
<1> QED BY <1>2, <1>3, <1>4 DEF TypeInv, RecvFailure, NodesOK, ServerOK, SpentOK

LEMMA RecvPingTypes ==
    ASSUME TypeInv, NEW m \in msgs, RecvPing(m)
    PROVE  TypeInv'
<1>1. m.to \in Node /\ m.from \in Node
  BY DEF TypeInv, WireOK, MessageOK, RecvPing, Hears, Up
<1>2. /\ MessageOK(Signal("PingAck", m.from, m.to))
      /\ MessageOK(Signal("PingNack", m.from, m.to))
  BY <1>1, MsgTyped DEF Signal, Type
<1>3. WireOK'
  BY <1>2, TakesTypes DEF TypeInv, RecvPing
<1>4. next' \in [Node -> Node] /\ prev' \in [Node -> Node]
  <2>1. CASE Refresh(m.to)
    BY <1>1, <2>1, RefreshTypes DEF TypeInv
  <2>2. CASE UNCHANGED pointers
    BY <2>2 DEF TypeInv, NodesOK, pointers
  <2> QED BY <2>1, <2>2 DEF RecvPing
<1> QED BY <1>3, <1>4 DEF TypeInv, RecvPing, NodesOK, ServerOK, SpentOK, counters

LEMMA RecvAckTypes ==
    ASSUME TypeInv, NEW m \in msgs, RecvPingAck(m) \/ RecvPingNack(m)
    PROVE  TypeInv'
<1>1. m.to \in Node /\ Takes(m, {})
  BY DEF RecvPingAck, RecvPingNack, Hears, Up
<1>2. WireOK'
  BY <1>1, TakesTypes DEF TypeInv
<1>3. CASE RecvPingAck(m)
  <2>1. nextUn' \in [Node -> 0 .. PingLimit + 1] /\ prevUn' \in [Node -> 0 .. PingLimit + 1]
    BY <1>1, <1>3, ResetTypes DEF TypeInv, RecvPingAck
  <2> QED BY <1>2, <1>3, <2>1
          DEF TypeInv, RecvPingAck, NodesOK, ServerOK, SpentOK, pointers
<1>4. CASE RecvPingNack(m) /\ m.to \notin reg
  <2>1. NodesOK'
    BY <1>1, <1>4, StopTypes DEF TypeInv, RecvPingNack
  <2> QED BY <1>2, <1>4, <2>1 DEF TypeInv, RecvPingNack, ServerOK, SpentOK
<1>5. CASE RecvPingNack(m) /\ m.to \in reg
  <2>1. nextUn' \in [Node -> 0 .. PingLimit + 1] /\ prevUn' \in [Node -> 0 .. PingLimit + 1]
    BY <1>1, <1>5, ResetTypes DEF TypeInv, RecvPingNack
  <2>2. next' \in [Node -> Node] /\ prev' \in [Node -> Node]
    BY <1>1, <1>5, RefreshTypes DEF TypeInv, RecvPingNack
  <2> QED BY <1>2, <1>5, <2>1, <2>2 DEF TypeInv, RecvPingNack, NodesOK, ServerOK, SpentOK
<1> QED BY <1>3, <1>4, <1>5

LEMMA LoseTypes ==
    ASSUME TypeInv, NEW m \in msgs, Ignore(m) \/ Lose(m)
    PROVE  TypeInv'
<1>1. WireOK'
  BY TakesTypes DEF TypeInv, Ignore, Lose
<1>2. SpentOK'
  <2>1. CASE Ignore(m)
    BY <2>1 DEF TypeInv, Ignore, SpentOK
  <2>2. CASE Lose(m)
    BY <2>2, SpentTypes DEF TypeInv, Lose
  <2> QED BY <2>1, <2>2
<1> QED BY <1>1, <1>2
    DEF TypeInv, Ignore, Lose, NodesOK, ServerOK, nodeVars, pointers, counters

LEMMA SendPingsTypes ==
    ASSUME TypeInv, NEW i \in Node, SendPings(i)
    PROVE  TypeInv'
<1>1. next[i] \in Node /\ prev[i] \in Node
  BY DEF TypeInv, NodesOK
<1>2. \A k \in {next[i], prev[i]} : MessageOK(Signal("Ping", k, i))
  BY <1>1, MsgTyped DEF Signal, Type
<1>3. WireOK'
  <2> DEFINE R == {Signal("Ping", k, i) : k \in {next[i], prev[i]}}
  <2>1. WireOK /\ msgs' = msgs \union R /\ \A r \in R : MessageOK(r)
    BY <1>2 DEF TypeInv, SendPings
  <2> HIDE DEF R
  <2> QED BY <2>1, SendsTypes
<1>4. \A n \in 0 .. PingLimit + 1 : Bump(n) \in 0 .. PingLimit + 1
  BY RingAssumption DEF Bump
<1>5. NodesOK'
  BY <1>4 DEF TypeInv, SendPings, NodesOK, pointers
<1> QED BY <1>3, <1>5 DEF TypeInv, SendPings, ServerOK, SpentOK

LEMMA CheckTypes ==
    ASSUME TypeInv, NEW i \in Node, CheckNext(i) \/ CheckPrev(i)
    PROVE  TypeInv'
<1>1. next[i] \in Node /\ prev[i] \in Node
  BY DEF TypeInv, NodesOK
<1>2. WireOK' /\ reg' \subseteq Node
  <2>1. CASE \E n \in Node : FailNode(n)
    BY <2>1, FailNodeTypes DEF TypeInv
  <2>2. CASE UNCHANGED <<reg, msgs>>
    BY <2>2 DEF TypeInv, WireOK, MessageOK, ServerOK
  <2> QED BY <1>1, <2>1, <2>2 DEF CheckNext, CheckPrev
<1>3. NodesOK'
  BY DEF TypeInv, CheckNext, CheckPrev, NodesOK, pointers, counters
<1> QED BY <1>2, <1>3 DEF TypeInv, CheckNext, CheckPrev, ServerOK, SpentOK

LEMMA StutterTypes == TypeInv /\ UNCHANGED vars => TypeInv'
BY DEF TypeInv, NodesOK, ServerOK, WireOK, MessageOK, SpentOK, vars, nodeVars, pointers, counters

LEMMA InitTypes == Init => TypeInv
<1>1. 0 \in 0 .. PingLimit + 1 /\ 0 \in 0 .. MaxStarts /\ 0 \in 0 .. MaxLeaves
      /\ 0 \in 0 .. MaxCrashes /\ 0 \in 0 .. MaxLosses
  BY RingAssumption
<1> QED BY <1>1 DEF Init, TypeInv, NodesOK, ServerOK, WireOK, SpentOK, Status

LEMMA NextTypes == TypeInv /\ [Next]_vars => TypeInv'
<1> SUFFICES ASSUME TypeInv, [Next]_vars PROVE TypeInv'
  OBVIOUS
<1>1. CASE Environment
  BY <1>1, StartTypes, LeaveTypes DEF Environment
<1>2. ASSUME NEW m \in msgs, Deliver(m) PROVE TypeInv'
  BY <1>2, RegisterTypes, OfferTypes, RecvDiscoveryTypes, RecvShutdownTypes, RecvFailureTypes,
     RecvPingTypes, RecvAckTypes, LoseTypes DEF Deliver
<1>3. ASSUME NEW m \in msgs, Lose(m) PROVE TypeInv'
  BY <1>3, LoseTypes
<1>4. ASSUME NEW i \in Node,
             Resend(i) \/ SendShutdown(i) \/ SendPings(i) \/ CheckNext(i) \/ CheckPrev(i)
      PROVE  TypeInv'
  BY <1>4, StartTypes, SendShutdownTypes, SendPingsTypes, CheckTypes
<1> QED BY <1>1, <1>2, <1>3, <1>4, TellPreviousTypes, StutterTypes DEF Next

(***************************************************************************)
(* The types hold however changes overlap and whatever is lost: a pointer  *)
(* is always a node (no handler takes "no node" from a packet or from the  *)
(* name server's answer), and a counter stops one above the limit.         *)
(***************************************************************************)
THEOREM TypeCorrect == Spec => []TypeOK
BY InitTypes, NextTypes, TypeInvTypes, PTL DEF Spec
-------------------------------------------------------------------------------
Serial ==
    /\ {"start", "leave"} \subseteq Calm /\ Prompt
    /\ Losable \subseteq {"Ping", "PingAck"}
    /\ MaxCrashes = 0 /\ MaxLosses < PingLimit

Placed(S, i) == IsNext(S, i, next[i]) /\ IsPrev(S, i, prev[i])

\* Nobody but the nodes of E is on its way into or out of the ring.
Still(E) == \A k \in Node \ E : status[k] \notin {"joining", "leaving"}

Awaits(i, k) == Signal("Ping", k, i) \in msgs \/ Signal("PingAck", i, k) \in msgs

CountsInv ==
    \A i \in Node :
        /\ pinger[i] = "sleep"
        /\ nextUn[i] <= spent.losses \/ (Awaits(i, next[i]) /\ nextUn[i] <= spent.losses + 1)
        /\ prevUn[i] <= spent.losses \/ (Awaits(i, prev[i]) /\ prevUn[i] <= spent.losses + 1)

BetweenNeighbours(m) ==
    /\ m.type \in {"Ping", "PingAck"} /\ m = Signal(m.type, m.to, m.from)
    /\ m.to \in Up /\ m.from \in Up
    /\ m.from \in {next[m.to], prev[m.to]} /\ m.to \in {next[m.from], prev[m.from]}

Resting ==
    /\ Still({}) /\ reg = Up /\ nsTask = NoNode
    /\ \A i \in Up : Placed(Up, i)
    /\ \A m \in msgs : BetweenNeighbours(m)

Others(i) == Up \ {i}
Hello(k, i) == Signal("Discovery", k, i)

IsOffer(m, i) ==
    /\ m = Msg("Offer", i, NS, m.x, m.y)
    /\ IsNext(Others(i) \union {i}, i, m.x) /\ IsPrev(Others(i) \union {i}, i, m.y)

Asks(i) ==
    /\ status[i] = "joining" /\ reg = Others(i) /\ nsTask = NoNode
    /\ Hello(NS, i) \in msgs /\ \A m \in msgs : ~ IsOffer(m, i)

InMap(i) ==
    /\ reg = Others(i) \union {i} /\ nsTask \in {i, NoNode} /\ Hello(NS, i) \notin msgs
    /\ \/ status[i] = "joining" /\ \E m \in msgs : IsOffer(m, i)
       \/ status[i] = "up" /\ Placed(Up, i) /\ \A m \in msgs : ~ IsOffer(m, i)

Joining(i) ==
    /\ Still({i})
    /\ \A m \in msgs : IsOffer(m, i) \/ \E k \in Others(i) \union {NS} : m = Hello(k, i)
    /\ \A k \in Others(i) :
          Placed(IF Hello(k, i) \in msgs THEN Others(i) ELSE Others(i) \union {i}, k)
    /\ Asks(i) \/ InMap(i)

Leaving(i) ==
    /\ Still({i}) /\ status[i] = "leaving"
    /\ reg = Up /\ nsTask = NoNode /\ msgs = {}
    /\ \A k \in Up \union {i} : Placed(Up \union {i}, k)

Left(i, n, p) ==
    LET toPrev == Msg("ShutdownNext", p, i, n, NoNode)
        toNext == Msg("ShutdownPrev", n, i, p, NoNode)
        old    == Up \union {i}
    IN  /\ Still({}) /\ status[i] = "gone" /\ reg = Up /\ nsTask = NoNode
        /\ IsNext(old, i, n) /\ IsPrev(old, i, p)
        /\ msgs \subseteq {toPrev, toNext}
        /\ \A k \in Up :
              /\ IsNext(IF toPrev \in msgs THEN old ELSE Up, k, next[k])
              /\ IsPrev(IF toNext \in msgs THEN old ELSE Up, k, prev[k])

Phase ==
    \/ Resting
    \/ \E i \in Node : Joining(i) \/ Leaving(i) \/ \E n, p \in Node : Left(i, n, p)

RingInv == CountsInv /\ Phase

-------------------------------------------------------------------------------
LEMMA SignalFields ==
    ASSUME NEW type, NEW to, NEW from
    PROVE  LET m == Signal(type, to, from) IN m.type = type /\ m.to = to /\ m.from = from
BY DEF Signal, Msg

LEMMA UpNodes == Up \subseteq Node /\ Running \subseteq Node /\ Up \subseteq Running
BY DEF Up, Running

LEMMA QuietRests ==
    ASSUME TypeInv, Phase, Quiet
    PROVE  Resting /\ msgs = {}
<1>1. /\ msgs = {} /\ nsTask = NoNode
      /\ \A k \in Node : status[k] \notin {"joining", "leaving"}
  BY DEF Quiet
<1>2. ASSUME NEW i \in Node, Joining(i) PROVE Resting
  <2>1. InMap(i) /\ status[i] = "up" /\ Placed(Up, i)
    BY <1>1, <1>2 DEF Joining, Asks, InMap
  <2>2. Others(i) \union {i} = Up
    BY <2>1 DEF Others, Up
  <2>3. \A k \in Others(i) : Placed(Up, k)
    BY <1>1, <1>2, <2>2 DEF Joining
  <2> QED BY <1>1, <2>1, <2>2, <2>3 DEF Resting, Still, InMap, Others
<1>3. ASSUME NEW i \in Node, Leaving(i) PROVE Resting
  BY <1>1, <1>3 DEF Leaving
<1>4. ASSUME NEW i \in Node, NEW n \in Node, NEW p \in Node, Left(i, n, p) PROVE Resting
  BY <1>1, <1>4 DEF Left, Resting, Placed
<1> QED BY <1>1, <1>2, <1>3, <1>4 DEF Phase

\* In a closed ring the two pointers of neighbours lead to each other.
LEMMA Mutual ==
    ASSUME \A k \in Up : Placed(Up, k), NEW i \in Up
    PROVE  /\ next[i] \in Up /\ prev[next[i]] = i
           /\ prev[i] \in Up /\ next[prev[i]] = i
<1>1. Up \subseteq Nat
  BY NodeFacts, UpNodes
<1>2. /\ next[i] \in Up /\ prev[i] \in Up
      /\ IsNext(Up, i, next[i]) /\ IsPrev(Up, i, prev[i])
  BY DEF Placed, IsNext, IsPrev
<1>3. IsPrev(Up, next[i], i) /\ IsPrev(Up, next[i], prev[next[i]])
  BY <1>1, <1>2, NextPrevConverse DEF Placed
<1>4. IsNext(Up, prev[i], i) /\ IsNext(Up, prev[i], next[prev[i]])
  BY <1>1, <1>2, NextPrevConverse DEF Placed
<1> QED BY <1>1, <1>2, <1>3, <1>4, NextUnique, PrevUnique

-------------------------------------------------------------------------------
(***************************************************************************)
(* The counters.                                                           *)
(***************************************************************************)
LEMMA NoPings ==
    ASSUME \A m \in msgs : m.type \notin {"Ping", "PingAck"}
    PROVE  \A i, k : ~ Awaits(i, k)
BY SignalFields DEF Awaits

LEMMA Losses ==
    ASSUME SpentOK
    PROVE  spent.losses \in Nat /\ spent.losses <= MaxLosses /\ MaxLosses \in Nat
BY RingAssumption DEF SpentOK

LEMMA Counters ==
    ASSUME NodesOK, NEW i \in Node
    PROVE  nextUn[i] \in Int /\ prevUn[i] \in Int
BY DEF NodesOK

\* A step that keeps the counters, when nobody waits for an answer.
LEMMA CountsFrame ==
    ASSUME CountsInv, UNCHANGED <<counters, pinger>>, spent'.losses = spent.losses,
           \A i \in Node : ~ Awaits(i, next[i]) /\ ~ Awaits(i, prev[i])
    PROVE  CountsInv'
BY DEF CountsInv, counters
-------------------------------------------------------------------------------
(***************************************************************************)
(* In a ring at rest: a change begins, or neighbours ping each other.      *)
(***************************************************************************)
LEMMA StartJoins ==
    ASSUME Serial, TypeInv, RingInv, NEW i \in Node, Start(i)
    PROVE  RingInv'
<1>1. Quiet
  BY DEF Serial, Start, May
<1>2. Resting /\ msgs = {}
  BY <1>1, QuietRests DEF RingInv
<1>3. /\ status' = [status EXCEPT ![i] = "joining"] /\ msgs' = Broadcast(i)
      /\ UNCHANGED <<next, prev, nextUn, prevUn, pinger, reg, nsTask>>
      /\ status[i] \in {"off", "gone"} /\ spent'.losses = spent.losses
  BY <1>2 DEF Start, pointers, counters, TypeInv, SpentOK
<1>4. CountsInv'
  BY <1>2, <1>3, CountsFrame, NoPings DEF RingInv, counters
<1>5. status'[i] = "joining" /\ \A k \in Node \ {i} : status'[k] = status[k]
  BY <1>3 DEF TypeInv, NodesOK
<1>6. /\ Up' = Up /\ Others(i)' = Up /\ i \notin Up /\ Running = Up
  BY <1>2, <1>3, <1>5 DEF Up, Running, Others, Resting, Still
<1>7. msgs' = {Hello(k, i) : k \in Up \union {NS}}
  <2>1. (Running \ {i}) \union {NS} = Up \union {NS}
    BY <1>6
  <2> QED BY <1>3, <2>1 DEF Broadcast, Hello
<1>8. Hello(NS, i) \in msgs' /\ \A k \in Up : Hello(k, i) \in msgs'
  BY <1>7
<1>9. \A m \in msgs' : m.type = "Discovery"
  BY <1>7, SignalFields DEF Hello
<1>10. \A m \in msgs' : ~ IsOffer(m, i)'
  BY <1>9, MsgFields DEF IsOffer
<1>11. \A k \in Up : Placed(Up, k)'
  BY <1>2, <1>3, <1>6 DEF Placed, Resting
<1>12. Asks(i)'
  BY <1>2, <1>3, <1>5, <1>6, <1>8, <1>10 DEF Asks, Hello, Resting
<1>13. Still({i})'
  BY <1>2, <1>5 DEF Still, Resting
<1>14. Joining(i)'
  BY <1>6, <1>7, <1>8, <1>11, <1>12, <1>13 DEF Joining, Hello
<1> QED BY <1>4, <1>14 DEF RingInv, Phase

LEMMA LeaveLeaves ==
    ASSUME Serial, TypeInv, RingInv, NEW i \in Node, Leave(i)
    PROVE  RingInv'
<1>1. Quiet
  BY DEF Serial, Leave, May
<1>2. Resting /\ msgs = {}
  BY <1>1, QuietRests DEF RingInv
<1>3. /\ status' = [status EXCEPT ![i] = "leaving"] /\ reg' = reg \ {i}
      /\ UNCHANGED <<next, prev, nextUn, prevUn, pinger, msgs, nsTask>>
      /\ status[i] = "up" /\ spent'.losses = spent.losses
  BY DEF Leave, pointers, counters, TypeInv, SpentOK
<1>4. CountsInv'
  BY <1>2, <1>3, CountsFrame, NoPings DEF RingInv, counters
<1>5. status'[i] = "leaving" /\ \A k \in Node \ {i} : status'[k] = status[k]
  BY <1>3 DEF TypeInv, NodesOK
<1>6. Up' = Up \ {i} /\ Up' \union {i} = Up
  BY <1>3, <1>5 DEF Up
<1>7. \A k \in Up : Placed(Up \union {i}, k)'
  BY <1>2, <1>3, <1>6 DEF Placed, Resting
<1>8. Leaving(i)'
  BY <1>2, <1>3, <1>5, <1>6, <1>7 DEF Leaving, Still, Resting
<1> QED BY <1>4, <1>8 DEF RingInv, Phase

LEMMA PingsStay ==
    ASSUME Serial, TypeInv, RingInv, NEW i \in Node, SendPings(i)
    PROVE  RingInv'
<1>1. Quiet /\ i \in Up
  BY DEF Serial, SendPings
<1>2. Resting /\ msgs = {}
  BY <1>1, QuietRests DEF RingInv
<1>3. /\ msgs' = {Signal("Ping", k, i) : k \in {next[i], prev[i]}}
      /\ UNCHANGED <<status, next, prev, reg, nsTask, spent>>
      /\ nextUn' = [nextUn EXCEPT ![i] = Bump(nextUn[i])]
      /\ prevUn' = [prevUn EXCEPT ![i] = Bump(prevUn[i])]
  BY <1>2 DEF SendPings, pointers
<1>4. UNCHANGED <<Up, next, prev>>
  BY <1>3 DEF Up
<1>5. \A m \in msgs' : BetweenNeighbours(m)'
  <2>1. ASSUME NEW k \in {next[i], prev[i]} PROVE BetweenNeighbours(Signal("Ping", k, i))'
    <3>1. k \in Up /\ i \in {next[k], prev[k]}
      BY <1>1, <1>2, <2>1, Mutual DEF Resting
    <3> QED BY <1>1, <1>4, <3>1, SignalFields DEF BetweenNeighbours
  <2> QED BY <1>3, <2>1
<1>6. Resting'
  BY <1>2, <1>3, <1>4, <1>5 DEF Resting, Still, Placed
<1>7. \A j \in Node : /\ nextUn[j] <= spent.losses /\ prevUn[j] <= spent.losses
                       /\ pinger[j] = "sleep"
  BY <1>2, NoPings DEF RingInv, CountsInv
<1>8. /\ spent.losses \in Nat /\ spent.losses < PingLimit
      /\ PingLimit \in Nat
  BY Losses, RingAssumption DEF Serial, TypeInv
<1>9. /\ nextUn'[i] = nextUn[i] + 1 /\ prevUn'[i] = prevUn[i] + 1
      /\ \A j \in Node \ {i} : nextUn'[j] = nextUn[j] /\ prevUn'[j] = prevUn[j]
  BY <1>3, <1>7, <1>8, Counters DEF Bump, TypeInv, NodesOK
<1>10. pinger'[i] = "sleep" /\ \A j \in Node \ {i} : pinger'[j] = pinger[j]
  BY <1>7, <1>8, <1>9, Counters DEF SendPings, TypeInv, NodesOK
<1>11. Awaits(i, next[i])' /\ Awaits(i, prev[i])'
  BY <1>3 DEF Awaits
<1>12. CountsInv'
  <2>1. spent'.losses = spent.losses
    BY <1>3
  <2>2. /\ nextUn'[i] <= spent'.losses + 1 /\ prevUn'[i] <= spent'.losses + 1
    BY <1>7, <1>8, <1>9, <2>1, Counters DEF TypeInv
  <2> QED BY <1>7, <1>9, <1>10, <1>11, <2>1, <2>2 DEF CountsInv
<1> QED BY <1>6, <1>12 DEF RingInv, Phase
LEMMA PingTaken ==
    ASSUME Serial, TypeInv, CountsInv, Resting, NEW m \in msgs,
           RecvPing(m) \/ RecvPingAck(m) \/ Lose(m)
    PROVE  RingInv'
<1>1. /\ m.type \in {"Ping", "PingAck"} /\ m = Signal(m.type, m.to, m.from)
      /\ m.to \in Up /\ m.from \in Up
      /\ m.from \in {next[m.to], prev[m.to]} /\ m.to \in {next[m.from], prev[m.from]}
  BY DEF Resting, BetweenNeighbours
<1>2. UNCHANGED <<status, next, prev, pinger, reg, nsTask>>
  BY <1>1 DEF RecvPing, RecvPingAck, Lose, pointers, nodeVars
<1>3. UNCHANGED <<Up, next, prev>>
  BY <1>2 DEF Up
<1>4. \A r \in msgs' : BetweenNeighbours(r)'
  <2>1. \A r \in msgs : BetweenNeighbours(r)'
    BY <1>3 DEF Resting, BetweenNeighbours
  <2>2. BetweenNeighbours(Signal("PingAck", m.from, m.to))'
    BY <1>1, <1>3, SignalFields DEF BetweenNeighbours
  <2> QED BY <1>1, <2>1, <2>2 DEF RecvPing, RecvPingAck, Lose, Takes
<1>5. Resting'
  BY <1>2, <1>3, <1>4 DEF Resting, Still, Placed
<1>6. SpentOK /\ NodesOK /\ spent.losses \in Nat
  BY Losses DEF TypeInv
<1>7. CASE Lose(m)
  <2>1. /\ UNCHANGED <<nextUn, prevUn>>
        /\ spent'.losses = spent.losses + 1
    BY <1>6, <1>7 DEF Lose, nodeVars, counters, SpentOK
  <2>2. \A j \in Node : nextUn[j] <= spent'.losses /\ prevUn[j] <= spent'.losses
    BY <1>6, <2>1, Counters DEF CountsInv
  <2>3. CountsInv'
    BY <1>2, <2>1, <2>2 DEF CountsInv
  <2> QED BY <1>5, <2>3 DEF RingInv, Phase
<1>8. CASE RecvPing(m)
  <2>1. msgs' = (msgs \ {m}) \union {Signal("PingAck", m.from, m.to)}
    BY <1>1, <1>8 DEF RecvPing, Takes
  <2>2. UNCHANGED <<nextUn, prevUn, spent>>
    BY <1>8 DEF RecvPing, counters
  <2>3. m = Signal("Ping", m.to, m.from)
    BY <1>1, <1>8 DEF RecvPing, Hears
  <2>4. ASSUME NEW j \in Node, NEW k, Awaits(j, k)
        PROVE  Awaits(j, k)'
    BY <2>1, <2>3, <2>4, SignalFields DEF Awaits
  <2>5. CountsInv'
    BY <1>2, <2>2, <2>4 DEF CountsInv
  <2> QED BY <1>5, <2>5 DEF RingInv, Phase
<1>9. CASE RecvPingAck(m)
  <2>1. msgs' = msgs \ {m} /\ ResetFor(m.to, m.from) /\ spent' = spent
    BY <1>9 DEF RecvPingAck, Takes
  <2>2. m = Signal("PingAck", m.to, m.from)
    BY <1>1, <1>9 DEF RecvPingAck, Hears
  <2>3. ASSUME NEW j \in Node, NEW k, Awaits(j, k), j # m.to \/ k # m.from
        PROVE  Awaits(j, k)'
    BY <2>1, <2>2, <2>3, SignalFields DEF Awaits
  <2>4. ASSUME NEW j \in Node
        PROVE  nextUn'[j] <= spent.losses \/ (Awaits(j, next[j])' /\ nextUn'[j] <= spent.losses + 1)
    <3>1. nextUn'[j] = IF j = m.to /\ next[j] = m.from THEN 0 ELSE nextUn[j]
      BY <1>1, <1>6, <2>1, UpNodes DEF ResetFor, NodesOK
    <3> QED BY <1>2, <1>6, <2>3, <3>1 DEF CountsInv
  <2>5. ASSUME NEW j \in Node
        PROVE  prevUn'[j] <= spent.losses \/ (Awaits(j, prev[j])' /\ prevUn'[j] <= spent.losses + 1)
    <3>1. prevUn'[j] = IF j = m.to /\ prev[j] = m.from THEN 0 ELSE prevUn[j]
      BY <1>1, <1>6, <2>1, UpNodes DEF ResetFor, NodesOK
    <3> QED BY <1>2, <1>6, <2>3, <3>1 DEF CountsInv
  <2>6. CountsInv'
    BY <1>2, <2>1, <2>4, <2>5 DEF CountsInv
  <2> QED BY <1>5, <2>6 DEF RingInv, Phase
<1> QED BY <1>7, <1>8, <1>9

-------------------------------------------------------------------------------
(***************************************************************************)
(* A node joins.                                                           *)
(***************************************************************************)
LEMMA JoinersMessages ==
    ASSUME NEW i \in Node, Joining(i)
    PROVE  /\ \A m \in msgs : m.type \in {"Offer", "Discovery"}
           /\ \A m \in msgs : m.type = "Offer" => IsOffer(m, i) /\ m.to = i
           /\ \A m \in msgs : m.type = "Discovery" =>
                  m = Hello(m.to, i) /\ m.from = i /\ m.to \in Others(i) \union {NS}
           /\ \A j, k : ~ Awaits(j, k)
<1>1. \A m \in msgs : IsOffer(m, i) => m.type = "Offer" /\ m.to = i
  BY MsgFields DEF IsOffer
<1>2. ASSUME NEW m \in msgs, ~ IsOffer(m, i)
      PROVE  m.type = "Discovery" /\ m = Hello(m.to, i) /\ m.from = i
                /\ m.to \in Others(i) \union {NS}
  BY <1>2, SignalFields DEF Joining, Hello
<1> QED BY <1>1, <1>2, NoPings

LEMMA JoinRegisters ==
    ASSUME Serial, TypeInv, CountsInv, NEW i \in Node, Joining(i), NEW m \in msgs, Register(m)
    PROVE  RingInv'
<1>1. m = Hello(NS, i) /\ m.from = i
  BY JoinersMessages DEF Register
<1>2. Asks(i) /\ i \notin reg
  BY <1>1 DEF Joining, InMap, Asks, Others
<1>3. PICK x, y, o :
      /\ o = Msg("Offer", i, NS, x, y) /\ x = GetNextNode(reg', i) /\ y = GetPrevNode(reg', i)
      /\ reg' = reg \union {i} /\ nsTask' = i /\ msgs' = (msgs \ {m}) \union {o}
      /\ UNCHANGED <<status, next, prev, nextUn, prevUn, pinger, spent>>
  BY <1>1, <1>2 DEF Register, Takes, nodeVars, pointers, counters
<1>4. UNCHANGED <<Up, Others(i)>> /\ reg' = Others(i) \union {i} /\ reg' \subseteq Node
  BY <1>2, <1>3, UpNodes DEF Asks, Up, Others
<1>5. IsNext(reg', i, x) /\ IsPrev(reg', i, y)
  BY <1>3, <1>4, Lookups
<1>6. IsOffer(o, i)'
  <2>1. o.x = x /\ o.y = y /\ o = Msg("Offer", i, NS, o.x, o.y)
    BY <1>3, MsgFields
  <2>2. IsNext(Others(i)' \union {i}, i, o.x) /\ IsPrev(Others(i)' \union {i}, i, o.y)
    BY <1>4, <1>5, <2>1
  <2> QED BY <2>1, <2>2 DEF IsOffer
<1>7. \A k \in Others(i) \union {NS} : Hello(k, i) \in msgs' <=> (Hello(k, i) \in msgs /\ k # NS)
  BY <1>1, <1>3, SignalFields, MsgFields DEF Hello
<1>8. \A k \in Others(i) : k # NS
  BY NodeFacts, UpNodes DEF Others
<1>9. \A k \in Others(i) :
          Placed(IF Hello(k, i) \in msgs THEN Others(i) ELSE Others(i) \union {i}, k)'
  BY <1>3, <1>4, <1>7, <1>8 DEF Joining, Placed
<1>10. \A r \in msgs : IsOffer(r, i)' <=> IsOffer(r, i)
  BY <1>4 DEF IsOffer
<1>11. \A r \in msgs' : IsOffer(r, i)' \/ \E k \in Others(i)' \union {NS} : r = Hello(k, i)
  BY <1>3, <1>4, <1>6, <1>10 DEF Joining
<1>12. Still({i})'
  BY <1>3 DEF Joining, Still
<1>13. InMap(i)'
  BY <1>2, <1>3, <1>4, <1>6, <1>7 DEF InMap, Asks, Hello
<1>14. Joining(i)'
  BY <1>4, <1>9, <1>11, <1>12, <1>13 DEF Joining, Hello
<1>15. CountsInv'
  BY <1>3, CountsFrame, JoinersMessages DEF counters
<1> QED BY <1>14, <1>15 DEF RingInv, Phase
LEMMA JoinTells ==
    ASSUME Serial, TypeInv, CountsInv, NEW i \in Node, Joining(i), TellPrevious
    PROVE  RingInv'
<1>1. InMap(i) /\ nsTask = i
  BY DEF Joining, Asks, InMap, TellPrevious
<1>2. reg = Others(i) \union {i} /\ reg \subseteq Running
  BY <1>1, UpNodes DEF InMap, Others, Running
<1>3. GetPrevNode(reg, nsTask) \in Running
  BY <1>1, <1>2, Lookups DEF TypeInv, ServerOK
<1>4. nsTask' = NoNode /\ UNCHANGED <<status, next, prev, nextUn, prevUn, pinger, reg, msgs, spent>>
  BY <1>3 DEF TellPrevious, nodeVars, pointers, counters
<1>5. UNCHANGED <<Up, Others(i)>>
  BY <1>4 DEF Up, Others
<1>6. \A r \in msgs : IsOffer(r, i)' <=> IsOffer(r, i)
  BY <1>4, <1>5 DEF IsOffer
<1>7. \A k \in Up : Placed(Up, k)' <=> Placed(Up, k)
  BY <1>4, <1>5 DEF Placed
<1>8. \A k \in Others(i) :
          Placed(IF Hello(k, i) \in msgs THEN Others(i) ELSE Others(i) \union {i}, k)'
  BY <1>4, <1>5 DEF Joining, Placed
<1>9. Joining(i)'
  BY <1>1, <1>4, <1>5, <1>6, <1>7, <1>8 DEF Joining, InMap, Still, Hello, Placed
<1>10. CountsInv'
  BY <1>4, CountsFrame, JoinersMessages DEF counters
<1> QED BY <1>9, <1>10 DEF RingInv, Phase

LEMMA JoinOffered ==
    ASSUME Serial, TypeInv, CountsInv, NEW i \in Node, Joining(i), NEW m \in msgs, RecvOffer(m)
    PROVE  RingInv'
<1>1. IsOffer(m, i) /\ m.to = i
  BY JoinersMessages DEF RecvOffer
<1>2. InMap(i) /\ status[i] = "joining"
  BY <1>1 DEF Joining, Asks, RecvOffer
<1>3. /\ status' = [status EXCEPT ![i] = "up"] /\ msgs' = msgs \ {m}
      /\ next' = [next EXCEPT ![i] = m.x] /\ prev' = [prev EXCEPT ![i] = m.y]
      /\ UNCHANGED <<nextUn, prevUn, pinger, reg, nsTask, spent>>
  BY <1>1 DEF RecvOffer, Takes, Point, counters
<1>4. status'[i] = "up" /\ \A k \in Node \ {i} : status'[k] = status[k]
  BY <1>3 DEF TypeInv, NodesOK
<1>5. /\ next'[i] = m.x /\ prev'[i] = m.y
      /\ \A k \in Node \ {i} : next'[k] = next[k] /\ prev'[k] = prev[k]
  BY <1>3 DEF TypeInv, NodesOK
<1>6. /\ Up' = Others(i) \union {i} /\ Others(i)' = Others(i)
      /\ Others(i) \subseteq Node \ {i}
  BY <1>2, <1>4 DEF Up, Others
<1>7. Placed(Up, i)'
  BY <1>1, <1>5, <1>6 DEF Placed, IsOffer
<1>8. \A k \in Others(i) : Hello(k, i) \in msgs' <=> Hello(k, i) \in msgs
  BY <1>1, <1>3, SignalFields, MsgFields DEF Hello, IsOffer
<1>9. \A k \in Others(i) :
          Placed(IF Hello(k, i) \in msgs THEN Others(i) ELSE Others(i) \union {i}, k)'
  BY <1>5, <1>6, <1>8 DEF Joining, Placed, Hello
<1>10. \A r : IsOffer(r, i)' <=> IsOffer(r, i)
  BY <1>6 DEF IsOffer
<1>11. \A r \in msgs' : ~ IsOffer(r, i)'
  <2>1. Others(i) \union {i} \subseteq Nat
    BY NodeFacts, UpNodes DEF Others
  <2>2. \A r : IsOffer(r, i) => r.x = m.x /\ r.y = m.y
    BY <1>1, <2>1, NextUnique, PrevUnique DEF IsOffer
  <2>3. \A r : IsOffer(r, i) => r = m
    BY <1>1, <2>2 DEF IsOffer
  <2> QED BY <1>3, <1>10, <2>3
<1>12. InMap(i)'
  BY <1>2, <1>3, <1>4, <1>6, <1>7, <1>11 DEF InMap, Hello
<1>13. Still({i})'
  BY <1>4 DEF Joining, Still
<1>14. \A r \in msgs' : IsOffer(r, i)' \/ \E k \in Others(i)' \union {NS} : r = Hello(k, i)
  BY <1>3, <1>6, <1>10 DEF Joining
<1>15. Joining(i)'
  BY <1>6, <1>9, <1>12, <1>13, <1>14 DEF Joining, Hello
<1>16. CountsInv'
  <2>1. \A r \in msgs' : r.type \notin {"Ping", "PingAck"}
    BY <1>3, JoinersMessages
  <2>2. \A j \in Node : /\ nextUn[j] <= spent.losses /\ prevUn[j] <= spent.losses
                         /\ pinger[j] = "sleep"
    BY JoinersMessages DEF CountsInv
  <2> QED BY <1>3, <2>2 DEF CountsInv
<1> QED BY <1>15, <1>16 DEF RingInv, Phase

LEMMA JoinHeard ==
    ASSUME Serial, TypeInv, CountsInv, NEW i \in Node, Joining(i), NEW m \in msgs, RecvDiscovery(m)
    PROVE  RingInv'
<1> DEFINE k == m.to
<1>1. m = Hello(k, i) /\ m.from = i /\ k \in Others(i) \union {NS} /\ k \in Up
  BY JoinersMessages DEF RecvDiscovery, Hears
<1>2. k \in Others(i) /\ k \in Node /\ k # i
  BY <1>1, UpNodes, NodeFacts DEF Others
<1> DEFINE n == NextOnDiscovery(k, prev[k], next[k], i)
           p == PrevOnDiscovery(k, prev[k], next[k], i)
<1>3. /\ msgs' = msgs \ {m}
      /\ next' = [next EXCEPT ![k] = n] /\ prev' = [prev EXCEPT ![k] = p]
      /\ UNCHANGED <<status, nextUn, prevUn, pinger, reg, nsTask, spent>>
  BY <1>1 DEF RecvDiscovery, Takes, Point, counters
<1>4. IsNext(Others(i) \union {i}, k, n) /\ IsPrev(Others(i) \union {i}, k, p)
  <2>1. Placed(Others(i), k)
    BY <1>1, <1>2 DEF Joining
  <2>2. Others(i) \subseteq Nat /\ i \in Nat /\ i \notin Others(i)
    BY NodeFacts, UpNodes DEF Others
  <2> QED BY <1>2, <2>1, <2>2, DiscoveryKeepsNext, DiscoveryKeepsPrev DEF Placed
<1>5. /\ next'[k] = n /\ prev'[k] = p
      /\ \A j \in Node \ {k} : next'[j] = next[j] /\ prev'[j] = prev[j]
  BY <1>2, <1>3 DEF TypeInv, NodesOK
<1> HIDE DEF n, p
<1>6. UNCHANGED <<Up, Others(i)>> /\ Others(i) \subseteq Node /\ Up \subseteq Node
  BY <1>3 DEF Up, Others
<1>7. \A j \in Others(i) \union {NS} : Hello(j, i) \in msgs' <=> (Hello(j, i) \in msgs /\ j # k)
  BY <1>1, <1>3, SignalFields DEF Hello
<1>8. \A j \in Others(i) :
          Placed(IF Hello(j, i) \in msgs THEN Others(i) ELSE Others(i) \union {i}, j)'
  <2>1. ASSUME NEW j \in Others(i), j # k
        PROVE  Placed(IF Hello(j, i) \in msgs THEN Others(i) ELSE Others(i) \union {i}, j)'
    BY <1>5, <1>6, <1>7, <2>1 DEF Joining, Placed, Hello
  <2>2. Placed(IF Hello(k, i) \in msgs THEN Others(i) ELSE Others(i) \union {i}, k)'
    BY <1>2, <1>4, <1>5, <1>6, <1>7 DEF Placed, Hello
  <2> QED BY <2>1, <2>2
<1>9. \A r : IsOffer(r, i)' <=> IsOffer(r, i)
  BY <1>6 DEF IsOffer
<1>10. ~ IsOffer(m, i)
  BY <1>1, SignalFields, MsgFields DEF IsOffer, Hello
<1>11. Hello(NS, i) \in msgs' <=> Hello(NS, i) \in msgs
  BY <1>2, <1>7, NodeFacts
<1>12. Placed(Up, i)' <=> Placed(Up, i)
  BY <1>2, <1>5, <1>6 DEF Placed
<1>13. Asks(i)' \/ InMap(i)'
  <2>1. CASE Asks(i)
    BY <1>3, <1>6, <1>9, <1>11, <2>1 DEF Asks, Hello
  <2>2. CASE InMap(i)
    BY <1>3, <1>6, <1>9, <1>10, <1>11, <1>12, <2>2 DEF InMap, Hello
  <2> QED BY <2>1, <2>2 DEF Joining
<1>14. \A r \in msgs' : IsOffer(r, i)' \/ \E j \in Others(i)' \union {NS} : r = Hello(j, i)
  BY <1>3, <1>6, <1>9 DEF Joining
<1>15. Still({i})'
  BY <1>3 DEF Joining, Still
<1>16. Joining(i)'
  BY <1>6, <1>8, <1>13, <1>14, <1>15 DEF Joining, Hello
<1>17. CountsInv'
  <2>1. \A j \in Node : /\ nextUn[j] <= spent.losses /\ prevUn[j] <= spent.losses
                         /\ pinger[j] = "sleep"
    BY JoinersMessages DEF CountsInv
  <2> QED BY <1>3, <2>1 DEF CountsInv
<1> QED BY <1>16, <1>17 DEF RingInv, Phase
LEMMA JoinNothingElse ==
    ASSUME Serial, TypeInv, CountsInv, NEW i \in Node, Joining(i), NEW m \in msgs
    PROVE  /\ ~ RecvDenied(m) /\ ~ RecvShutdown(m) /\ ~ RecvFailure(m) /\ ~ RecvPing(m)
           /\ ~ RecvPingAck(m) /\ ~ RecvPingNack(m) /\ ~ Ignore(m) /\ ~ Lose(m)
<1>1. m.type \in {"Offer", "Discovery"}
  BY JoinersMessages
<1>2. ~ Ignore(m)
  <2>1. CASE m.type = "Offer"
    BY <2>1, JoinersMessages DEF Joining, Asks, InMap, Ignore, Expected
  <2>2. CASE m.type = "Discovery"
    BY <2>2, JoinersMessages DEF Others, Ignore, Expected
  <2> QED BY <1>1, <2>1, <2>2
<1> QED BY <1>1, <1>2
    DEF Serial, RecvDenied, RecvShutdown, RecvFailure, RecvPing, RecvPingAck, RecvPingNack,
        Lose, Hears

-------------------------------------------------------------------------------
(***************************************************************************)
(* A node leaves.                                                          *)
(***************************************************************************)
LEMMA LeaveSends ==
    ASSUME Serial, TypeInv, CountsInv, NEW i \in Node, Leaving(i), SendShutdown(i)
    PROVE  RingInv'
<1>1. PICK n, p : n = next[i] /\ p = prev[i] /\ n \in Node /\ p \in Node
  BY DEF TypeInv, NodesOK
<1> DEFINE toPrev == Msg("ShutdownNext", p, i, n, NoNode)
           toNext == Msg("ShutdownPrev", n, i, p, NoNode)
<1>2. /\ msgs' = {toPrev, toNext} /\ UNCHANGED <<reg, nsTask, spent>> /\ Stop(i)
  BY <1>1 DEF Leaving, SendShutdown
<1>3. /\ status'[i] = "gone" /\ nextUn'[i] = 0 /\ prevUn'[i] = 0 /\ pinger'[i] = "sleep"
      /\ \A k \in Node \ {i} : /\ status'[k] = status[k] /\ pinger'[k] = pinger[k]
                               /\ next'[k] = next[k] /\ prev'[k] = prev[k]
                               /\ nextUn'[k] = nextUn[k] /\ prevUn'[k] = prevUn[k]
  BY <1>2 DEF Stop, TypeInv, NodesOK
<1>4. Up' = Up /\ i \notin Up
  BY <1>3 DEF Leaving, Up
<1>5. IsNext(Up \union {i}, i, n) /\ IsPrev(Up \union {i}, i, p)
  BY <1>1 DEF Leaving, Placed
<1>6. \A k \in Up : IsNext(Up \union {i}, k, next'[k]) /\ IsPrev(Up \union {i}, k, prev'[k])
  BY <1>3, <1>4, UpNodes DEF Leaving, Placed
<1>7. Still({})'
  BY <1>3 DEF Leaving, Still
<1>8. Left(i, n, p)'
  <2>1. reg' = Up' /\ nsTask' = NoNode /\ status'[i] = "gone"
    BY <1>2, <1>3, <1>4 DEF Leaving
  <2>2. toPrev \in msgs' /\ toNext \in msgs' /\ msgs' \subseteq {toPrev, toNext}
    BY <1>2
  <2> HIDE DEF toPrev, toNext
  <2>3. /\ IsNext(Up' \union {i}, i, n) /\ IsPrev(Up' \union {i}, i, p)
        /\ \A k \in Up' : /\ IsNext(IF toPrev \in msgs' THEN Up' \union {i} ELSE Up', k, next'[k])
                           /\ IsPrev(IF toNext \in msgs' THEN Up' \union {i} ELSE Up', k, prev'[k])
    BY <1>4, <1>5, <1>6, <2>2
  <2> QED BY <1>7, <2>1, <2>2, <2>3 DEF Left, toPrev, toNext
<1>9. CountsInv'
  <2>1. \A j \in Node : /\ nextUn[j] <= spent.losses /\ prevUn[j] <= spent.losses
                         /\ pinger[j] = "sleep"
    BY NoPings DEF CountsInv, Leaving
  <2>2. 0 <= spent.losses
    BY Losses DEF TypeInv
  <2> QED BY <1>2, <1>3, <2>1, <2>2 DEF CountsInv
<1> QED BY <1>1, <1>8, <1>9 DEF RingInv, Phase

LEMMA LeftMessages ==
    ASSUME NEW i, NEW n, NEW p, Left(i, n, p)
    PROVE  /\ \A m \in msgs : m.type \in {"ShutdownNext", "ShutdownPrev"}
           /\ \A j, k : ~ Awaits(j, k)
<1>1. \A m \in msgs : m.type \in {"ShutdownNext", "ShutdownPrev"}
  BY MsgFields DEF Left
<1> QED BY <1>1, NoPings

LEMMA LeftHeard ==
    ASSUME Serial, TypeInv, CountsInv, NEW i \in Node, NEW n \in Node, NEW p \in Node,
           Left(i, n, p), NEW m \in msgs, RecvShutdown(m)
    PROVE  RingInv'
<1> DEFINE toPrev == Msg("ShutdownNext", p, i, n, NoNode)
           toNext == Msg("ShutdownPrev", n, i, p, NoNode)
           old == Up \union {i}
<1>1. /\ Still({}) /\ status[i] = "gone" /\ reg = Up /\ nsTask = NoNode
      /\ IsNext(old, i, n) /\ IsPrev(old, i, p)
      /\ msgs \subseteq {toPrev, toNext}
      /\ \A k \in Up : /\ IsNext(IF toPrev \in msgs THEN old ELSE Up, k, next[k])
                        /\ IsPrev(IF toNext \in msgs THEN old ELSE Up, k, prev[k])
  BY DEF Left
<1>2. /\ toPrev.type = "ShutdownNext" /\ toPrev.to = p /\ toPrev.x = n
      /\ toNext.type = "ShutdownPrev" /\ toNext.to = n /\ toNext.x = p
  BY MsgFields
<1> HIDE DEF toPrev, toNext
<1>4. m.to \in Up /\ msgs' = msgs \ {m} /\ UNCHANGED <<status, nextUn, prevUn, pinger, reg, nsTask, spent>>
  BY DEF RecvShutdown, Hears, Takes, counters
<1>5. UNCHANGED <<Up, old>> /\ i \notin Up /\ old \ {i} = Up /\ old \subseteq Nat /\ Up \subseteq Node
  BY <1>1, <1>4, NodeFacts DEF Up
<1>6. CountsInv'
  <2>1. \A j \in Node : /\ nextUn[j] <= spent.losses /\ prevUn[j] <= spent.losses
                         /\ pinger[j] = "sleep"
    BY LeftMessages DEF CountsInv
  <2> QED BY <1>4, <2>1 DEF CountsInv
<1>7. CASE m = toPrev
  <2>1. p \in Up /\ toPrev \in msgs
    BY <1>2, <1>4, <1>7
  <2>2. IsNext(old, p, i) /\ next[p] = i
    <3>1. IsNext(old, p, i)
      BY <1>1, <1>5, <2>1, NextPrevConverse
    <3>2. IsNext(old, p, next[p])
      BY <1>1, <2>1
    <3> QED BY <1>5, <2>1, <3>1, <3>2, NextUnique
  <2>3. next' = [next EXCEPT ![p] = n] /\ prev' = [prev EXCEPT ![p] = prev[p]]
    BY <1>2, <1>5, <1>7, <2>1, <2>2 DEF RecvShutdown, Alone, Point
  <2>4. next'[p] = n /\ prev' = prev /\ \A k \in Node \ {p} : next'[k] = next[k]
    BY <2>3 DEF TypeInv, NodesOK
  <2>5. toPrev \notin msgs' /\ (toNext \in msgs' <=> toNext \in msgs)
    BY <1>2, <1>4, <1>7
  <2>6. IsNext(Up, p, n)
    BY <1>1, <1>5, <2>1, <2>2, ShutdownKeepsNext
  <2>7. ASSUME NEW k \in Up, k # p PROVE IsNext(Up, k, next[k])
    <3>1. IsNext(old, k, next[k])
      BY <1>1, <2>1
    <3>2. next[k] # i
      BY <1>1, <1>5, <2>1, <2>7, <3>1, NextPrevConverse, PrevUnique
    <3> QED BY <3>1, <3>2 DEF IsNext
  <2>8. \A k \in Up : /\ IsNext(Up, k, next'[k])
                      /\ IsPrev(IF toNext \in msgs' THEN old ELSE Up, k, prev'[k])
    BY <1>1, <1>5, <2>4, <2>5, <2>6, <2>7
  <2>9. Left(i, n, p)'
    BY <1>1, <1>4, <1>5, <2>5, <2>8 DEF Left, Still, toPrev, toNext
  <2> QED BY <1>6, <2>9 DEF RingInv, Phase
<1>8. CASE m = toNext
  <2>1. n \in Up /\ toNext \in msgs
    BY <1>2, <1>4, <1>8
  <2>2. IsPrev(old, n, i) /\ prev[n] = i
    <3>1. IsPrev(old, n, i)
      BY <1>1, <1>5, <2>1, NextPrevConverse
    <3>2. IsPrev(old, n, prev[n])
      BY <1>1, <2>1
    <3> QED BY <1>5, <2>1, <3>1, <3>2, PrevUnique
  <2>3. next' = [next EXCEPT ![n] = next[n]] /\ prev' = [prev EXCEPT ![n] = p]
    BY <1>2, <1>5, <1>8, <2>1, <2>2 DEF RecvShutdown, Alone, Point
  <2>4. prev'[n] = p /\ next' = next /\ \A k \in Node \ {n} : prev'[k] = prev[k]
    BY <2>3 DEF TypeInv, NodesOK
  <2>5. toNext \notin msgs' /\ (toPrev \in msgs' <=> toPrev \in msgs)
    BY <1>2, <1>4, <1>8
  <2>6. IsPrev(Up, n, p)
    BY <1>1, <1>5, <2>1, <2>2, ShutdownKeepsPrev
  <2>7. ASSUME NEW k \in Up, k # n PROVE IsPrev(Up, k, prev[k])
    <3>1. IsPrev(old, k, prev[k])
      BY <1>1, <2>1
    <3>2. prev[k] # i
      BY <1>1, <1>5, <2>1, <2>7, <3>1, NextPrevConverse, NextUnique
    <3> QED BY <3>1, <3>2 DEF IsPrev
  <2>8. \A k \in Up : /\ IsNext(IF toPrev \in msgs' THEN old ELSE Up, k, next'[k])
                      /\ IsPrev(Up, k, prev'[k])
    BY <1>1, <1>5, <2>4, <2>5, <2>6, <2>7
  <2>9. Left(i, n, p)'
    BY <1>1, <1>4, <1>5, <2>5, <2>8 DEF Left, Still, toPrev, toNext
  <2> QED BY <1>6, <2>9 DEF RingInv, Phase
<1> QED BY <1>1, <1>7, <1>8

LEMMA LeftIgnored ==
    ASSUME Serial, TypeInv, CountsInv, NEW i \in Node, NEW n \in Node, NEW p \in Node,
           Left(i, n, p), NEW m \in msgs, Ignore(m)
    PROVE  RingInv'
<1>1. msgs' = msgs \ {m} /\ UNCHANGED <<status, next, prev, nextUn, prevUn, pinger, reg, nsTask, spent>>
  BY DEF Ignore, Takes, nodeVars, pointers, counters
<1>2. UNCHANGED Up
  BY <1>1 DEF Up
<1>3. Up = {}
  <2>1. m.to \in {n, p} /\ m.to \notin Up
    BY LeftMessages, MsgFields DEF Ignore, Expected, Left
  <2>2. Up \union {i} \subseteq Nat /\ i \notin Up
    BY UpNodes, NodeFacts DEF Left, Up
  <2>3. n \in Up \union {i} /\ p \in Up \union {i}
    BY DEF Left, IsNext, IsPrev
  <2>4. m.to = i /\ (IsNext(Up \union {i}, i, i) \/ IsPrev(Up \union {i}, i, i))
    BY <2>1, <2>3 DEF Left
  <2>5. \A k \in Up : k # i /\ ~ StrictlyBetween(i, k, i)
    BY <2>2, <2>4 DEF IsNext, IsPrev
  <2> QED BY <2>2, <2>5 DEF StrictlyBetween
<1>4. Left(i, n, p)'
  BY <1>1, <1>2, <1>3 DEF Left, Still
<1>5. CountsInv'
  <2>1. \A j \in Node : /\ nextUn[j] <= spent.losses /\ prevUn[j] <= spent.losses
                         /\ pinger[j] = "sleep"
    BY LeftMessages DEF CountsInv
  <2> QED BY <1>1, <2>1 DEF CountsInv
<1> QED BY <1>4, <1>5 DEF RingInv, Phase
-------------------------------------------------------------------------------
(***************************************************************************)
(* All phases together.                                                    *)
(***************************************************************************)
LEMMA NothingElse ==
    ASSUME Serial, TypeInv, RingInv, NEW i \in Node
    PROVE  /\ ~ Crash(i) /\ ~ CheckNext(i) /\ ~ CheckPrev(i) /\ ~ Resend(i)
           /\ SendShutdown(i) => Leaving(i)
<1>1. ~ Crash(i)
  BY DEF Crash, Serial, TypeInv, SpentOK
<1>2. ~ CheckNext(i) /\ ~ CheckPrev(i)
  BY DEF CheckNext, CheckPrev, RingInv, CountsInv
<1>3. ~ Resend(i)
  BY DEF Resend, Serial, RingInv, Phase, Resting, Joining, Asks, InMap, Leaving, Left, Still
<1>4. SendShutdown(i) => Leaving(i)
  BY DEF SendShutdown, RingInv, Phase, Resting, Joining, Asks, InMap, Leaving, Left, Still
<1> QED BY <1>1, <1>2, <1>3, <1>4

LEMMA Delivered ==
    ASSUME Serial, TypeInv, RingInv, NEW m \in msgs, Deliver(m) \/ Lose(m)
    PROVE  RingInv'
<1>1. CountsInv
  BY DEF RingInv
<1>2. CASE Resting
  <2>1. /\ m.type \in {"Ping", "PingAck"} /\ m.to \in Up
    BY <1>2 DEF Resting, BetweenNeighbours
  <2>2. ~ Ignore(m)
    BY <2>1 DEF Ignore, Expected
  <2> QED BY <1>1, <1>2, <2>1, <2>2, PingTaken
          DEF Deliver, Register, RecvOffer, RecvDenied, RecvDiscovery, RecvShutdown, RecvFailure,
              RecvPingNack, Hears
<1>3. ASSUME NEW i \in Node, Joining(i) PROVE RingInv'
  BY <1>1, <1>3, JoinNothingElse, JoinRegisters, JoinOffered, JoinHeard DEF Deliver
<1>4. ASSUME NEW i \in Node, Leaving(i) PROVE RingInv'
  BY <1>4 DEF Leaving
<1>5. ASSUME NEW i \in Node, NEW n \in Node, NEW p \in Node, Left(i, n, p) PROVE RingInv'
  <2>1. m.type \in {"ShutdownNext", "ShutdownPrev"}
    BY <1>5, LeftMessages
  <2> QED BY <1>1, <1>5, <2>1, LeftHeard, LeftIgnored
          DEF Deliver, Register, RecvOffer, RecvDenied, RecvDiscovery, RecvFailure, RecvPing,
              RecvPingAck, RecvPingNack, Hears, Lose, Serial
<1> QED BY <1>2, <1>3, <1>4, <1>5 DEF RingInv, Phase

LEMMA Told ==
    ASSUME Serial, TypeInv, RingInv, TellPrevious
    PROVE  RingInv'
<1>1. PICK i \in Node : Joining(i)
  BY DEF TellPrevious, RingInv, Phase, Resting, Leaving, Left
<1> QED BY <1>1, JoinTells DEF RingInv

LEMMA RingStutter == RingInv /\ UNCHANGED vars => RingInv'
<1> SUFFICES ASSUME RingInv, UNCHANGED vars PROVE RingInv'
  OBVIOUS
<1>1. UNCHANGED <<status, next, prev, nextUn, prevUn, pinger, reg, nsTask, msgs, spent>>
  BY DEF vars, nodeVars, pointers, counters
<1>2. UNCHANGED Up /\ \A i \in Node : UNCHANGED Others(i)
  BY <1>1 DEF Up, Others
<1>3. CountsInv'
  BY <1>1 DEF RingInv, CountsInv, Awaits
<1>4. Resting => Resting'
  BY <1>1, <1>2 DEF Resting, Still, Placed, BetweenNeighbours
<1>5. \A i \in Node : Joining(i) => Joining(i)'
  BY <1>1, <1>2 DEF Joining, Asks, InMap, IsOffer, Still, Placed, Hello
<1>6. \A i \in Node : Leaving(i) => Leaving(i)'
  BY <1>1, <1>2 DEF Leaving, Still, Placed
<1>7. \A i, n, p \in Node : Left(i, n, p) => Left(i, n, p)'
  BY <1>1, <1>2 DEF Left, Still
<1> QED BY <1>3, <1>4, <1>5, <1>6, <1>7 DEF RingInv, Phase

LEMMA NextRing ==
    ASSUME Serial, TypeInv, RingInv, [Next]_vars
    PROVE  RingInv'
<1>1. CASE Environment
  BY <1>1, StartJoins, LeaveLeaves, NothingElse DEF Environment
<1>2. CASE \E m \in msgs : Deliver(m) \/ Lose(m)
  BY <1>2, Delivered
<1>3. CASE TellPrevious
  BY <1>3, Told
<1>4. ASSUME NEW i \in Node,
             Resend(i) \/ SendShutdown(i) \/ SendPings(i) \/ CheckNext(i) \/ CheckPrev(i)
      PROVE  RingInv'
  BY <1>4, NothingElse, LeaveSends, PingsStay DEF RingInv
<1> QED BY <1>1, <1>2, <1>3, <1>4, RingStutter DEF Next

LEMMA InitRing == Init => RingInv
<1> SUFFICES ASSUME Init PROVE RingInv
  OBVIOUS
<1>1. Up = {}
  BY DEF Init, Up
<1>2. Resting
  BY <1>1 DEF Init, Resting, Still
<1>3. CountsInv
  BY DEF Init, CountsInv
<1> QED BY <1>2, <1>3 DEF RingInv, Phase

(***************************************************************************)
(* When nodes start and leave one at a time, nobody crashes and only pings *)
(* are lost (fewer than PingNode tolerates), a ring of any size is right   *)
(* as soon as the packets of a change have been handled, in whatever order *)
(* they came (discoveryHandler, shutdownHandler).                          *)
(***************************************************************************)
THEOREM QuietRingStaysClosed == Serial => (Spec => []QuietRingIsClosed)
<1>1. TypeInv /\ RingInv => QuietRingIsClosed
  BY QuietRests DEF RingInv, QuietRingIsClosed, Resting, InPlace, Placed
<1>2. Init => TypeInv /\ RingInv
  BY InitTypes, InitRing
<1>3. Serial /\ TypeInv /\ RingInv /\ [Next]_vars => (TypeInv /\ RingInv)'
  BY NextTypes, NextRing
<1> SUFFICES ASSUME Serial PROVE Spec => []QuietRingIsClosed
  OBVIOUS
<1>4. TypeInv /\ RingInv /\ [Next]_vars => (TypeInv /\ RingInv)'
  BY <1>3
<1> QED BY <1>1, <1>2, <1>4, PTL DEF Spec

(***************************************************************************)
(* Then no count of unanswered pings passes the limit either, as long as   *)
(* fewer packets are lost than pings are tolerated: PingNode reports       *)
(* nobody who is up.                                                       *)
(***************************************************************************)
THEOREM NobodyUpIsReported == Serial => (Spec => OnlyFailedAreReported)
<1>1. Init => TypeInv /\ RingInv
  BY InitTypes, InitRing
<1>2. Serial /\ TypeInv /\ RingInv /\ [Next]_vars => (TypeInv /\ RingInv)'
  BY NextTypes, NextRing
<1>3. Serial /\ TypeInv /\ RingInv /\ [Next]_vars =>
          [\A i \in Node : CheckNext(i) \/ CheckPrev(i) => (reg \ reg') \cap Up = {}]_vars
  BY NothingElse
<1> SUFFICES ASSUME Serial PROVE Spec => OnlyFailedAreReported
  OBVIOUS
<1>4. TypeInv /\ RingInv /\ [Next]_vars => (TypeInv /\ RingInv)'
  BY <1>2
<1>5. TypeInv /\ RingInv /\ [Next]_vars =>
          [\A i \in Node : CheckNext(i) \/ CheckPrev(i) => (reg \ reg') \cap Up = {}]_vars
  BY <1>3
<1> QED BY <1>1, <1>4, <1>5, PTL DEF Spec, OnlyFailedAreReported
===============================================================================
